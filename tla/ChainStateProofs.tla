-------------------------- MODULE ChainStateProofs --------------------------
(***************************************************************************)
(* Proofs about ChainState: its type invariant, and that the index, the    *)
(* active chain and the databases keep what CheckBlockIndex asserts of     *)
(* them, for every block tree and any number of threads, operations and    *)
(* crashes.                                                                *)
(*                                                                         *)
(* The inductive invariant IInv is in parts: who holds cs_main             *)
(* (ThreadsInv), where the two tips are to each other (TipsInv), nChainTx  *)
(* and mapBlocksUnlinked (LinksInv), the flags of the index (IndexInv),    *)
(* what the databases lag behind (DiskInv), the candidates (CandInv), and  *)
(* the failure flags (FailuresInv, ActiveInv).  On top of it, BestInv says  *)
(* what keeps the node from forgetting a block.                            *)
(***************************************************************************)
EXTENDS ChainState, BlockTreeTheorems

\* t is inside a critical section that spans several steps.
Held(t) == pc[t] \in {"reorg", "flush", "invalidate", "reprocess"}

ThreadsInv ==
  /\ \A t, u \in Threads : Held(t) /\ Held(u) => t = u
  /\ writing # "none" => ~Unlocked
  /\ \A t \in Threads :
       /\ pc[t] = "accept" => pblock[t] \in Block \ {Genesis} /\ Known(Parent[pblock[t]])
       /\ pc[t] = "reorg" => mostWork[t] \in chainTx /\ oldTip \in Block /\ writing # "periodic"
       /\ pc[t] = "invalidate" =>
            /\ target \in Block \ {Genesis}
            /\ used["invalidate"] > 0
            /\ writing \in {"none", "disconnect"}
       /\ pc[t] = "reprocess" => left <= Height[coinsTip] /\ writing \in {"none", "disconnect"}
       /\ pc[t] = "flush" => writing = "periodic"

\* The scripts of b and of its ancestors were checked.
Checked(b) == \A x \in Chain[b] \ {Genesis} : "scripts" \in nStatus[x]

TipsInv ==
  /\ writing \in {"none", "periodic"} => coinsTip = tip
  /\ writing = "disconnect" => tip # Genesis /\ coinsTip = Parent[tip]
  /\ writing = "connect" => coinsTip # Genesis /\ tip = Parent[coinsTip]
  /\ {tip, coinsTip} \subseteq chainTx
  /\ diskTip \in Chain[tip]
  /\ Checked(tip) /\ Checked(coinsTip)

\* LinksExact at every moment.
LinksInv ==
  /\ chainTx = {b \in Block : NothingMissing(b)}
  /\ unlinked = {b \in Block : HasData(b) /\ ~NothingMissing(b)}
  /\ \A b \in Block \ chainTx : nSequenceId[b] = 0

IndexInv ==
  /\ \A b \in Block : Known(b) => "tree" \in nStatus[b]
  /\ ParentClosed({b \in Block : Known(b)})

\* The flags that no operation takes away.
Lasting == {"tree", "data", "scripts"}

DiskInv ==
  /\ writing # "none" => dirty = {}
  /\ \A b \in Block : diskStatus[b] \cap Lasting \subseteq nStatus[b]
  /\ \A b \in Block \ dirty : /\ diskStatus[b] \subseteq nStatus[b]
                              /\ nStatus[b] \cap Lasting \subseteq diskStatus[b]
  /\ \A b \in Block : diskStatus[b] # {} => "tree" \in diskStatus[b]
  /\ DiskLoadable

CandInv ==
  /\ candidates \subseteq chainTx
  /\ \A c \in candidates : ~SortsBefore(c, tip, nSequenceId)

\* Every block that is marked failed has a block in its chain that failed itself.
Explained(flags) ==
  \A b \in Block : flags[b] \cap FailedMask # {} => \E x \in Chain[b] : "failed_valid" \in flags[x]

NothingReconsidered == used["reconsider"] = 0 /\ used["reprocess"] = 0

\* What FailuresExplained asserts, with what it takes for it to hold again
\* after a crash.
MarksInv ==
  /\ Explained(nStatus) /\ Explained(diskStatus)
  /\ \A b \in Block : "failed_valid" \in diskStatus[b] => "failed_valid" \in nStatus[b]
  /\ \A b \in Block \ dirty : "failed_valid" \in nStatus[b] => "failed_valid" \in diskStatus[b]

CallsInv ==
  \A t \in Threads :
    /\ pc[t] = "invalidate" => "failed_valid" \in nStatus[target]
    /\ pc[t] \in {"reconsider", "reprocess"} => used["reprocess"] > 0

FailuresInv == CallsInv /\ (NothingReconsidered => MarksInv)

\* The chain was not left marked by an InvalidateBlock that a crash cut short.
NotCutShort == used["invalidate"] = 0 \/ used["crash"] = 0

\* An InvalidateBlock is under way that will disconnect b.
Leaving(b) == \E t \in Threads : pc[t] = "invalidate" /\ target \in Chain[b]

\* What ActiveChainValid asserts of the failure flags, at every moment.
ChainsClean ==
  /\ \A b \in Chain[tip] \cup Chain[coinsTip] : Failed(b) => Leaving(b)
  /\ \A t \in Threads : pc[t] = "reorg" => \A b \in Chain[mostWork[t]] : ~Failed(b)
  /\ used["invalidate"] = 0 => \A b \in Chain[diskTip] : diskStatus[b] \cap FailedMask = {}

ActiveInv == NotCutShort => ChainsClean

\* What each step needs of the state before it.
State == /\ TypeOK /\ ThreadsInv /\ TipsInv /\ LinksInv /\ IndexInv /\ DiskInv /\ CandInv

IInv == State /\ FailuresInv /\ ActiveInv

-----------------------------------------------------------------------------
(***************************************************************************)
(* What the actions do, in the terms that the proofs need.                 *)
(***************************************************************************)
USE DEF indexVars, tipVars, diskVars, lockVars, threadVars, heldVars

(* While cs_main is free nothing is being written, and the coins are those of *)
(* the tip.                                                                *)
LEMMA FreeMeansAtRest ==
  ASSUME State, Unlocked
  PROVE  writing = "none" /\ coinsTip = tip /\ \A t \in Threads : ~Held(t)
BY DEF State, ThreadsInv, TipsInv, Held, Unlocked

(* Only a block other than the genesis block is ever disconnected. *)
LEMMA DisconnectsABlock ==
  ASSUME State, NEW t \in Threads,
         ReorgDisconnect(t) \/ InvalidateTip(t) \/ ReprocessDisconnect(t)
  PROVE  /\ writing = "none" /\ coinsTip = tip /\ Held(t)
         /\ tip \in Block \ {Genesis} /\ Parent[tip] \in Block
         /\ coinsTip' = Parent[tip] /\ tip' = tip /\ diskTip' = diskTip
         /\ writing' = "disconnect" /\ dirty' = {}
<1>1. writing = "none" /\ coinsTip = tip /\ tip \in Block /\ Held(t)
  BY DEF State, TipsInv, TypeOK, ReorgDisconnect, InvalidateTip, ReprocessDisconnect, Held
<1>2. tip # Genesis
  <2>1. CASE ReorgDisconnect(t)
    <3>1. mostWork[t] \in Block /\ tip \notin Chain[mostWork[t]]
      BY <2>1 DEF State, ThreadsInv, TypeOK, ReorgDisconnect
    <3> QED BY <3>1, GenesisInChain
  <2>2. CASE InvalidateTip(t)
    <3>1. target \in Block \ {Genesis} /\ target \in Chain[tip]
      BY <2>2 DEF State, ThreadsInv, InvalidateTip, Active
    <3> QED BY <3>1, ChainOfGenesis
  <2>3. CASE ReprocessDisconnect(t)
    <3>1. left <= Height[coinsTip] /\ left > 0 /\ left \in Nat
      BY <2>3 DEF State, ThreadsInv, TypeOK, ReprocessDisconnect
    <3>2. Height[Genesis] = 0
      <4>1. Cardinality(Chain[Genesis]) = 1
        BY ChainOfGenesis, FS_Singleton
      <4> QED BY <4>1, TreeAssumption, HeightType
    <3> QED BY <1>1, <3>1, <3>2
  <2> QED BY <2>1, <2>2, <2>3
<1>3. Parent[tip] \in Block
  BY <1>1, <1>2, TreeAssumption
<1>4. coinsTip' = Parent[tip] /\ tip' = tip /\ diskTip' = diskTip /\ writing' = "disconnect" /\ dirty' = {}
  BY DEF ReorgDisconnect, InvalidateTip, ReprocessDisconnect, DisconnectTip, WriteIndex
<1> QED BY <1>1, <1>2, <1>3, <1>4

(* The block to connect stands on the tip, and all its data is there. *)
LEMMA ConnectsTheNext ==
  ASSUME State, NEW t \in Threads, AtConnect(t)
  PROVE  /\ NextBlock(t) \in Block \ {Genesis}
         /\ NextBlock(t) \in Chain[mostWork[t]]
         /\ NextBlock(t) \in chainTx
         /\ Parent[NextBlock(t)] = tip
         /\ Chain[NextBlock(t)] = Chain[tip] \cup {NextBlock(t)}
         /\ NextBlock(t) \notin Chain[tip]
         /\ writing = "none" /\ coinsTip = tip /\ Held(t)
         /\ mostWork[t] \in Block /\ oldTip \in Block
<1>1. /\ mostWork[t] \in chainTx /\ mostWork[t] \in Block /\ oldTip \in Block
      /\ tip \in Chain[mostWork[t]] /\ tip # mostWork[t]
      /\ writing = "none" /\ coinsTip = tip /\ Held(t)
  BY DEF State, ThreadsInv, TypeOK, TipsInv, AtConnect, Held
<1>2. NextBlock(t) \in Chain[mostWork[t]] \ {Genesis} /\ Parent[NextBlock(t)] = tip
  BY <1>1, ChainNext DEF NextBlock
<1>3. NextBlock(t) \in Block /\ Chain[NextBlock(t)] \subseteq Chain[mostWork[t]]
  BY <1>1, <1>2, ChainContains, ChainTransitive
<1>4. NextBlock(t) \in chainTx
  BY <1>1, <1>3 DEF State, LinksInv, NothingMissing
<1>5. Chain[NextBlock(t)] = Chain[tip] \cup {NextBlock(t)} /\ NextBlock(t) \notin Chain[tip]
  BY <1>2, <1>3, ChainStep
<1> QED BY <1>1, <1>2, <1>3, <1>4, <1>5

(* FindMostWorkChain: a candidate has all its data, so that what stands in  *)
(* the way of one has failed; what is marked then descends from such a block, *)
(* none of which is in the active chain; and the chain it chooses is free  *)
(* of failures.                                                            *)
LEMMA ActivateMarks ==
  ASSUME State, NEW t \in Threads, Activate(t)
  PROVE  /\ candidates' \subseteq candidates
         /\ unlinked' = unlinked
         /\ \E M \in SUBSET Block :
              /\ nStatus' = Marked(M, "failed_child")
              /\ \A y \in M : Known(y) /\ \E x \in Chain[y] \ Chain[tip] : Failed(x)
         /\ \/ /\ pc' = [pc EXCEPT ![t] = "idle"]
               /\ pblock' = [pblock EXCEPT ![t] = none]
               /\ UNCHANGED <<mostWork, oldTip>>
            \/ /\ pc' = [pc EXCEPT ![t] = "reorg"]
               /\ oldTip' = tip
               /\ UNCHANGED pblock
               /\ \E best \in candidates :
                    /\ mostWork' = [mostWork EXCEPT ![t] = best]
                    /\ \A x \in Chain[best] \ Chain[tip] : ~Failed(x)
<1> DEFINE usable   == {c \in candidates : \A x \in Branch(c) : ~Unusable(x)}
           dropped  == {c \in candidates \ usable : \A u \in usable : Better(c, u)}
           bad(c)   == {x \in Branch(c) : Unusable(x)}
           culprit(c) == Highest(bad(c))
           above(c) == {x \in Chain[c] : Height[x] > Height[culprit(c)]}
           failing  == {c \in dropped : Failed(culprit(c))}
           best     == CHOOSE c \in usable : \A u \in usable \ {c} : Better(c, u)
           M        == UNION {above(c) : c \in failing}
<1>1. /\ candidates' = candidates \ UNION {above(c) \cup {culprit(c)} : c \in dropped}
      /\ nStatus' = Marked(M, "failed_child")
      /\ unlinked' = unlinked \cup UNION {above(c) : c \in dropped \ failing}
      /\ IF usable = {} \/ best = tip
         THEN /\ Goto(t, "idle")
              /\ pblock' = [pblock EXCEPT ![t] = none]
              /\ UNCHANGED <<mostWork, oldTip>>
         ELSE /\ Goto(t, "reorg")
              /\ mostWork' = [mostWork EXCEPT ![t] = best]
              /\ oldTip' = tip
              /\ UNCHANGED pblock
  BY DEF Activate
<1>2. candidates \subseteq Block /\ nSequenceId \in [Block -> Nat]
  BY DEF State, TypeOK
<1>3. ASSUME NEW c \in dropped
      PROVE  culprit(c) \in Branch(c) /\ Failed(culprit(c))
  <2>1. bad(c) \in SUBSET Chain[c] /\ bad(c) # {} /\ c \in Block
    BY <1>2 DEF Branch
  <2>2. Highest(bad(c)) \in bad(c)
    <3> HIDE DEF bad
    <3> QED BY <2>1, HighestIsOne
  <2>3. c \in chainTx
    BY DEF State, CandInv
  <2>4. \A x \in Chain[c] : HasData(x)
    BY <2>3 DEF State, LinksInv, NothingMissing
  <2> QED BY <2>2, <2>4 DEF Branch, Unusable
<1>4. dropped \ failing = {}
  <2> HIDE DEF dropped, culprit
  <2> QED BY <1>3
<1>5. unlinked' = unlinked /\ candidates' \subseteq candidates
  <2> HIDE DEF dropped, failing, above, culprit
  <2> QED BY <1>1, <1>4
<1>6. M \in SUBSET Block
  BY <1>2, ChainContains
<1>7. ASSUME NEW y \in M PROVE Known(y) /\ \E x \in Chain[y] \ Chain[tip] : Failed(x)
  <2>1. PICK c \in dropped : y \in Chain[c] /\ Height[y] > Height[culprit(c)]
    OBVIOUS
  <2>2. culprit(c) \in Branch(c) /\ Failed(culprit(c)) /\ c \in Block
    <3> HIDE DEF culprit
    <3> QED BY <1>2, <1>3
  <2> HIDE DEF culprit
  <2>3. culprit(c) \in Chain[c] /\ culprit(c) \notin Chain[tip]
    BY <2>2 DEF Branch, Active
  <2>4. Height[culprit(c)] \in Nat /\ Height[y] \in Nat
    BY <2>1, <2>2, <2>3, ChainContains, HeightType
  <2>5. culprit(c) \in Chain[y]
    BY <2>1, <2>2, <2>3, <2>4, ChainBelow
  <2>6. c \in chainTx
    BY DEF State, CandInv
  <2>7. Known(y)
    BY <2>1, <2>6 DEF State, LinksInv, NothingMissing, HasData, Known
  <2> QED BY <2>2, <2>3, <2>5, <2>7
<1>8. ASSUME usable # {} PROVE best \in usable
  <2>1. \E c \in usable : \A u \in usable \ {c} : SortsBefore(u, c, nSequenceId)
    <3>1. usable \in SUBSET Block
      BY <1>2
    <3> HIDE DEF usable
    <3> QED BY <1>2, <1>8, <3>1, BestExists
  <2> HIDE DEF usable
  <2> QED BY <2>1 DEF Better
<1>9. ASSUME usable # {} PROVE best \in candidates /\ \A x \in Chain[best] \ Chain[tip] : ~Failed(x)
  <2> HIDE DEF best
  <2> QED BY <1>8, <1>9 DEF Branch, Active, Unusable
<1> HIDE DEF M, usable, best
<1> QED BY <1>1, <1>5, <1>6, <1>7, <1>9 DEF Goto

(* ReceivedBlockTransactions: the blocks that the new block links get their  *)
(* nChainTx and a sequence id, and were not linked before.                 *)
LEMMA ReceivedLinks ==
  ASSUME State, NEW b \in Block \ {Genesis}, ~HasData(b), ReceivedBlockTransactions(b)
  PROVE  \E L \in SUBSET Block :
           /\ L \cap chainTx = {}
           /\ chainTx' = chainTx \cup L
           /\ candidates' = candidates \cup NotWorse(L, nSequenceId')
           /\ nSequenceId' \in [Block -> Nat] /\ nBlockSequenceId' \in Nat
           /\ \A x \in Block \ L : nSequenceId'[x] = nSequenceId[x]
           /\ LinksInv'
<1>1. /\ nStatus \in [Block -> SUBSET Flags]
      /\ nStatus' = [nStatus EXCEPT ![b] = @ \cup {"tree", "data"}]
      /\ nSequenceId \in [Block -> Nat] /\ nBlockSequenceId \in Nat
      /\ unlinked \subseteq Block
  BY DEF State, TypeOK, ReceivedBlockTransactions
<1>2. \A x \in Block : (HasData(x))' <=> HasData(x) \/ x = b
  BY <1>1 DEF HasData
<1>3. /\ Parent[b] \in Block /\ Chain[b] = Chain[Parent[b]] \cup {b}
      /\ b \notin Chain[Parent[b]] /\ b \in Chain[b]
  BY ChainStep
<1>4. LinksInv
  BY DEF State
<1>5. \A x \in Block : x \in chainTx => b \notin Chain[x]
  BY <1>4 DEF LinksInv, NothingMissing
<1>6. CASE Parent[b] \in chainTx
  <2> DEFINE L == LinkedBy(b)
  <2>1. PICK ids \in Numberings(L) :
          /\ chainTx' = chainTx \cup L
          /\ nSequenceId' = [x \in Block |-> IF x \in L THEN ids[x] ELSE nSequenceId[x]]
          /\ nBlockSequenceId' = nBlockSequenceId + Cardinality(L)
          /\ candidates' = candidates \cup NotWorse(L, nSequenceId')
          /\ unlinked' = unlinked \ L
    BY <1>6 DEF ReceivedBlockTransactions
  <2>2. L \in SUBSET Block
    BY <1>1 DEF LinkedBy
  <2>3. Cardinality(L) \in Nat
    BY <2>2, TreeAssumption, FS_Subset, FS_CardinalityType
  <2>4. \A x \in L : ids[x] \in Nat
    <3>1. ids \in [L -> nBlockSequenceId .. nBlockSequenceId + Cardinality(L) - 1]
      BY DEF Numberings
    <3> HIDE DEF L
    <3> QED BY <1>1, <2>3, <3>1
  <2>5. nSequenceId' \in [Block -> Nat] /\ nBlockSequenceId' \in Nat
    <3> HIDE DEF L
    <3> QED BY <1>1, <2>1, <2>3, <2>4
  <2>6. L \cap chainTx = {}
    BY <1>4, <1>5 DEF LinkedBy, LinksInv
  <2>7. ASSUME NEW x \in Block
        PROVE  NothingMissing(x)' <=> x \in chainTx \cup L
    <3>1. CASE b \notin Chain[x]
      <4>1. NothingMissing(x)' <=> NothingMissing(x)
        BY <1>2, <3>1, ChainContains DEF NothingMissing
      <4>2. x \notin L
        BY <3>1 DEF LinkedBy
      <4> QED BY <1>4, <4>1, <4>2 DEF LinksInv
    <3>2. CASE b \in Chain[x]
      <4>1. x \notin chainTx
        BY <1>5, <3>2
      <4>2. ASSUME x \in L PROVE NothingMissing(x)'
        <5>1. \A y \in Chain[x] : y \in Chain[Parent[b]] \/ y = b \/ y \in unlinked
          BY <1>3, <4>2 DEF LinkedBy
        <5>2. \A y \in Chain[x] : y \in Block
          BY ChainContains
        <5>3. \A y \in Chain[Parent[b]] : HasData(y)
          BY <1>4, <1>6 DEF LinksInv, NothingMissing
        <5>4. \A y \in unlinked : HasData(y)
          BY <1>4 DEF LinksInv
        <5> QED BY <1>2, <5>1, <5>2, <5>3, <5>4 DEF NothingMissing
      <4>3. ASSUME NothingMissing(x)' PROVE x \in L
        <5>1. ASSUME NEW y \in Chain[x], y \notin Chain[b] PROVE y \in unlinked
          <6>1. y \in Block /\ b \in Chain[y]
            BY <3>2, <5>1, ChainContains, ChainLinear
          <6>2. HasData(y)
            BY <1>2, <1>3, <4>3, <5>1, <6>1 DEF NothingMissing
          <6> QED BY <1>4, <1>5, <6>1, <6>2 DEF LinksInv
        <5>2. x \in unlinked \/ x = b
          <6>1. x \in Chain[b] => x = b
            <7> SUFFICES ASSUME x \in Chain[b], x # b PROVE FALSE
              OBVIOUS
            <7>1. Work[x] < Work[b] /\ Work[b] < Work[x]
              BY <3>2, ChainWork
            <7> QED BY <7>1, TreeAssumption
          <6> QED BY <5>1, <6>1, ChainContains
        <5> QED BY <3>2, <5>1, <5>2 DEF LinkedBy
      <4> QED BY <4>1, <4>2, <4>3
    <3> QED BY <3>1, <3>2
  <2>8. LinksInv'
    <3>1. chainTx' = {x \in Block : NothingMissing(x)'}
      <4>1. chainTx \subseteq Block
        BY <1>4 DEF LinksInv
      <4> QED BY <2>1, <2>2, <2>7, <4>1
    <3>2. unlinked' = {x \in Block : HasData(x)' /\ ~NothingMissing(x)'}
      <4>1. ASSUME NEW x \in Block PROVE x \in unlinked \ L <=> HasData(x)' /\ ~NothingMissing(x)'
        <5>1. b \in L
          BY <1>3 DEF LinkedBy
        <5> QED BY <1>2, <1>4, <2>7, <5>1 DEF LinksInv
      <4> QED BY <1>1, <2>1, <4>1
    <3>3. \A x \in Block \ chainTx' : nSequenceId'[x] = 0
      BY <1>4, <2>1 DEF LinksInv
    <3> QED BY <3>1, <3>2, <3>3 DEF LinksInv
  <2>9. \A x \in Block \ L : nSequenceId'[x] = nSequenceId[x]
    BY <2>1
  <2> QED BY <2>1, <2>2, <2>5, <2>6, <2>8, <2>9
<1>7. CASE Parent[b] \notin chainTx
  <2>1. UNCHANGED <<chainTx, nSequenceId, nBlockSequenceId, candidates>> /\ unlinked' = unlinked \cup {b}
    BY <1>7 DEF ReceivedBlockTransactions
  <2>2. ASSUME NEW x \in Block PROVE NothingMissing(x)' <=> NothingMissing(x)
    <3>1. CASE b \notin Chain[x]
      BY <1>2, <3>1, ChainContains DEF NothingMissing
    <3>2. CASE b \in Chain[x]
      <4>1. PICK y \in Chain[Parent[b]] : ~HasData(y)
        BY <1>3, <1>4, <1>7 DEF LinksInv, NothingMissing
      <4>2. y \in Chain[x] /\ y # b /\ y \in Block
        BY <1>3, <3>2, <4>1, ChainTransitive, ChainContains
      <4> QED BY <1>2, <4>1, <4>2 DEF NothingMissing
    <3> QED BY <3>1, <3>2
  <2>3. ~NothingMissing(b)'
    BY <1>3, <1>4, <1>7, <2>2 DEF NothingMissing, LinksInv
  <2>4. LinksInv'
    BY <1>2, <1>4, <2>1, <2>2, <2>3 DEF LinksInv
  <2>5. NotWorse({}, nSequenceId') = {}
    BY DEF NotWorse
  <2> QED BY <1>1, <2>1, <2>4, <2>5
<1> QED BY <1>6, <1>7

(* ReconsiderBlock only takes failure flags away. *)
LEMMA ReconsiderClears ==
  ASSUME State, NEW b \in Block, Reconsider(b)
  PROVE  /\ nStatus' \in [Block -> SUBSET Flags]
         /\ \A x \in Block : /\ nStatus'[x] \subseteq nStatus[x]
                            /\ nStatus[x] \cap Lasting \subseteq nStatus'[x]
         /\ \A x \in Block \ dirty' : nStatus'[x] = nStatus[x]
         /\ dirty \subseteq dirty' /\ dirty' \subseteq Block
         /\ \E S \in SUBSET chainTx : candidates' = candidates \cup OnlyBetter(S, nSequenceId)
         /\ UNCHANGED <<chainTx, nSequenceId, nBlockSequenceId, unlinked, tipVars, diskVars>>
<1> DEFINE below   == {x \in Block : Known(x) /\ ~IsValid(nStatus[x]) /\ b \in Chain[x]}
           cleared == below \cup {x \in Chain[b] : Failed(x)}
           S       == {x \in below : HasData(x) /\ x \in chainTx}
<1>1. /\ nStatus' = [x \in Block |-> IF x \in cleared THEN nStatus[x] \ FailedMask ELSE nStatus[x]]
      /\ dirty' = dirty \cup cleared
      /\ candidates' = candidates \cup OnlyBetter(S, nSequenceId)
      /\ UNCHANGED <<chainTx, nSequenceId, nBlockSequenceId, unlinked, tipVars, diskVars>>
  BY DEF Reconsider
<1>2. cleared \subseteq Block /\ S \in SUBSET chainTx
  BY ChainContains
<1>3. nStatus \in [Block -> SUBSET Flags] /\ dirty \subseteq Block
  BY DEF State, TypeOK
<1> HIDE DEF cleared, S
<1> QED BY <1>1, <1>2, <1>3 DEF FailedMask, Lasting

-----------------------------------------------------------------------------
(* The initial state satisfies the invariant. *)
LEMMA InitOK == Init => IInv
<1> SUFFICES ASSUME Init PROVE IInv
  OBVIOUS
<1> USE DEF Init, Fresh
<1>1. Genesis \in Block /\ Chain[Genesis] = {Genesis}
  BY TreeAssumption, ChainOfGenesis
<1>2. TypeOK
  BY <1>1 DEF TypeOK, Flags, PCs
<1>3. ThreadsInv
  BY DEF ThreadsInv, Held
<1>4. TipsInv
  BY <1>1 DEF TipsInv, Checked
<1>5. \A b \in Block : b # Genesis => ~HasData(b)
  BY DEF HasData
<1>6. HasData(Genesis)
  BY <1>1 DEF HasData
<1>7. \A b \in Block : NothingMissing(b) <=> b = Genesis
  BY <1>1, <1>5, <1>6, ChainContains DEF NothingMissing
<1>8. LinksInv
  BY <1>1, <1>5, <1>7 DEF LinksInv
<1>9. IndexInv
  BY <1>1 DEF IndexInv, Known, ParentClosed
<1>10. DiskInv
  BY <1>1 DEF DiskInv, DiskLoadable, Lasting, ParentClosed
<1>11. CandInv
  BY <1>1, TreeAssumption DEF CandInv, SortsBefore
<1>12. \A b \in Block : nStatus[b] \cap FailedMask = {} /\ diskStatus[b] = nStatus[b]
  BY DEF FailedMask
<1>13. FailuresInv
  BY <1>12 DEF FailuresInv, CallsInv, MarksInv, Explained, FailedMask
<1>14. ActiveInv
  BY <1>1, <1>12 DEF ActiveInv, ChainsClean, Failed
<1> QED BY <1>2, <1>3, <1>4, <1>8, <1>9, <1>10, <1>11, <1>13, <1>14 DEF IInv, State

(* Every step keeps the types. *)
LEMMA TypeStep ==
  ASSUME State, [Next]_vars
  PROVE  TypeOK'
<1> USE DEF TypeOK
<1>0. TypeOK
  BY DEF State
<1>1. ASSUME NEW b \in Block \ {Genesis}, AcceptHeader(b) PROVE TypeOK'
  BY <1>0, <1>1 DEF AcceptHeader, Marked, Flags
<1>2. ASSUME NEW t \in Threads, NEW b \in Block \ {Genesis}, CheckNewBlock(t, b) PROVE TypeOK'
  BY <1>0, <1>2 DEF CheckNewBlock, Goto, PCs
<1>3. ASSUME NEW t \in Threads, NEW b \in Block \ {Genesis}, InvalidateBlock(t, b) PROVE TypeOK'
  BY <1>0, <1>3 DEF InvalidateBlock, Goto, PCs, Marked, Flags, Use, Operations
<1>4. ASSUME NEW t \in Threads, NEW b \in Block \ {Genesis}, ReconsiderBlock(t, b) PROVE TypeOK'
  <2>1. candidates' \subseteq Block
    BY <1>0, <1>4, ReconsiderClears DEF ReconsiderBlock, OnlyBetter
  <2> QED BY <1>0, <1>4, <2>1, ReconsiderClears DEF ReconsiderBlock, Goto, PCs, Use, Operations
<1>5. ASSUME NEW t \in Threads, ReprocessBlocks(t) PROVE TypeOK'
  <2>1. rejected \subseteq Block
    BY <1>0, ChainAssumption
  <2> QED BY <1>0, <1>5, <2>1 DEF ReprocessBlocks, Goto, PCs, Use, Operations
<1>6. ASSUME NEW t \in Threads, AcceptBlock(t) PROVE TypeOK'
  <2>1. pblock[t] \in Block \ {Genesis}
    BY <1>6 DEF AcceptBlock, State, ThreadsInv
  <2>2. CASE UNCHANGED <<chainTx, nSequenceId, nBlockSequenceId, candidates, unlinked>>
    BY <1>0, <1>6, <2>1, <2>2 DEF AcceptBlock, Goto, PCs, Flags, ReceivedBlockTransactions
  <2>3. CASE ~HasData(pblock[t]) /\ ReceivedBlockTransactions(pblock[t])
    <3>1. /\ nSequenceId' \in [Block -> Nat] /\ nBlockSequenceId' \in Nat
          /\ chainTx' \subseteq Block /\ candidates' \subseteq Block /\ unlinked' \subseteq Block
      BY <1>0, <2>1, <2>3, ReceivedLinks DEF NotWorse, LinksInv
    <3>2. nStatus' \in [Block -> SUBSET Flags]
      BY <1>0, <2>3 DEF ReceivedBlockTransactions, Flags
    <3> QED BY <1>0, <1>6, <2>1, <3>1, <3>2 DEF AcceptBlock, Goto, PCs
  <2> QED BY <1>6, <2>2, <2>3 DEF AcceptBlock
<1>7. ASSUME NEW t \in Threads, Activate(t) PROVE TypeOK'
  <2>1. /\ candidates' \subseteq Block /\ unlinked' \subseteq Block
        /\ nStatus' \in [Block -> SUBSET Flags]
        /\ pc' \in [Threads -> PCs] /\ pblock' \in [Threads -> Block \cup {none}]
        /\ mostWork' \in [Threads -> Block \cup {none}] /\ oldTip' \in Block \cup {none}
    BY <1>0, <1>7, ActivateMarks DEF Marked, Flags, PCs
  <2>2. UNCHANGED <<chainTx, nSequenceId, nBlockSequenceId, dirty, tipVars, diskVars,
                    lockVars, pending, target, left, used>>
    BY <1>7 DEF Activate
  <2> QED BY <1>0, <2>1, <2>2
<1>8. ASSUME NEW t \in Threads, ReorgDisconnect(t) PROVE TypeOK'
  BY <1>0, <1>8, DisconnectsABlock DEF ReorgDisconnect, DisconnectTip, WriteIndex
<1>9. ASSUME NEW t \in Threads, ConnectTip(t) PROVE TypeOK'
  <2>1. NextBlock(t) \in Block
    BY <1>9, ConnectsTheNext DEF ConnectTip
  <2> QED BY <1>0, <1>9, <2>1 DEF ConnectTip, Connected, WriteIndex, DirtyAfterConnect, Marked, Flags,
                                Goto, PCs, Prune
<1>10. ASSUME NEW t \in Threads, ConnectFails(t) PROVE TypeOK'
  <2>1. NextBlock(t) \in Block
    BY <1>10, ConnectsTheNext DEF ConnectFails
  <2>2. rejected' \subseteq Contestable
    BY <1>0, <1>10 DEF ConnectFails, RejectedAfter
  <2> QED BY <1>0, <1>10, <2>1, <2>2 DEF ConnectFails, InvalidBlockFound, Marked, Flags, Goto, PCs
<1>11. ASSUME NEW t \in Threads, WriteCoins(t) PROVE TypeOK'
  BY <1>0, <1>11 DEF WriteCoins, Connected, Goto, PCs, Prune
<1>12. ASSUME NEW t \in Threads, Released(t) PROVE TypeOK'
  BY <1>0, <1>12 DEF Released, Repeat, Goto, PCs
<1>13. ASSUME NEW t \in Threads, Finish(t) PROVE TypeOK'
  BY <1>0, <1>13 DEF Finish, WriteIndex, Goto, PCs
<1>14. ASSUME NEW t \in Threads, InvalidateTip(t) PROVE TypeOK'
  <2>1. tip \in Block /\ Parent[tip] \in Block
    BY <1>14, DisconnectsABlock
  <2> QED BY <1>0, <1>14, <2>1 DEF InvalidateTip, DisconnectTip, WriteIndex, Marked, Flags
<1>15. ASSUME NEW t \in Threads, InvalidateEnd(t) PROVE TypeOK'
  BY <1>0, <1>15 DEF InvalidateEnd, ToRestore, NotWorse, Goto, PCs
<1>16. ASSUME NEW t \in Threads, ReprocessReconsider(t) PROVE TypeOK'
  <2>1. PICK b \in pending[t] : Reconsider(b) /\ pending' = [pending EXCEPT ![t] = @ \ {b}]
    BY <1>16 DEF ReprocessReconsider
  <2>2. b \in Block
    BY <1>0
  <2>3. candidates' \subseteq Block
    BY <1>0, <2>1, <2>2, ReconsiderClears DEF OnlyBetter
  <2> QED BY <1>0, <1>16, <2>1, <2>2, <2>3, ReconsiderClears DEF ReprocessReconsider
<1>17. ASSUME NEW t \in Threads, ReprocessStart(t) PROVE TypeOK'
  BY <1>0, <1>17, ChainAssumption, HeightType DEF ReprocessStart, Goto, PCs
<1>18. ASSUME NEW t \in Threads, ReprocessDisconnect(t) PROVE TypeOK'
  BY <1>0, <1>18, DisconnectsABlock DEF ReprocessDisconnect, DisconnectTip, WriteIndex
<1>19. ASSUME NEW t \in Threads, ReprocessEnd(t) PROVE TypeOK'
  BY <1>0, <1>19 DEF ReprocessEnd, Goto, PCs
<1>20. ASSUME NEW b \in Contestable, Contest(b) \/ Settle(b) PROVE TypeOK'
  BY <1>0, <1>20 DEF Contest, Settle, Use, Operations
<1>21. ASSUME NEW t \in Threads, CrashAndRestart(t) PROVE TypeOK'
  BY <1>0, <1>21 DEF CrashAndRestart, Use, Operations, PCs, Prune
<1>22. CASE UNCHANGED vars
  BY <1>0, <1>22 DEF vars
<1> QED BY <1>1, <1>2, <1>3, <1>4, <1>5, <1>6, <1>7, <1>8, <1>9, <1>10, <1>11, <1>12, <1>13, <1>14,
           <1>15, <1>16, <1>17, <1>18, <1>19, <1>20, <1>21, <1>22 DEF Next, ThreadStep

(* Every step keeps who holds cs_main. *)
LEMMA ThreadsStep ==
  ASSUME State, [Next]_vars
  PROVE  ThreadsInv'
<1> USE DEF ThreadsInv, Held, Unlocked
<1>0. ThreadsInv /\ TypeOK /\ TypeOK'
  BY TypeStep DEF State
<1>1. ASSUME NEW b \in Block \ {Genesis}, AcceptHeader(b) PROVE ThreadsInv'
  <2>1. \A x \in Block : Known(x) => Known(x)'
    BY <1>0, <1>1 DEF AcceptHeader, TypeOK, Known, Marked
  <2>2. UNCHANGED <<chainTx, tipVars, diskVars, threadVars, heldVars, used>>
    BY <1>1 DEF AcceptHeader
  <2> QED BY <1>0, <2>1, <2>2, TreeAssumption
<1>2. ASSUME NEW t \in Threads, NEW b \in Block \ {Genesis}, CheckNewBlock(t, b) PROVE ThreadsInv'
  <2>1. \A u \in Threads : u # t => pc'[u] = pc[u] /\ pblock'[u] = pblock[u]
    BY <1>0, <1>2 DEF CheckNewBlock, TypeOK, Goto
  <2>2. \/ pc'[t] = "idle"
        \/ pc'[t] = "accept" /\ pblock'[t] = b
    BY <1>0, <1>2 DEF CheckNewBlock, TypeOK, Goto
  <2>3. UNCHANGED <<nStatus, chainTx, tipVars, diskVars, mostWork, heldVars, used>>
    BY <1>2 DEF CheckNewBlock
  <2>4. Known(Parent[b]) /\ pc[t] = "idle"
    BY <1>2 DEF CheckNewBlock
  <2> QED BY <1>0, <2>1, <2>2, <2>3, <2>4 DEF Known
<1>3. ASSUME NEW t \in Threads, NEW b \in Block \ {Genesis}, InvalidateBlock(t, b) PROVE ThreadsInv'
  <2>1. \A x \in Block : Known(x) => Known(x)'
    BY <1>0, <1>3 DEF InvalidateBlock, TypeOK, Known, Marked
  <2>2. UNCHANGED <<chainTx, tipVars, diskVars, pblock, mostWork, oldTip, left>>
        /\ Unlocked /\ target' = b
    BY <1>3 DEF InvalidateBlock
  <2>3. pc' = [pc EXCEPT ![t] = "invalidate"]
    BY <1>3 DEF InvalidateBlock, Goto
  <2>4. used'["invalidate"] > 0
    BY <1>0, <1>3 DEF InvalidateBlock, TypeOK, Use, Operations
  <2>5. writing = "none"
    BY <1>0, <2>2
  <2> QED BY <1>0, <2>1, <2>2, <2>3, <2>4, <2>5, TreeAssumption DEF TypeOK
<1>4. ASSUME NEW t \in Threads, NEW b \in Block \ {Genesis}, ReconsiderBlock(t, b) PROVE ThreadsInv'
  <2>1. \A x \in Block : Known(x) => Known(x)'
    BY <1>4, ReconsiderClears DEF ReconsiderBlock, State, IndexInv, Known, Lasting
  <2>2. UNCHANGED <<chainTx, tipVars, diskVars, heldVars, pblock, mostWork>>
    BY <1>4, ReconsiderClears DEF ReconsiderBlock
  <2>3. pc' = [pc EXCEPT ![t] = "activate"] /\ Unlocked
    BY <1>4 DEF ReconsiderBlock, Goto
  <2> QED BY <1>0, <2>1, <2>2, <2>3, TreeAssumption DEF TypeOK
<1>5. ASSUME NEW t \in Threads, ReprocessBlocks(t) PROVE ThreadsInv'
  BY <1>0, <1>5 DEF ReprocessBlocks, TypeOK, Goto, Known, Use, Operations
<1>6. ASSUME NEW t \in Threads, AcceptBlock(t) PROVE ThreadsInv'
  <2>1. \A x \in Block : Known(x) => Known(x)'
    BY <1>0, <1>6 DEF AcceptBlock, ReceivedBlockTransactions, Known, TypeOK
  <2>2. \A u \in Threads : ~Held(u)
    BY <1>6 DEF AcceptBlock
  <2>3. \A u \in Threads : ~Held(u)' /\ (pc'[u] = "accept" => pc[u] = "accept" /\ pblock'[u] = pblock[u])
    BY <1>0, <2>2, <1>6 DEF AcceptBlock, Goto, TypeOK
  <2>4. writing' = writing
    BY <1>6 DEF AcceptBlock
  <2> QED BY <1>0, <2>1, <2>2, <2>3, <2>4, TreeAssumption
<1>7. ASSUME NEW t \in Threads, Activate(t) PROVE ThreadsInv'
  <2>1. \A x \in Block : Known(x) => Known(x)'
    BY <1>0, <1>7, ActivateMarks DEF Known, Marked, TypeOK
  <2>2. /\ \A u \in Threads : ~Held(u)
        /\ UNCHANGED <<chainTx, tipVars, diskVars, target, left, used>>
        /\ pc[t] = "activate"
    BY <1>7 DEF Activate
  <2>3. candidates \subseteq chainTx /\ tip \in Block /\ writing = "none"
    BY <1>0, <1>7 DEF State, CandInv, TypeOK, Activate
  <2>4. \A u \in Threads : Held(u)' => u = t /\ pc'[t] = "reorg"
    BY <1>0, <2>2, <1>7, ActivateMarks DEF TypeOK
  <2>5. \A u \in Threads : pc'[u] = "accept" => pc[u] = "accept" /\ pblock'[u] = pblock[u]
    BY <1>0, <2>2, <1>7, ActivateMarks DEF TypeOK
  <2>6. pc'[t] = "reorg" => mostWork'[t] \in chainTx /\ oldTip' \in Block
    BY <1>0, <2>2, <2>3, <1>7, ActivateMarks DEF TypeOK
  <2> QED BY <1>0, <2>1, <2>2, <2>3, <2>4, <2>5, <2>6, TreeAssumption
<1>8. ASSUME NEW t \in Threads, ReorgDisconnect(t) PROVE ThreadsInv'
  <2>1. pc[t] = "reorg" /\ UNCHANGED <<pc, pblock, mostWork, nStatus, chainTx, oldTip, target, left, used>>
    BY <1>8 DEF ReorgDisconnect
  <2> QED BY <1>0, <2>1, <1>8, DisconnectsABlock DEF Known
<1>9. ASSUME NEW t \in Threads, ConnectTip(t) PROVE ThreadsInv'
  <2> DEFINE b == NextBlock(t)
  <2>1. b \in Block /\ writing = "none" /\ pc[t] = "reorg"
    BY <1>9, ConnectsTheNext DEF ConnectTip, AtConnect
  <2>2. \A x \in Block : Known(x) => Known(x)'
    BY <1>0, <1>9 DEF ConnectTip, Marked, Known, TypeOK
  <2>3. UNCHANGED <<chainTx, mostWork, pblock, used, target, left>>
    BY <1>9 DEF ConnectTip
  <2>4. \A u \in Threads : u # t => pc'[u] = pc[u]
    BY <1>0, <1>9 DEF ConnectTip, Connected, Goto, TypeOK
  <2>5. \/ pc'[t] = "released" /\ writing' = "none"
        \/ pc'[t] = "reorg" /\ oldTip' = oldTip /\ writing' \in {"none", "connect"}
    BY <1>0, <2>1, <1>9 DEF ConnectTip, Connected, Goto, TypeOK, WriteIndex
  <2> QED BY <1>0, <2>1, <2>2, <2>3, <2>4, <2>5, TreeAssumption
<1>10. ASSUME NEW t \in Threads, ConnectFails(t) PROVE ThreadsInv'
  <2>1. NextBlock(t) \in Block /\ writing = "none" /\ pc[t] = "reorg"
    BY <1>10, ConnectsTheNext DEF ConnectFails, AtConnect
  <2>2. \A x \in Block : Known(x) => Known(x)'
    BY <1>0, <1>10 DEF ConnectFails, InvalidBlockFound, Marked, Known, TypeOK
  <2>3. UNCHANGED <<chainTx, mostWork, pblock, used, target, left, coinsTip, writing>>
    BY <1>10 DEF ConnectFails
  <2>4. pc' = [pc EXCEPT ![t] = "released"]
    BY <1>10 DEF ConnectFails, Goto
  <2> QED BY <1>0, <2>1, <2>2, <2>3, <2>4, TreeAssumption DEF TypeOK
<1>11. ASSUME NEW t \in Threads, WriteCoins(t) PROVE ThreadsInv'
  <2>1. /\ Held(t) /\ writing' = "none"
        /\ UNCHANGED <<nStatus, chainTx, target, left, used, coinsTip, mostWork>>
    BY <1>11 DEF WriteCoins
  <2>2. \A u \in Threads : u # t => pc'[u] = pc[u] /\ pblock'[u] = pblock[u]
    BY <1>0, <1>11 DEF WriteCoins, Connected, Goto, TypeOK
  <2>3. \/ pc'[t] \in {"released", "idle"}
        \/ pc'[t] = pc[t] /\ oldTip' = oldTip /\ pblock'[t] = pblock[t] /\ writing # "periodic"
    BY <1>0, <1>11 DEF WriteCoins, Connected, Goto, TypeOK
  <2>4. \A u \in Threads : Held(u)' => Held(u)
    BY <2>1, <2>2, <2>3
  <2>5. ASSUME NEW u \in Threads, u # t PROVE ~Held(u)'
    BY <1>0, <2>1, <2>4, <2>5
  <2> QED BY <1>0, <2>1, <2>2, <2>3, <2>4, <2>5 DEF Known
<1>12. ASSUME NEW t \in Threads, Released(t) PROVE ThreadsInv'
  BY <1>0, <1>12 DEF Released, TypeOK, Goto, Repeat, Known
<1>13. ASSUME NEW t \in Threads, Finish(t) PROVE ThreadsInv'
  <2>1. /\ Unlocked
        /\ UNCHANGED <<nStatus, chainTx, target, left, used, oldTip, coinsTip, mostWork>>
    BY <1>13 DEF Finish
  <2>2. /\ \A u \in Threads : u # t => pc'[u] = pc[u] /\ pblock'[u] = pblock[u]
        /\ \/ pc'[t] = "idle" /\ writing' = writing
           \/ pc'[t] = "flush" /\ writing' = "periodic"
    BY <1>0, <1>13 DEF Finish, TypeOK, Goto, WriteIndex
  <2> QED BY <1>0, <2>1, <2>2 DEF Known
<1>14. ASSUME NEW t \in Threads, InvalidateTip(t) PROVE ThreadsInv'
  <2>1. /\ pc[t] = "invalidate"
        /\ UNCHANGED <<pc, pblock, mostWork, chainTx, oldTip, target, left, used>>
        /\ nStatus' = Marked({tip}, "failed_child")
    BY <1>14 DEF InvalidateTip
  <2>2. \A x \in Block : Known(x) => Known(x)'
    BY <1>0, <2>1 DEF Marked, Known, TypeOK
  <2> QED BY <1>0, <2>1, <2>2, <1>14, DisconnectsABlock, TreeAssumption
<1>15. ASSUME NEW t \in Threads, InvalidateEnd(t) PROVE ThreadsInv'
  BY <1>0, <1>15 DEF InvalidateEnd, TypeOK, Goto, Known
<1>16. ASSUME NEW t \in Threads, ReprocessReconsider(t) PROVE ThreadsInv'
  <2>1. PICK b \in pending[t] : Reconsider(b)
    BY <1>16 DEF ReprocessReconsider
  <2>2. b \in Block
    BY <1>0 DEF TypeOK
  <2>3. \A x \in Block : Known(x) => Known(x)'
    BY <2>1, <2>2, ReconsiderClears DEF State, IndexInv, Known, Lasting
  <2>4. UNCHANGED <<chainTx, tipVars, diskVars, heldVars, used, pc, pblock, mostWork>>
    BY <1>16, <2>1, <2>2, ReconsiderClears DEF ReprocessReconsider
  <2> QED BY <1>0, <2>3, <2>4, TreeAssumption
<1>17. ASSUME NEW t \in Threads, ReprocessStart(t) PROVE ThreadsInv'
  <2>1. coinsTip = tip /\ Height[tip] \in Nat /\ ReprocessDepth \in Nat
    BY <1>0, <1>17, FreeMeansAtRest, HeightType, ChainAssumption DEF ReprocessStart, TypeOK
  <2>2. left' <= Height[coinsTip']
    BY <2>1, <1>17 DEF ReprocessStart
  <2> QED BY <1>0, <2>2, <1>17 DEF ReprocessStart, TypeOK, Goto, Known
<1>18. ASSUME NEW t \in Threads, ReprocessDisconnect(t) PROVE ThreadsInv'
  <2>1. /\ pc[t] = "reprocess" /\ left' = left - 1 /\ left \in Nat
        /\ UNCHANGED <<pc, pblock, mostWork, nStatus, chainTx, oldTip, target, used>>
    BY <1>0, <1>18 DEF ReprocessDisconnect, TypeOK
  <2>2. left <= Height[tip] /\ Height[tip] = Height[Parent[tip]] + 1 /\ Height[Parent[tip]] \in Nat
    BY <1>0, <2>1, <1>18, DisconnectsABlock, HeightStep, HeightType
  <2>3. left' <= Height[coinsTip']
    BY <2>1, <2>2, <1>18, DisconnectsABlock
  <2> QED BY <1>0, <2>1, <2>3, <1>18, DisconnectsABlock DEF Known
<1>19. ASSUME NEW t \in Threads, ReprocessEnd(t) PROVE ThreadsInv'
  BY <1>0, <1>19 DEF ReprocessEnd, TypeOK, Goto, Known
<1>20. ASSUME NEW b \in Contestable, Contest(b) \/ Settle(b) PROVE ThreadsInv'
  BY <1>0, <1>20 DEF Contest, Settle, TypeOK, Known, Use, Operations
<1>21. ASSUME NEW t \in Threads, CrashAndRestart(t) PROVE ThreadsInv'
  BY <1>0, <1>21 DEF CrashAndRestart, TypeOK
<1>22. CASE UNCHANGED vars
  BY <1>0, <1>22 DEF vars, Known
<1> QED BY <1>1, <1>2, <1>3, <1>4, <1>5, <1>6, <1>7, <1>8, <1>9, <1>10,
           <1>11, <1>12, <1>13, <1>14, <1>15, <1>16, <1>17, <1>18, <1>19,
           <1>20, <1>21, <1>22 DEF Next, ThreadStep

(* A step that leaves the tips and the databases alone keeps TipsInv. *)
LEMMA TipsKept ==
  ASSUME State, UNCHANGED <<tipVars, diskVars>>, chainTx \subseteq chainTx',
         \A x \in Block : "scripts" \in nStatus[x] => "scripts" \in nStatus'[x]
  PROVE  TipsInv'
<1>1. \A b \in Block : Checked(b) => Checked(b)'
  BY ChainContains DEF Checked
<1> QED BY <1>1 DEF State, TypeOK, TipsInv

(* DisconnectTip leaves the coins one block behind the tip. *)
LEMMA DisconnectKeepsTips ==
  ASSUME State, NEW t \in Threads,
         ReorgDisconnect(t) \/ InvalidateTip(t) \/ ReprocessDisconnect(t),
         chainTx' = chainTx,
         \A x \in Block : "scripts" \in nStatus[x] => "scripts" \in nStatus'[x]
  PROVE  TipsInv'
<1>1. /\ tip \in Block \ {Genesis} /\ Parent[tip] \in Block /\ tip' = tip
      /\ coinsTip' = Parent[tip] /\ diskTip' = diskTip /\ writing' = "disconnect"
  BY DisconnectsABlock
<1>2. Chain[Parent[tip]] \subseteq Chain[tip] /\ Chain[tip] \subseteq Block
  BY <1>1, ChainStep, ChainContains
<1>3. Checked(tip)' /\ Checked(coinsTip)'
  BY <1>1, <1>2 DEF State, TipsInv, Checked
<1>4. tip \in chainTx /\ diskTip \in Chain[tip]
  BY DEF State, TipsInv
<1>5. Parent[tip] \in chainTx
  BY <1>1, <1>2, <1>4 DEF State, LinksInv, NothingMissing
<1> QED BY <1>1, <1>3, <1>4, <1>5 DEF TipsInv

(* Every step keeps where the tips are. *)
LEMMA TipsStep ==
  ASSUME State, [Next]_vars
  PROVE  TipsInv'
<1>0. TypeOK /\ TypeOK' /\ TipsInv /\ tip \in Block /\ coinsTip \in Block
  BY TypeStep DEF State, TypeOK
<1>1. ASSUME NEW b \in Block \ {Genesis}, AcceptHeader(b) PROVE TipsInv'
  <2>1. \A x \in Block : "scripts" \in nStatus[x] => "scripts" \in nStatus'[x]
    BY <1>0, <1>1 DEF AcceptHeader, Marked, TypeOK
  <2>2. UNCHANGED <<tipVars, diskVars, chainTx>>
    BY <1>1 DEF AcceptHeader
  <2> QED BY <2>1, <2>2, TipsKept
<1>2. ASSUME NEW t \in Threads, NEW b \in Block \ {Genesis}, CheckNewBlock(t, b) PROVE TipsInv'
  BY <1>0, <1>2, TipsKept DEF CheckNewBlock
<1>3. ASSUME NEW t \in Threads, NEW b \in Block \ {Genesis}, InvalidateBlock(t, b) PROVE TipsInv'
  <2>1. \A x \in Block : "scripts" \in nStatus[x] => "scripts" \in nStatus'[x]
    BY <1>0, <1>3 DEF InvalidateBlock, Marked, TypeOK
  <2>2. UNCHANGED <<tipVars, diskVars, chainTx>>
    BY <1>3 DEF InvalidateBlock
  <2> QED BY <2>1, <2>2, TipsKept
<1>4. ASSUME NEW t \in Threads, NEW b \in Block \ {Genesis}, ReconsiderBlock(t, b) PROVE TipsInv'
  <2>1. UNCHANGED <<tipVars, diskVars, chainTx>>
        /\ \A x \in Block : "scripts" \in nStatus[x] => "scripts" \in nStatus'[x]
    BY <1>4, ReconsiderClears DEF ReconsiderBlock, Lasting
  <2> QED BY <2>1, TipsKept
<1>5. ASSUME NEW t \in Threads, ReprocessBlocks(t) PROVE TipsInv'
  BY <1>0, <1>5, TipsKept DEF ReprocessBlocks
<1>6. ASSUME NEW t \in Threads, AcceptBlock(t) PROVE TipsInv'
  <2>1. pblock[t] \in Block \ {Genesis}
    BY <1>6 DEF AcceptBlock, State, ThreadsInv
  <2>2. \A x \in Block : "scripts" \in nStatus[x] => "scripts" \in nStatus'[x]
    BY <1>0, <1>6 DEF AcceptBlock, ReceivedBlockTransactions, TypeOK
  <2>3. chainTx \subseteq chainTx'
    <3>1. CASE chainTx' = chainTx
      BY <3>1
    <3>2. CASE ~HasData(pblock[t]) /\ ReceivedBlockTransactions(pblock[t])
      BY <2>1, <3>2, ReceivedLinks
    <3> QED BY <3>1, <3>2, <1>6 DEF AcceptBlock
  <2>4. UNCHANGED <<tipVars, diskVars>>
    BY <1>6 DEF AcceptBlock
  <2> QED BY <2>2, <2>3, <2>4, TipsKept
<1>7. ASSUME NEW t \in Threads, Activate(t) PROVE TipsInv'
  <2>1. \A x \in Block : "scripts" \in nStatus[x] => "scripts" \in nStatus'[x]
    BY <1>0, <1>7, ActivateMarks DEF Marked, TypeOK
  <2>2. UNCHANGED <<tipVars, diskVars, chainTx>>
    BY <1>7 DEF Activate
  <2> QED BY <2>1, <2>2, TipsKept
<1>8. ASSUME NEW t \in Threads, ReorgDisconnect(t) PROVE TipsInv'
  <2>1. chainTx' = chainTx
        /\ \A x \in Block : "scripts" \in nStatus[x] => "scripts" \in nStatus'[x]
    BY <1>0, <1>8 DEF ReorgDisconnect, Marked, TypeOK
  <2> QED BY <1>0, <2>1, <1>8, DisconnectKeepsTips
<1>9. ASSUME NEW t \in Threads, ConnectTip(t) PROVE TipsInv'
  <2> DEFINE b == NextBlock(t)
  <2>1. /\ b \in Block \ {Genesis} /\ b \in chainTx /\ Parent[b] = tip
        /\ Chain[b] = Chain[tip] \cup {b} /\ writing = "none"
    BY <1>9, ConnectsTheNext DEF ConnectTip
  <2>2. nStatus' = Marked({b}, "scripts") /\ chainTx' = chainTx /\ coinsTip' = b
    BY <1>9 DEF ConnectTip
  <2>3. \/ tip' = b /\ writing' = "none" /\ diskTip' = diskTip
        \/ tip' = tip /\ writing' = "connect" /\ diskTip' = diskTip
    BY <2>1, <1>9 DEF ConnectTip, Connected, WriteIndex
  <2> HIDE DEF b
  <2>4. \A x \in Block : ("scripts" \in nStatus[x] \/ x = b) => "scripts" \in nStatus'[x]
    BY <1>0, <2>1, <2>2 DEF Marked, TypeOK
  <2>5. Checked(tip)'
    BY <1>0, <2>1, <2>3, <2>4, ChainContains DEF Checked, TipsInv
  <2>6. Checked(coinsTip)'
    BY <1>0, <2>1, <2>2, <2>4, ChainContains DEF Checked, TipsInv
  <2> QED BY <1>0, <2>1, <2>2, <2>3, <2>5, <2>6 DEF TipsInv
<1>10. ASSUME NEW t \in Threads, ConnectFails(t) PROVE TipsInv'
  <2>1. \A x \in Block : "scripts" \in nStatus[x] => "scripts" \in nStatus'[x]
    BY <1>0, <1>10 DEF ConnectFails, InvalidBlockFound, Marked, TypeOK
  <2>2. UNCHANGED <<tipVars, diskVars, chainTx>>
    BY <1>10 DEF ConnectFails
  <2> QED BY <2>1, <2>2, TipsKept
<1>11. ASSUME NEW t \in Threads, WriteCoins(t) PROVE TipsInv'
  <2>1. /\ UNCHANGED <<nStatus, chainTx, coinsTip>> /\ diskTip' = coinsTip
        /\ tip' = coinsTip /\ writing' = "none"
    BY <1>0, <1>11 DEF WriteCoins, Connected, TipsInv
  <2>2. Checked(coinsTip)' /\ Checked(tip)' /\ coinsTip \in Chain[coinsTip]
    BY <1>0, <2>1, ChainContains DEF TipsInv, Checked
  <2> QED BY <1>0, <2>1, <2>2 DEF TipsInv
<1>12. ASSUME NEW t \in Threads, Released(t) PROVE TipsInv'
  BY <1>0, <1>12, TipsKept DEF Released
<1>13. ASSUME NEW t \in Threads, Finish(t) PROVE TipsInv'
  <2>1. UNCHANGED <<nStatus, chainTx, tipVars, diskTip>> /\ writing' \in {"none", "periodic"}
        /\ coinsTip = tip
    BY <1>13, FreeMeansAtRest DEF Finish, WriteIndex
  <2>2. Checked(coinsTip)' /\ Checked(tip)'
    BY <1>0, <2>1 DEF TipsInv, Checked
  <2> QED BY <1>0, <2>1, <2>2 DEF TipsInv
<1>14. ASSUME NEW t \in Threads, InvalidateTip(t) PROVE TipsInv'
  <2>1. chainTx' = chainTx
        /\ \A x \in Block : "scripts" \in nStatus[x] => "scripts" \in nStatus'[x]
    BY <1>0, <1>14 DEF InvalidateTip, Marked, TypeOK
  <2> QED BY <1>0, <2>1, <1>14, DisconnectKeepsTips
<1>15. ASSUME NEW t \in Threads, InvalidateEnd(t) PROVE TipsInv'
  BY <1>0, <1>15, TipsKept DEF InvalidateEnd
<1>16. ASSUME NEW t \in Threads, ReprocessReconsider(t) PROVE TipsInv'
  <2>1. PICK b \in pending[t] : Reconsider(b)
    BY <1>16 DEF ReprocessReconsider
  <2>2. b \in Block
    BY <1>0 DEF TypeOK
  <2>3. UNCHANGED <<tipVars, diskVars, chainTx>>
        /\ \A x \in Block : "scripts" \in nStatus[x] => "scripts" \in nStatus'[x]
    BY <2>1, <2>2, ReconsiderClears DEF Lasting
  <2> QED BY <2>3, TipsKept
<1>17. ASSUME NEW t \in Threads, ReprocessStart(t) PROVE TipsInv'
  BY <1>0, <1>17, TipsKept DEF ReprocessStart
<1>18. ASSUME NEW t \in Threads, ReprocessDisconnect(t) PROVE TipsInv'
  <2>1. chainTx' = chainTx
        /\ \A x \in Block : "scripts" \in nStatus[x] => "scripts" \in nStatus'[x]
    BY <1>0, <1>18 DEF ReprocessDisconnect, Marked, TypeOK
  <2> QED BY <1>0, <2>1, <1>18, DisconnectKeepsTips
<1>19. ASSUME NEW t \in Threads, ReprocessEnd(t) PROVE TipsInv'
  BY <1>0, <1>19, TipsKept DEF ReprocessEnd
<1>20. ASSUME NEW b \in Contestable, Contest(b) \/ Settle(b) PROVE TipsInv'
  BY <1>20, TipsKept DEF Contest, Settle
<1>21. ASSUME NEW t \in Threads, CrashAndRestart(t) PROVE TipsInv'
  <2>1. /\ nStatus' = diskStatus /\ tip' = diskTip /\ coinsTip' = diskTip /\ diskTip' = diskTip
        /\ writing' = "none"
        /\ chainTx' = {b \in Block : \A x \in Chain[b] : "data" \in diskStatus[x]}
    BY <1>21 DEF CrashAndRestart
  <2>2. DiskLoadable /\ diskTip \in Block
    BY <1>0 DEF State, DiskInv, TypeOK
  <2>3. Checked(diskTip)' /\ diskTip \in Chain[diskTip]
    BY <2>1, <2>2, ChainContains DEF Checked, DiskLoadable
  <2>4. Checked(tip)' /\ Checked(coinsTip)' /\ {tip, coinsTip}' \subseteq chainTx'
    BY <2>1, <2>2, <2>3 DEF Checked, DiskLoadable
  <2> QED BY <2>1, <2>3, <2>4 DEF TipsInv
<1>22. CASE UNCHANGED vars
  BY <1>22, TipsKept DEF vars
<1> QED BY <1>1, <1>2, <1>3, <1>4, <1>5, <1>6, <1>7, <1>8, <1>9, <1>10,
           <1>11, <1>12, <1>13, <1>14, <1>15, <1>16, <1>17, <1>18, <1>19,
           <1>20, <1>21, <1>22 DEF Next, ThreadStep

(* So does one that leaves the links and the data alone for LinksInv. *)
LEMMA LinksKept ==
  ASSUME State, UNCHANGED <<chainTx, unlinked, nSequenceId>>,
         \A x \in Block : "data" \in nStatus[x] <=> "data" \in nStatus'[x]
  PROVE  LinksInv'
<1>1. \A x \in Block : HasData(x)' <=> HasData(x)
  BY DEF HasData
<1>2. \A x \in Block : NothingMissing(x)' <=> NothingMissing(x)
  BY <1>1, ChainContains DEF NothingMissing
<1> QED BY <1>1, <1>2 DEF State, LinksInv

(* Every step keeps nChainTx and mapBlocksUnlinked exact. *)
LEMMA LinksStep ==
  ASSUME State, [Next]_vars
  PROVE  LinksInv'
<1>0. TypeOK
  BY DEF State
<1>1. ASSUME NEW b \in Block \ {Genesis}, AcceptHeader(b) PROVE LinksInv'
  <2>1. \A x \in Block : "data" \in nStatus[x] <=> "data" \in nStatus'[x]
    BY <1>0, <1>1 DEF AcceptHeader, Marked, TypeOK
  <2>2. UNCHANGED <<chainTx, unlinked, nSequenceId>>
    BY <1>1 DEF AcceptHeader
  <2> QED BY <2>1, <2>2, LinksKept
<1>2. ASSUME NEW t \in Threads, NEW b \in Block \ {Genesis}, CheckNewBlock(t, b) PROVE LinksInv'
  BY <1>2, LinksKept DEF CheckNewBlock
<1>3. ASSUME NEW t \in Threads, NEW b \in Block \ {Genesis}, InvalidateBlock(t, b) PROVE LinksInv'
  <2>1. \A x \in Block : "data" \in nStatus[x] <=> "data" \in nStatus'[x]
    BY <1>0, <1>3 DEF InvalidateBlock, Marked, TypeOK
  <2>2. UNCHANGED <<chainTx, unlinked, nSequenceId>>
    BY <1>3 DEF InvalidateBlock
  <2> QED BY <2>1, <2>2, LinksKept
<1>4. ASSUME NEW t \in Threads, NEW b \in Block \ {Genesis}, ReconsiderBlock(t, b) PROVE LinksInv'
  <2>1. UNCHANGED <<chainTx, unlinked, nSequenceId>>
        /\ \A x \in Block : "data" \in nStatus[x] <=> "data" \in nStatus'[x]
    BY <1>4, ReconsiderClears DEF ReconsiderBlock, Lasting
  <2> QED BY <2>1, LinksKept
<1>5. ASSUME NEW t \in Threads, ReprocessBlocks(t) PROVE LinksInv'
  BY <1>5, LinksKept DEF ReprocessBlocks
<1>6. ASSUME NEW t \in Threads, AcceptBlock(t) PROVE LinksInv'
  <2>1. pblock[t] \in Block \ {Genesis}
    BY <1>6 DEF AcceptBlock, State, ThreadsInv
  <2>2. CASE UNCHANGED indexVars
    BY <2>2, LinksKept
  <2>3. CASE nStatus' = [nStatus EXCEPT ![pblock[t]] = @ \cup {"tree", "failed_valid"}]
             /\ UNCHANGED <<chainTx, unlinked, nSequenceId>>
    <3>1. \A x \in Block : "data" \in nStatus[x] <=> "data" \in nStatus'[x]
      BY <1>0, <2>1, <2>3 DEF TypeOK
    <3> QED BY <2>3, <3>1, LinksKept
  <2>4. CASE ~HasData(pblock[t]) /\ ReceivedBlockTransactions(pblock[t])
    BY <2>1, <2>4, ReceivedLinks
  <2> QED BY <2>2, <2>3, <2>4, <1>6 DEF AcceptBlock
<1>7. ASSUME NEW t \in Threads, Activate(t) PROVE LinksInv'
  <2>1. \A x \in Block : "data" \in nStatus[x] <=> "data" \in nStatus'[x]
    BY <1>0, <1>7, ActivateMarks DEF Marked, TypeOK
  <2>2. UNCHANGED <<chainTx, unlinked, nSequenceId>>
    BY <1>7, ActivateMarks DEF Activate
  <2> QED BY <2>1, <2>2, LinksKept
<1>8. ASSUME NEW t \in Threads, ReorgDisconnect(t) PROVE LinksInv'
  BY <1>8, LinksKept DEF ReorgDisconnect
<1>9. ASSUME NEW t \in Threads, ConnectTip(t) PROVE LinksInv'
  <2>1. \A x \in Block : "data" \in nStatus[x] <=> "data" \in nStatus'[x]
    BY <1>0, <1>9 DEF ConnectTip, Marked, TypeOK
  <2>2. UNCHANGED <<chainTx, unlinked, nSequenceId>>
    BY <1>9 DEF ConnectTip
  <2> QED BY <2>1, <2>2, LinksKept
<1>10. ASSUME NEW t \in Threads, ConnectFails(t) PROVE LinksInv'
  <2>1. \A x \in Block : "data" \in nStatus[x] <=> "data" \in nStatus'[x]
    BY <1>0, <1>10 DEF ConnectFails, Marked, TypeOK, InvalidBlockFound
  <2>2. UNCHANGED <<chainTx, unlinked, nSequenceId>>
    BY <1>10 DEF ConnectFails
  <2> QED BY <2>1, <2>2, LinksKept
<1>11. ASSUME NEW t \in Threads, WriteCoins(t) PROVE LinksInv'
  BY <1>11, LinksKept DEF WriteCoins
<1>12. ASSUME NEW t \in Threads, Released(t) PROVE LinksInv'
  BY <1>12, LinksKept DEF Released
<1>13. ASSUME NEW t \in Threads, Finish(t) PROVE LinksInv'
  BY <1>13, LinksKept DEF Finish
<1>14. ASSUME NEW t \in Threads, InvalidateTip(t) PROVE LinksInv'
  <2>1. \A x \in Block : "data" \in nStatus[x] <=> "data" \in nStatus'[x]
    BY <1>0, <1>14 DEF InvalidateTip, Marked, TypeOK
  <2>2. UNCHANGED <<chainTx, unlinked, nSequenceId>>
    BY <1>14 DEF InvalidateTip
  <2> QED BY <2>1, <2>2, LinksKept
<1>15. ASSUME NEW t \in Threads, InvalidateEnd(t) PROVE LinksInv'
  BY <1>15, LinksKept DEF InvalidateEnd
<1>16. ASSUME NEW t \in Threads, ReprocessReconsider(t) PROVE LinksInv'
  <2>1. PICK b \in pending[t] : Reconsider(b)
    BY <1>16 DEF ReprocessReconsider
  <2>2. b \in Block
    BY <1>0 DEF TypeOK
  <2>3. UNCHANGED <<chainTx, unlinked, nSequenceId>>
        /\ \A x \in Block : "data" \in nStatus[x] <=> "data" \in nStatus'[x]
    BY <2>1, <2>2, ReconsiderClears DEF Lasting
  <2> QED BY <2>3, LinksKept
<1>17. ASSUME NEW t \in Threads, ReprocessStart(t) PROVE LinksInv'
  BY <1>17, LinksKept DEF ReprocessStart
<1>18. ASSUME NEW t \in Threads, ReprocessDisconnect(t) PROVE LinksInv'
  BY <1>18, LinksKept DEF ReprocessDisconnect
<1>19. ASSUME NEW t \in Threads, ReprocessEnd(t) PROVE LinksInv'
  BY <1>19, LinksKept DEF ReprocessEnd
<1>20. ASSUME NEW b \in Contestable, Contest(b) \/ Settle(b) PROVE LinksInv'
  BY <1>20, LinksKept DEF Contest, Settle
<1>21. ASSUME NEW t \in Threads, CrashAndRestart(t) PROVE LinksInv'
  <2> DEFINE linked == {b \in Block : \A x \in Chain[b] : "data" \in diskStatus[x]}
  <2>1. /\ nStatus' = diskStatus /\ chainTx' = linked
        /\ unlinked' = {b \in Block \ linked : "data" \in diskStatus[b]}
        /\ nSequenceId' = [b \in Block |-> 0]
    BY <1>21 DEF CrashAndRestart
  <2>2. \A x \in Block : (HasData(x)' <=> "data" \in diskStatus[x]) /\ (NothingMissing(x)' <=> x \in linked)
    BY <2>1 DEF HasData, NothingMissing
  <2> HIDE DEF linked
  <2>3. linked \subseteq Block
    BY DEF linked
  <2> QED BY <2>1, <2>2, <2>3 DEF LinksInv
<1>22. CASE UNCHANGED vars
  BY <1>22, LinksKept DEF vars
<1> QED BY <1>1, <1>2, <1>3, <1>4, <1>5, <1>6, <1>7, <1>8, <1>9, <1>10,
           <1>11, <1>12, <1>13, <1>14, <1>15, <1>16, <1>17, <1>18, <1>19,
           <1>20, <1>21, <1>22 DEF Next, ThreadStep

(* IndexInv depends on which entries there are, and on BLOCK_VALID_TREE.   *)
LEMMA IndexKept ==
  ASSUME State, \A x \in Block : nStatus[x] \cap Lasting \subseteq nStatus'[x],
         \A x \in Block : Known(x)' => Known(x)
  PROVE  IndexInv'
<1>1. \A x \in Block : Known(x)' <=> Known(x)
  BY DEF State, IndexInv, Known, Lasting
<1>2. \A x \in Block : "tree" \in nStatus[x] => "tree" \in nStatus'[x]
  BY DEF Lasting
<1> QED BY <1>1, <1>2, TreeAssumption DEF State, IndexInv, ParentClosed

(* A linked block is in the index. *)
LEMMA LinkedKnown ==
  ASSUME State, NEW b \in chainTx
  PROVE  b \in Block /\ Known(b) /\ HasData(b)
BY ChainContains DEF State, LinksInv, NothingMissing, HasData, Known

(* Every step keeps the parent of an entry in the index. *)
LEMMA IndexStep ==
  ASSUME State, [Next]_vars
  PROVE  IndexInv'
<1>0. TypeOK /\ IndexInv
  BY DEF State
<1>1. ASSUME NEW b \in Block \ {Genesis}, AcceptHeader(b) PROVE IndexInv'
  <2>1. Parent[b] \in Block /\ Known(Parent[b])
    BY <1>1, TreeAssumption DEF AcceptHeader
  <2>2. \A x \in Block : Known(x)' <=> Known(x) \/ x = b
    BY <1>0, <1>1 DEF AcceptHeader, Marked, Known, TypeOK
  <2>3. \A x \in Block : ("tree" \in nStatus[x] \/ x = b) => "tree" \in nStatus'[x]
    BY <1>0, <1>1 DEF AcceptHeader, Marked, TypeOK
  <2> QED BY <1>0, <2>1, <2>2, <2>3, TreeAssumption DEF IndexInv, ParentClosed
<1>2. ASSUME NEW t \in Threads, NEW b \in Block \ {Genesis}, CheckNewBlock(t, b) PROVE IndexInv'
  BY <1>2, IndexKept DEF CheckNewBlock, Known
<1>3. ASSUME NEW t \in Threads, NEW b \in Block \ {Genesis}, InvalidateBlock(t, b) PROVE IndexInv'
  <2>2. \A x \in Block : nStatus[x] \cap Lasting \subseteq nStatus'[x] /\ (Known(x)' => Known(x))
    BY <1>0, <1>3 DEF InvalidateBlock, Marked, TypeOK, Known
  <2> QED BY <2>2, IndexKept DEF Known
<1>4. ASSUME NEW t \in Threads, NEW b \in Block \ {Genesis}, ReconsiderBlock(t, b) PROVE IndexInv'
  <2>1. \A x \in Block : nStatus[x] \cap Lasting \subseteq nStatus'[x] /\ nStatus'[x] \subseteq nStatus[x]
    BY <1>4, ReconsiderClears DEF ReconsiderBlock
  <2> QED BY <2>1, IndexKept DEF Known
<1>5. ASSUME NEW t \in Threads, ReprocessBlocks(t) PROVE IndexInv'
  BY <1>5, IndexKept DEF ReprocessBlocks, Known
<1>6. ASSUME NEW t \in Threads, AcceptBlock(t) PROVE IndexInv'
  <2> DEFINE b == pblock[t]
  <2>1. b \in Block \ {Genesis} /\ Known(Parent[b]) /\ Parent[b] \in Block
    BY <1>6, TreeAssumption DEF AcceptBlock, State, ThreadsInv
  <2>2. CASE UNCHANGED indexVars
    BY <2>2, IndexKept DEF Known
  <2>3. CASE nStatus' = [nStatus EXCEPT ![b] = @ \cup {"tree", "failed_valid"}]
             \/ nStatus' = [nStatus EXCEPT ![b] = @ \cup {"tree", "data"}]
    <3> HIDE DEF b
    <3>1. PICK new : nStatus' = [nStatus EXCEPT ![b] = @ \cup new] /\ "tree" \in new
      BY ONLY <2>3
    <3>2. /\ "tree" \in nStatus'[b]
          /\ \A x \in Block : x # b => nStatus'[x] = nStatus[x]
      <4>1. nStatus \in [Block -> SUBSET Flags] /\ b \in Block
        BY <1>0, <2>1 DEF TypeOK
      <4> QED BY ONLY <3>1, <4>1
    <3>3. \A x \in Block : Known(x)' <=> Known(x) \/ x = b
      BY <3>2 DEF Known
    <3>4. \A x \in Block : ("tree" \in nStatus[x] \/ x = b) => "tree" \in nStatus'[x]
      BY <3>2
    <3> QED BY <1>0, <2>1, <3>3, <3>4, TreeAssumption DEF IndexInv, ParentClosed
  <2>4. \/ UNCHANGED indexVars
        \/ nStatus' = [nStatus EXCEPT ![b] = @ \cup {"tree", "failed_valid"}]
        \/ nStatus' = [nStatus EXCEPT ![b] = @ \cup {"tree", "data"}]
    BY <1>6 DEF AcceptBlock, ReceivedBlockTransactions
  <2> HIDE DEF b
  <2> QED BY <2>2, <2>3, <2>4
<1>7. ASSUME NEW t \in Threads, Activate(t) PROVE IndexInv'
  <2>1. PICK M \in SUBSET Block :
          /\ nStatus' = Marked(M, "failed_child")
          /\ \A y \in M : Known(y)
    BY <1>7, ActivateMarks
  <2>2. \A x \in Block : nStatus[x] \cap Lasting \subseteq nStatus'[x] /\ (Known(x)' => Known(x))
    BY <1>0, <2>1 DEF Marked, TypeOK, Known
  <2> QED BY <2>2, IndexKept DEF Known
<1>8. ASSUME NEW t \in Threads, ReorgDisconnect(t) PROVE IndexInv'
  BY <1>8, IndexKept DEF ReorgDisconnect, Known
<1>9. ASSUME NEW t \in Threads, ConnectTip(t) PROVE IndexInv'
  <2>1. NextBlock(t) \in chainTx /\ Known(NextBlock(t))
    BY <1>9, ConnectsTheNext, LinkedKnown DEF ConnectTip
  <2>2. \A x \in Block : nStatus[x] \cap Lasting \subseteq nStatus'[x] /\ (Known(x)' => Known(x))
    BY <1>0, <1>9, <2>1 DEF ConnectTip, Marked, TypeOK, Known
  <2> QED BY <2>2, IndexKept DEF Known
<1>10. ASSUME NEW t \in Threads, ConnectFails(t) PROVE IndexInv'
  <2>1. NextBlock(t) \in chainTx /\ Known(NextBlock(t))
    BY <1>10, ConnectsTheNext, LinkedKnown DEF ConnectFails
  <2>2. \A x \in Block : nStatus[x] \cap Lasting \subseteq nStatus'[x] /\ (Known(x)' => Known(x))
    BY <1>0, <1>10, <2>1 DEF ConnectFails, Marked, TypeOK, Known, InvalidBlockFound
  <2> QED BY <2>2, IndexKept DEF Known
<1>11. ASSUME NEW t \in Threads, WriteCoins(t) PROVE IndexInv'
  BY <1>11, IndexKept DEF WriteCoins, Known
<1>12. ASSUME NEW t \in Threads, Released(t) PROVE IndexInv'
  BY <1>12, IndexKept DEF Released, Known
<1>13. ASSUME NEW t \in Threads, Finish(t) PROVE IndexInv'
  BY <1>13, IndexKept DEF Finish, Known
<1>14. ASSUME NEW t \in Threads, InvalidateTip(t) PROVE IndexInv'
  <2>1. Known(tip)
    BY LinkedKnown DEF State, TipsInv
  <2>2. \A x \in Block : nStatus[x] \cap Lasting \subseteq nStatus'[x] /\ (Known(x)' => Known(x))
    BY <1>0, <1>14, <2>1 DEF InvalidateTip, Marked, TypeOK, Known
  <2> QED BY <2>2, IndexKept DEF Known
<1>15. ASSUME NEW t \in Threads, InvalidateEnd(t) PROVE IndexInv'
  BY <1>15, IndexKept DEF InvalidateEnd, Known
<1>16. ASSUME NEW t \in Threads, ReprocessReconsider(t) PROVE IndexInv'
  <2>1. PICK b \in pending[t] : Reconsider(b)
    BY <1>16 DEF ReprocessReconsider
  <2>2. b \in Block
    BY <1>0 DEF TypeOK
  <2>3. \A x \in Block : nStatus[x] \cap Lasting \subseteq nStatus'[x] /\ nStatus'[x] \subseteq nStatus[x]
    BY <2>1, <2>2, ReconsiderClears
  <2> QED BY <2>3, IndexKept DEF Known
<1>17. ASSUME NEW t \in Threads, ReprocessStart(t) PROVE IndexInv'
  BY <1>17, IndexKept DEF ReprocessStart, Known
<1>18. ASSUME NEW t \in Threads, ReprocessDisconnect(t) PROVE IndexInv'
  BY <1>18, IndexKept DEF ReprocessDisconnect, Known
<1>19. ASSUME NEW t \in Threads, ReprocessEnd(t) PROVE IndexInv'
  BY <1>19, IndexKept DEF ReprocessEnd, Known
<1>20. ASSUME NEW b \in Contestable, Contest(b) \/ Settle(b) PROVE IndexInv'
  BY <1>20, IndexKept DEF Contest, Settle, Known
<1>21. ASSUME NEW t \in Threads, CrashAndRestart(t) PROVE IndexInv'
  <2>1. nStatus' = diskStatus
    BY <1>21 DEF CrashAndRestart
  <2>2. DiskInv
    BY DEF State
  <2> QED BY <2>1, <2>2 DEF DiskInv, DiskLoadable, IndexInv, Known, ParentClosed
<1>22. CASE UNCHANGED vars
  BY <1>22, IndexKept DEF vars, Known
<1> QED BY <1>1, <1>2, <1>3, <1>4, <1>5, <1>6, <1>7, <1>8, <1>9, <1>10,
           <1>11, <1>12, <1>13, <1>14, <1>15, <1>16, <1>17, <1>18, <1>19,
           <1>20, <1>21, <1>22 DEF Next, ThreadStep

\* A step takes no lasting flag away, and whatever else it does to the entries
\* outside D it does not have to be saved.
Growing(D) ==
  /\ \A x \in Block : nStatus[x] \cap Lasting \subseteq nStatus'[x]
  /\ \A x \in Block \ D : /\ nStatus[x] \subseteq nStatus'[x]
                          /\ nStatus'[x] \cap Lasting \subseteq nStatus[x]

(* What is not saved at once stays in setDirtyBlockIndex.                  *)
LEMMA DiskKept ==
  ASSUME State, UNCHANGED diskVars, dirty \subseteq dirty', Growing(dirty'),
         writing # "none" => dirty' = dirty
  PROVE  DiskInv'
<1> USE DEF Growing
<1>0. DiskInv /\ TypeOK
  BY DEF State
<1>1. writing' # "none" => dirty' = {}
  BY <1>0 DEF DiskInv
<1>2. \A b \in Block : diskStatus'[b] \cap Lasting \subseteq nStatus'[b]
  BY <1>0 DEF DiskInv
<1>3. ASSUME NEW b \in Block \ dirty'
      PROVE  /\ diskStatus'[b] \subseteq nStatus'[b]
             /\ nStatus'[b] \cap Lasting \subseteq diskStatus'[b]
  <2>1. b \in Block \ dirty
    OBVIOUS
  <2> QED BY <1>0, <1>3, <2>1 DEF DiskInv
<1>4. DiskLoadable' /\ \A b \in Block : diskStatus'[b] # {} => "tree" \in diskStatus'[b]
  BY <1>0 DEF DiskInv, DiskLoadable
<1> QED BY <1>1, <1>2, <1>3, <1>4 DEF DiskInv

(* FlushStateToDisk writes a batch of entries that can be loaded.          *)
LEMMA DiskWritten ==
  ASSUME State, TypeOK', IndexInv', NEW D \in SUBSET Block, NEW w,
         dirty \subseteq D, Growing(D), WriteIndex(nStatus', D, w)
  PROVE  DiskInv'
<1> USE DEF Growing
<1>0. DiskInv /\ TypeOK
  BY DEF State
<1>1. /\ diskStatus' = [b \in Block |-> IF b \in D THEN nStatus'[b] ELSE diskStatus[b]]
      /\ dirty' = {} /\ diskTip' = diskTip
  BY DEF WriteIndex
<1>2. ASSUME NEW b \in Block
      PROVE  /\ diskStatus'[b] \cap Lasting \subseteq nStatus'[b]
             /\ diskStatus'[b] \subseteq nStatus'[b]
             /\ nStatus'[b] \cap Lasting \subseteq diskStatus'[b]
  <2>1. CASE b \in D
    BY <1>1, <2>1
  <2>2. CASE b \notin D
    <3>1. diskStatus'[b] = diskStatus[b] /\ b \in Block \ dirty
      BY <1>1, <2>2
    <3>2. diskStatus[b] \subseteq nStatus[b] /\ nStatus[b] \cap Lasting \subseteq diskStatus[b]
      BY <1>0, <3>1 DEF DiskInv
    <3>3. nStatus[b] \subseteq nStatus'[b] /\ nStatus'[b] \cap Lasting \subseteq nStatus[b]
      BY <2>2
    <3> QED BY <3>1, <3>2, <3>3
  <2> QED BY <2>1, <2>2
<1>3. \A b \in Block : diskStatus'[b] # {} => "tree" \in diskStatus'[b]
  <2>1. \A b \in Block : nStatus'[b] # {} => "tree" \in nStatus'[b]
    BY DEF IndexInv, Known
  <2> QED BY <1>0, <1>1, <2>1 DEF DiskInv
<1>4. \A b \in Block : diskStatus'[b] # {} <=> nStatus'[b] # {}
  <2>1. \A b \in Block : nStatus'[b] # {} => "tree" \in nStatus'[b]
    BY DEF IndexInv, Known
  <2> QED BY <1>2, <1>3, <2>1 DEF Lasting
<1>5. ParentClosed({b \in Block : diskStatus'[b] # {}})
  <2>1. ParentClosed({b \in Block : nStatus'[b] # {}})
    BY DEF IndexInv, Known
  <2>2. {b \in Block : diskStatus'[b] # {}} = {b \in Block : nStatus'[b] # {}}
    BY <1>4
  <2> QED BY <2>1, <2>2
<1>6. \A b \in Block : diskStatus[b] \cap Lasting \subseteq diskStatus'[b]
  <2>1. \A b \in Block : diskStatus[b] \cap Lasting \subseteq nStatus'[b]
    BY <1>0 DEF DiskInv
  <2> QED BY <1>1, <2>1
<1>7. \A b \in Chain[diskTip] : b \in Block
  BY <1>0, ChainContains DEF TypeOK
<1>8. DiskLoadable'
  BY <1>0, <1>1, <1>5, <1>6, <1>7 DEF DiskLoadable, DiskInv, Lasting
<1> QED BY <1>1, <1>2, <1>3, <1>8 DEF DiskInv

(* Every step keeps what is on disk loadable. *)
LEMMA DiskStep ==
  ASSUME State, [Next]_vars
  PROVE  DiskInv'
<1>0. TypeOK /\ TypeOK' /\ IndexInv' /\ dirty \subseteq Block
  BY TypeStep, IndexStep DEF State, TypeOK
<1>1. ASSUME NEW b \in Block \ {Genesis}, AcceptHeader(b) PROVE DiskInv'
  <2>1. Growing(dirty')
    BY <1>0, <1>1 DEF AcceptHeader, Marked, TypeOK, Growing
  <2>2. dirty \subseteq dirty' /\ UNCHANGED diskVars /\ writing = "none"
    BY <1>1, FreeMeansAtRest DEF AcceptHeader
  <2> QED BY <2>1, <2>2, DiskKept
<1>2. ASSUME NEW t \in Threads, NEW b \in Block \ {Genesis}, CheckNewBlock(t, b) PROVE DiskInv'
  BY <1>2, DiskKept DEF CheckNewBlock, Growing
<1>3. ASSUME NEW t \in Threads, NEW b \in Block \ {Genesis}, InvalidateBlock(t, b) PROVE DiskInv'
  <2>1. Growing(dirty')
    BY <1>0, <1>3 DEF InvalidateBlock, Marked, TypeOK, Growing
  <2>2. dirty \subseteq dirty' /\ UNCHANGED diskVars /\ writing = "none"
    BY <1>3, FreeMeansAtRest DEF InvalidateBlock
  <2> QED BY <2>1, <2>2, DiskKept
<1>4. ASSUME NEW t \in Threads, NEW b \in Block \ {Genesis}, ReconsiderBlock(t, b) PROVE DiskInv'
  <2>1. Growing(dirty')
    BY <1>4, ReconsiderClears DEF ReconsiderBlock, Growing
  <2>2. dirty \subseteq dirty' /\ UNCHANGED diskVars /\ writing = "none"
    BY <1>4, ReconsiderClears, FreeMeansAtRest DEF ReconsiderBlock
  <2> QED BY <2>1, <2>2, DiskKept
<1>5. ASSUME NEW t \in Threads, ReprocessBlocks(t) PROVE DiskInv'
  BY <1>5, DiskKept DEF ReprocessBlocks, Growing
<1>6. ASSUME NEW t \in Threads, AcceptBlock(t) PROVE DiskInv'
  <2> DEFINE b == pblock[t]
  <2>1. b \in Block \ {Genesis} /\ writing = "none" /\ UNCHANGED diskVars
    BY <1>6, FreeMeansAtRest DEF AcceptBlock, State, ThreadsInv
  <2>2. CASE UNCHANGED indexVars
    BY <2>1, <2>2, DiskKept DEF Growing
  <2>3. CASE /\ dirty' = dirty \cup {b}
             /\ \/ nStatus' = [nStatus EXCEPT ![b] = @ \cup {"tree", "failed_valid"}]
                \/ nStatus' = [nStatus EXCEPT ![b] = @ \cup {"tree", "data"}]
    <3> HIDE DEF b
    <3>1. Growing(dirty')
      BY <1>0, <2>3 DEF TypeOK, Growing
    <3> QED BY <2>1, <2>3, <3>1, DiskKept
  <2> QED BY <2>2, <2>3, <1>6 DEF AcceptBlock, ReceivedBlockTransactions
<1>7. ASSUME NEW t \in Threads, Activate(t) PROVE DiskInv'
  <2>1. PICK M \in SUBSET Block : nStatus' = Marked(M, "failed_child")
    BY <1>7, ActivateMarks
  <2>2. Growing(dirty)
    BY <1>0, <2>1 DEF Marked, TypeOK, Growing, Lasting
  <2>3. UNCHANGED diskVars /\ dirty' = dirty
    BY <1>7 DEF Activate
  <2> QED BY <2>2, <2>3, DiskKept
<1>8. ASSUME NEW t \in Threads, ReorgDisconnect(t) PROVE DiskInv'
  <2>1. nStatus' = nStatus /\ WriteIndex(nStatus', dirty, "disconnect")
    BY <1>8 DEF ReorgDisconnect, DisconnectTip
  <2>2. Growing(dirty)
    BY <2>1 DEF Growing
  <2> QED BY <1>0, <2>1, <2>2, DiskWritten
<1>9. ASSUME NEW t \in Threads, ConnectTip(t) PROVE DiskInv'
  <2> DEFINE b == NextBlock(t)
             D == DirtyAfterConnect(b)
  <2>1. b \in Block /\ writing = "none"
    BY <1>9, ConnectsTheNext DEF ConnectTip
  <2>2. nStatus' = Marked({b}, "scripts")
    BY <1>9 DEF ConnectTip
  <2>3. dirty \subseteq D /\ D \in SUBSET Block /\ Growing(D)
    <3> HIDE DEF b
    <3> QED BY <1>0, <2>1, <2>2 DEF DirtyAfterConnect, Growing, Marked, TypeOK
  <2>4. \/ dirty' = D /\ UNCHANGED diskVars
        \/ WriteIndex(nStatus', D, "connect")
    BY <1>9 DEF ConnectTip
  <2> HIDE DEF b, D
  <2> QED BY <1>0, <2>1, <2>3, <2>4, DiskKept, DiskWritten
<1>10. ASSUME NEW t \in Threads, ConnectFails(t) PROVE DiskInv'
  <2> DEFINE b == NextBlock(t)
  <2>1. b \in Block /\ writing = "none"
    BY <1>10, ConnectsTheNext DEF ConnectFails
  <2>2. nStatus' = Marked({b}, "failed_valid") /\ dirty' = dirty \cup {b} /\ UNCHANGED diskVars
    BY <1>10 DEF ConnectFails, InvalidBlockFound
  <2> HIDE DEF b
  <2>3. Growing(dirty')
    BY <1>0, <2>1, <2>2 DEF Growing, Marked, TypeOK
  <2> QED BY <2>1, <2>2, <2>3, DiskKept
<1>11. ASSUME NEW t \in Threads, WriteCoins(t) PROVE DiskInv'
  <2>1. /\ UNCHANGED <<nStatus, dirty, diskStatus>> /\ diskTip' = coinsTip /\ writing' = "none"
        /\ writing # "none"
    BY <1>11 DEF WriteCoins
  <2>2. DiskInv /\ dirty = {} /\ coinsTip \in Block
    BY <2>1 DEF State, DiskInv, TypeOK
  <2>3. coinsTip \in chainTx /\ Checked(coinsTip)
    BY DEF State, TipsInv
  <2>4. \A x \in Chain[coinsTip] : "data" \in diskStatus[x]
    BY <2>2, <2>3, ChainContains DEF State, LinksInv, NothingMissing, HasData, DiskInv, Lasting
  <2>5. \A x \in Chain[coinsTip] \ {Genesis} : "scripts" \in diskStatus[x]
    BY <2>2, <2>3, ChainContains DEF Checked, DiskInv, Lasting
  <2>6. DiskLoadable'
    BY <2>1, <2>2, <2>4, <2>5 DEF DiskLoadable, DiskInv
  <2> QED BY <2>1, <2>2, <2>6 DEF DiskInv
<1>12. ASSUME NEW t \in Threads, Released(t) PROVE DiskInv'
  BY <1>12, DiskKept DEF Released, Growing
<1>13. ASSUME NEW t \in Threads, Finish(t) PROVE DiskInv'
  <2>1. nStatus' = nStatus /\ Growing(dirty)
    BY <1>13 DEF Finish, Growing
  <2>2. \/ UNCHANGED <<dirty, diskVars>>
        \/ WriteIndex(nStatus', dirty, "periodic")
    BY <1>13 DEF Finish
  <2> QED BY <1>0, <2>1, <2>2, DiskKept, DiskWritten
<1>14. ASSUME NEW t \in Threads, InvalidateTip(t) PROVE DiskInv'
  <2>1. nStatus' = Marked({tip}, "failed_child") /\ WriteIndex(nStatus', dirty \cup {tip}, "disconnect")
    BY <1>14 DEF InvalidateTip, DisconnectTip
  <2>2. Growing(dirty \cup {tip})
    BY <1>0, <2>1 DEF Growing, Marked, TypeOK
  <2>3. dirty \cup {tip} \in SUBSET Block
    BY <1>0 DEF TypeOK
  <2> QED BY <1>0, <2>1, <2>2, <2>3, DiskWritten
<1>15. ASSUME NEW t \in Threads, InvalidateEnd(t) PROVE DiskInv'
  BY <1>15, DiskKept DEF InvalidateEnd, Growing
<1>16. ASSUME NEW t \in Threads, ReprocessReconsider(t) PROVE DiskInv'
  <2>1. PICK b \in pending[t] : Reconsider(b)
    BY <1>16 DEF ReprocessReconsider
  <2>2. b \in Block /\ writing = "none"
    BY <1>0, <1>16, FreeMeansAtRest DEF TypeOK, ReprocessReconsider
  <2>3. Growing(dirty')
    BY <2>1, <2>2, ReconsiderClears DEF Growing
  <2>4. dirty \subseteq dirty' /\ UNCHANGED diskVars
    BY <2>1, <2>2, ReconsiderClears
  <2> QED BY <2>2, <2>3, <2>4, DiskKept
<1>17. ASSUME NEW t \in Threads, ReprocessStart(t) PROVE DiskInv'
  BY <1>17, DiskKept DEF ReprocessStart, Growing
<1>18. ASSUME NEW t \in Threads, ReprocessDisconnect(t) PROVE DiskInv'
  <2>1. nStatus' = nStatus /\ WriteIndex(nStatus', dirty, "disconnect")
    BY <1>18 DEF ReprocessDisconnect, DisconnectTip
  <2>2. Growing(dirty)
    BY <2>1 DEF Growing
  <2> QED BY <1>0, <2>1, <2>2, DiskWritten
<1>19. ASSUME NEW t \in Threads, ReprocessEnd(t) PROVE DiskInv'
  BY <1>19, DiskKept DEF ReprocessEnd, Growing
<1>20. ASSUME NEW b \in Contestable, Contest(b) \/ Settle(b) PROVE DiskInv'
  BY <1>20, DiskKept DEF Contest, Settle, Growing
<1>21. ASSUME NEW t \in Threads, CrashAndRestart(t) PROVE DiskInv'
  <2>1. /\ nStatus' = diskStatus /\ dirty' = {} /\ writing' = "none"
        /\ UNCHANGED <<diskStatus, diskTip>>
    BY <1>21 DEF CrashAndRestart
  <2>2. DiskInv
    BY DEF State
  <2> QED BY <2>1, <2>2 DEF DiskInv, DiskLoadable
<1>22. CASE UNCHANGED vars
  BY <1>22, DiskKept DEF vars, Growing
<1> QED BY <1>1, <1>2, <1>3, <1>4, <1>5, <1>6, <1>7, <1>8, <1>9, <1>10,
           <1>11, <1>12, <1>13, <1>14, <1>15, <1>16, <1>17, <1>18, <1>19,
           <1>20, <1>21, <1>22 DEF Next, ThreadStep

(* The order of linked blocks does not depend on the sequence ids of others. *)
LEMMA SameOrder ==
  ASSUME NEW seq, NEW seqAfter, NEW a, NEW b, seqAfter[a] = seq[a], seqAfter[b] = seq[b]
  PROVE  SortsBefore(a, b, seqAfter) <=> SortsBefore(a, b, seq)
BY DEF SortsBefore

(* A step that adds no candidate and moves no tip keeps CandInv. *)
LEMMA CandKept ==
  ASSUME State, candidates' \subseteq candidates, UNCHANGED <<chainTx, tip, nSequenceId>>
  PROVE  CandInv'
BY DEF State, CandInv

(* Every step keeps setBlockIndexCandidates free of what sorts below the tip. *)
LEMMA CandStep ==
  ASSUME State, [Next]_vars
  PROVE  CandInv'
<1>0. TypeOK /\ CandInv /\ candidates \subseteq Block /\ tip \in Block
  BY DEF State, TypeOK
<1>1. ASSUME NEW b \in Block \ {Genesis}, AcceptHeader(b) PROVE CandInv'
  BY <1>1, CandKept DEF AcceptHeader
<1>2. ASSUME NEW t \in Threads, NEW b \in Block \ {Genesis}, CheckNewBlock(t, b) PROVE CandInv'
  BY <1>2, CandKept DEF CheckNewBlock
<1>3. ASSUME NEW t \in Threads, NEW b \in Block \ {Genesis}, InvalidateBlock(t, b) PROVE CandInv'
  BY <1>3, CandKept DEF InvalidateBlock
<1>4. ASSUME NEW t \in Threads, NEW b \in Block \ {Genesis}, ReconsiderBlock(t, b) PROVE CandInv'
  <2>1. PICK S \in SUBSET chainTx : candidates' = candidates \cup OnlyBetter(S, nSequenceId)
    BY <1>4, ReconsiderClears DEF ReconsiderBlock
  <2>2. UNCHANGED <<chainTx, tip, nSequenceId>>
    BY <1>4, ReconsiderClears DEF ReconsiderBlock
  <2>3. \A x \in S : x \in Block /\ (SortsBefore(tip, x, nSequenceId) => ~SortsBefore(x, tip, nSequenceId))
    BY <1>0, SortsStrictly DEF TypeOK
  <2> QED BY <1>0, <2>1, <2>2, <2>3 DEF CandInv, OnlyBetter
<1>5. ASSUME NEW t \in Threads, ReprocessBlocks(t) PROVE CandInv'
  BY <1>5, CandKept DEF ReprocessBlocks
<1>6. ASSUME NEW t \in Threads, AcceptBlock(t) PROVE CandInv'
  <2>1. pblock[t] \in Block \ {Genesis} /\ tip' = tip
    BY <1>6 DEF AcceptBlock, State, ThreadsInv
  <2>2. CASE UNCHANGED <<chainTx, nSequenceId, candidates>>
    BY <2>1, <2>2, CandKept
  <2>3. CASE ~HasData(pblock[t]) /\ ReceivedBlockTransactions(pblock[t])
    <3>1. PICK L \in SUBSET Block :
            /\ L \cap chainTx = {}
            /\ chainTx' = chainTx \cup L
            /\ candidates' = candidates \cup NotWorse(L, nSequenceId')
            /\ \A x \in Block \ L : nSequenceId'[x] = nSequenceId[x]
      BY <2>1, <2>3, ReceivedLinks
    <3>2. tip \in Block \ L /\ candidates \subseteq Block \ L
      BY <1>0, <3>1 DEF State, TipsInv, CandInv
    <3>3. \A c \in candidates : ~SortsBefore(c, tip, nSequenceId')
      BY <1>0, <3>1, <3>2, SameOrder DEF CandInv
    <3>4. \A c \in NotWorse(L, nSequenceId') : ~SortsBefore(c, tip, nSequenceId') /\ c \in L
      BY DEF NotWorse
    <3> QED BY <1>0, <2>1, <3>1, <3>3, <3>4 DEF CandInv
  <2> QED BY <2>2, <2>3, <1>6 DEF AcceptBlock
<1>7. ASSUME NEW t \in Threads, Activate(t) PROVE CandInv'
  <2>1. candidates' \subseteq candidates /\ UNCHANGED <<chainTx, tip, nSequenceId>>
    BY <1>7, ActivateMarks DEF Activate
  <2> QED BY <2>1, CandKept
<1>8. ASSUME NEW t \in Threads, ReorgDisconnect(t) PROVE CandInv'
  <2>1. candidates' \subseteq candidates /\ UNCHANGED <<chainTx, tip, nSequenceId>>
    BY <1>8 DEF ReorgDisconnect, DisconnectTip
  <2> QED BY <2>1, CandKept
<1>9. ASSUME NEW t \in Threads, ConnectTip(t) PROVE CandInv'
  <2>1. UNCHANGED <<chainTx, nSequenceId>>
    BY <1>9 DEF ConnectTip
  <2>2. \/ UNCHANGED <<tip, candidates>>
        \/ candidates' = Prune(candidates, tip', nSequenceId)
    BY <1>9 DEF ConnectTip, Connected
  <2> QED BY <1>0, <2>1, <2>2 DEF CandInv, Prune
<1>10. ASSUME NEW t \in Threads, ConnectFails(t) PROVE CandInv'
  BY <1>10, CandKept DEF ConnectFails, InvalidBlockFound
<1>11. ASSUME NEW t \in Threads, WriteCoins(t) PROVE CandInv'
  <2>1. UNCHANGED <<chainTx, nSequenceId>>
    BY <1>11 DEF WriteCoins
  <2>2. CASE UNCHANGED <<tip, candidates>>
    BY <2>1, <2>2, CandKept
  <2>3. CASE candidates' = Prune(candidates, tip', nSequenceId)
    BY <1>0, <2>1, <2>3 DEF CandInv, Prune
  <2>4. CASE writing = "disconnect" /\ tip' = coinsTip /\ candidates' = candidates
    <3>1. tip # Genesis /\ tip' = Parent[tip] /\ Parent[tip] \in Block
      BY <1>0, <2>4, TreeAssumption DEF State, TipsInv
    <3>2. Work[Parent[tip]] < Work[tip]
      BY <1>0, <3>1, TreeAssumption
    <3>3. ASSUME NEW c \in candidates, SortsBefore(c, Parent[tip], nSequenceId)
          PROVE  SortsBefore(c, tip, nSequenceId)
      <4>1. SortsBefore(Parent[tip], tip, nSequenceId)
        BY <3>2 DEF SortsBefore
      <4> QED BY <1>0, <3>1, <3>3, <4>1, SortsTransitively DEF TypeOK
    <3> QED BY <1>0, <2>1, <2>4, <3>1, <3>3 DEF CandInv
  <2> QED BY <2>2, <2>3, <2>4, <1>11 DEF WriteCoins, Connected
<1>12. ASSUME NEW t \in Threads, Released(t) PROVE CandInv'
  BY <1>12, CandKept DEF Released
<1>13. ASSUME NEW t \in Threads, Finish(t) PROVE CandInv'
  BY <1>13, CandKept DEF Finish
<1>14. ASSUME NEW t \in Threads, InvalidateTip(t) PROVE CandInv'
  <2>1. candidates' \subseteq candidates /\ UNCHANGED <<chainTx, tip, nSequenceId>>
    BY <1>14 DEF InvalidateTip, DisconnectTip
  <2> QED BY <2>1, CandKept
<1>15. ASSUME NEW t \in Threads, InvalidateEnd(t) PROVE CandInv'
  <2>1. /\ candidates' = candidates \cup NotWorse({x \in chainTx : IsValid(nStatus[x])}, nSequenceId)
        /\ UNCHANGED <<chainTx, tip, nSequenceId>>
    BY <1>15 DEF InvalidateEnd, ToRestore
  <2> QED BY <1>0, <2>1 DEF CandInv, NotWorse
<1>16. ASSUME NEW t \in Threads, ReprocessReconsider(t) PROVE CandInv'
  <2>1. PICK b \in pending[t] : Reconsider(b)
    BY <1>16 DEF ReprocessReconsider
  <2>2. b \in Block
    BY <1>0 DEF TypeOK
  <2>3. PICK S \in SUBSET chainTx : candidates' = candidates \cup OnlyBetter(S, nSequenceId)
    BY <2>1, <2>2, ReconsiderClears
  <2>4. UNCHANGED <<chainTx, tip, nSequenceId>>
    BY <2>1, <2>2, ReconsiderClears
  <2>5. \A x \in S : x \in Block /\ (SortsBefore(tip, x, nSequenceId) => ~SortsBefore(x, tip, nSequenceId))
    BY <1>0, SortsStrictly DEF TypeOK
  <2> QED BY <1>0, <2>3, <2>4, <2>5 DEF CandInv, OnlyBetter
<1>17. ASSUME NEW t \in Threads, ReprocessStart(t) PROVE CandInv'
  BY <1>17, CandKept DEF ReprocessStart
<1>18. ASSUME NEW t \in Threads, ReprocessDisconnect(t) PROVE CandInv'
  <2>1. candidates' \subseteq candidates /\ UNCHANGED <<chainTx, tip, nSequenceId>>
    BY <1>18 DEF ReprocessDisconnect, DisconnectTip
  <2> QED BY <2>1, CandKept
<1>19. ASSUME NEW t \in Threads, ReprocessEnd(t) PROVE CandInv'
  BY <1>19, CandKept DEF ReprocessEnd
<1>20. ASSUME NEW b \in Contestable, Contest(b) \/ Settle(b) PROVE CandInv'
  BY <1>20, CandKept DEF Contest, Settle
<1>21. ASSUME NEW t \in Threads, CrashAndRestart(t) PROVE CandInv'
  <2> DEFINE linked == {b \in Block : \A x \in Chain[b] : "data" \in diskStatus[x]}
             S == {b \in linked : IsValid(diskStatus[b])}
             seq == [b \in Block |-> 0]
  <2>1. candidates' = Prune(S, diskTip, seq) /\ chainTx' = linked /\ tip' = diskTip /\ nSequenceId' = seq
    BY <1>21 DEF CrashAndRestart
  <2>2. S \subseteq linked
    OBVIOUS
  <2> HIDE DEF linked, S, seq
  <2> QED BY <2>1, <2>2 DEF CandInv, Prune
<1>22. CASE UNCHANGED vars
  BY <1>22, CandKept DEF vars
<1> QED BY <1>1, <1>2, <1>3, <1>4, <1>5, <1>6, <1>7, <1>8, <1>9, <1>10,
           <1>11, <1>12, <1>13, <1>14, <1>15, <1>16, <1>17, <1>18, <1>19,
           <1>20, <1>21, <1>22 DEF Next, ThreadStep

(* Every step keeps what the other proofs know of a reachable state. *)
LEMMA StateStep ==
  ASSUME State, [Next]_vars
  PROVE  State'
BY TypeStep, ThreadsStep, TipsStep, LinksStep, IndexStep, DiskStep, CandStep DEF State

-----------------------------------------------------------------------------
(* The bounded operations are only counted up. *)
LEMMA UsedGrows ==
  ASSUME TypeOK, [Next]_vars, NEW op \in Operations
  PROVE  used[op] <= used'[op]
<1> USE DEF TypeOK
<1>1. used[op] \in Nat
  OBVIOUS
<1>2. used' = used \/ \E o \in Operations : used' = [used EXCEPT ![o] = @ + 1]
  <2>1. \/ used' = used
        \/ Use("invalidate") \/ Use("reconsider") \/ Use("reprocess") \/ Use("contest") \/ Use("crash")
    BY DEF Next, vars, ThreadStep, AcceptHeader, CheckNewBlock, InvalidateBlock, ReconsiderBlock,
           ReprocessBlocks, AcceptBlock, Activate, ReorgDisconnect, ConnectTip, ConnectFails,
           WriteCoins, Released, Finish, InvalidateTip, InvalidateEnd, ReprocessReconsider,
           ReprocessStart, ReprocessDisconnect, ReprocessEnd, Contest, Settle, CrashAndRestart
  <2> QED BY <2>1 DEF Use, Operations
<1> QED BY <1>1, <1>2

(* A call that invalidates has marked its block; one that reconsiders was counted. *)
LEMMA CallsStep ==
  ASSUME State, CallsInv, [Next]_vars
  PROVE  CallsInv'
<1> USE DEF CallsInv
<1>0. CallsInv /\ TypeOK
  BY DEF State
<1>n. \A op \in Operations : used[op] \in Nat /\ used[op] <= used'[op]
  BY <1>0, UsedGrows DEF TypeOK
<1>1. ASSUME NEW b \in Block \ {Genesis}, AcceptHeader(b) PROVE CallsInv'
  <2>1. \A x \in Block : "failed_valid" \in nStatus[x] => "failed_valid" \in nStatus'[x]
    BY <1>0, <1>1 DEF AcceptHeader, Marked, TypeOK
  <2>2. UNCHANGED <<pc, target, used>>
    BY <1>1 DEF AcceptHeader
  <2> QED BY <1>0, <2>1, <2>2 DEF State, ThreadsInv
<1>2. ASSUME NEW t \in Threads, NEW b \in Block \ {Genesis}, CheckNewBlock(t, b) PROVE CallsInv'
  BY <1>0, <1>2 DEF CheckNewBlock, TypeOK, Goto
<1>3. ASSUME NEW t \in Threads, NEW b \in Block \ {Genesis}, InvalidateBlock(t, b) PROVE CallsInv'
  <2>1. \A x \in Block : x = b => "failed_valid" \in nStatus'[x]
    BY <1>0, <1>3 DEF InvalidateBlock, Marked, TypeOK
  <2>2. target' = b /\ pc' = [pc EXCEPT ![t] = "invalidate"] /\ used["reprocess"] <= used'["reprocess"]
    BY <1>n, <1>3 DEF InvalidateBlock, Goto, Operations
  <2>3. used["reprocess"] \in Nat /\ used'["reprocess"] \in Nat
    BY TypeStep DEF TypeOK, State, Operations
  <2> QED BY <1>0, <2>1, <2>2, <2>3 DEF TypeOK
<1>4. ASSUME NEW t \in Threads, NEW b \in Block \ {Genesis}, ReconsiderBlock(t, b) PROVE CallsInv'
  <2>1. pc' = [pc EXCEPT ![t] = "activate"] /\ used["reprocess"] <= used'["reprocess"]
    BY <1>n, <1>4 DEF ReconsiderBlock, Goto, Operations
  <2>2. \A u \in Threads : pc[u] # "invalidate"
    BY <1>4 DEF ReconsiderBlock, Unlocked
  <2>3. used["reprocess"] \in Nat /\ used'["reprocess"] \in Nat
    BY TypeStep DEF TypeOK, State, Operations
  <2> QED BY <1>0, <2>1, <2>2, <2>3 DEF TypeOK
<1>5. ASSUME NEW t \in Threads, ReprocessBlocks(t) PROVE CallsInv'
  BY <1>0, <1>5 DEF ReprocessBlocks, TypeOK, Goto, Use, Operations
<1>6. ASSUME NEW t \in Threads, AcceptBlock(t) PROVE CallsInv'
  <2>1. \A u \in Threads : pc'[u] # "invalidate" /\ (pc'[u] \in {"reconsider", "reprocess"} => pc'[u] = pc[u])
    BY <1>0, <1>6 DEF AcceptBlock, Unlocked, TypeOK, Goto
  <2>2. used' = used
    BY <1>6 DEF AcceptBlock
  <2> QED BY <1>0, <2>1, <2>2
<1>7. ASSUME NEW t \in Threads, Activate(t) PROVE CallsInv'
  <2>1. \A u \in Threads : pc'[u] # "invalidate" /\ (pc'[u] \in {"reconsider", "reprocess"} => pc'[u] = pc[u])
    BY <1>0, <1>7, ActivateMarks DEF Activate, Unlocked, TypeOK
  <2>2. used' = used
    BY <1>7 DEF Activate
  <2> QED BY <1>0, <2>1, <2>2
<1>8. ASSUME NEW t \in Threads, ReorgDisconnect(t) PROVE CallsInv'
  BY <1>0, <1>8 DEF ReorgDisconnect, TypeOK, Goto
<1>9. ASSUME NEW t \in Threads, ConnectTip(t) PROVE CallsInv'
  <2>1. \A u \in Threads : pc[u] # "invalidate"
    BY <1>9 DEF ConnectTip, AtConnect, State, ThreadsInv, Held
  <2>2. \A u \in Threads : pc'[u] \in {"invalidate", "reconsider", "reprocess"} => pc'[u] = pc[u]
    BY <1>0, <1>9 DEF ConnectTip, Connected, Goto, TypeOK
  <2>3. used' = used
    BY <1>9 DEF ConnectTip
  <2> QED BY <1>0, <2>1, <2>2, <2>3
<1>10. ASSUME NEW t \in Threads, ConnectFails(t) PROVE CallsInv'
  <2>1. \A u \in Threads : pc[u] # "invalidate"
    BY <1>10 DEF ConnectFails, AtConnect, State, ThreadsInv, Held
  <2>2. \A u \in Threads : pc'[u] \in {"invalidate", "reconsider", "reprocess"} => pc'[u] = pc[u]
    BY <1>0, <1>10 DEF ConnectFails, Goto, TypeOK
  <2>3. used' = used
    BY <1>10 DEF ConnectFails
  <2> QED BY <1>0, <2>1, <2>2, <2>3
<1>11. ASSUME NEW t \in Threads, WriteCoins(t) PROVE CallsInv'
  <2>1. \A u \in Threads : pc'[u] \in {"invalidate", "reconsider", "reprocess"} => pc'[u] = pc[u]
    BY <1>0, <1>11 DEF WriteCoins, Connected, Goto, TypeOK
  <2>2. UNCHANGED <<used, nStatus, target>>
    BY <1>11 DEF WriteCoins
  <2> QED BY <1>0, <2>1, <2>2
<1>12. ASSUME NEW t \in Threads, Released(t) PROVE CallsInv'
  BY <1>0, <1>12 DEF Released, Repeat, TypeOK, Goto
<1>13. ASSUME NEW t \in Threads, Finish(t) PROVE CallsInv'
  BY <1>0, <1>13 DEF Finish, TypeOK, Goto
<1>14. ASSUME NEW t \in Threads, InvalidateTip(t) PROVE CallsInv'
  <2>1. \A x \in Block : "failed_valid" \in nStatus[x] => "failed_valid" \in nStatus'[x]
    BY <1>0, <1>14 DEF InvalidateTip, Marked, TypeOK
  <2>2. UNCHANGED <<pc, target, used>>
    BY <1>14 DEF InvalidateTip
  <2> QED BY <1>0, <2>1, <2>2 DEF State, ThreadsInv
<1>15. ASSUME NEW t \in Threads, InvalidateEnd(t) PROVE CallsInv'
  <2>1. \A u \in Threads : pc[u] = "invalidate" => u = t
    BY <1>15 DEF InvalidateEnd, State, ThreadsInv, Held
  <2>2. pc' = [pc EXCEPT ![t] = "activate"] /\ used' = used
    BY <1>15 DEF InvalidateEnd, Goto
  <2> QED BY <1>0, <2>1, <2>2 DEF TypeOK
<1>16. ASSUME NEW t \in Threads, ReprocessReconsider(t) PROVE CallsInv'
  <2>1. UNCHANGED <<pc, used>> /\ \A u \in Threads : pc[u] # "invalidate"
    BY <1>16 DEF ReprocessReconsider, Unlocked
  <2> QED BY <1>0, <2>1
<1>17. ASSUME NEW t \in Threads, ReprocessStart(t) PROVE CallsInv'
  BY <1>0, <1>17 DEF ReprocessStart, TypeOK, Goto
<1>18. ASSUME NEW t \in Threads, ReprocessDisconnect(t) PROVE CallsInv'
  BY <1>0, <1>18 DEF ReprocessDisconnect, TypeOK, Goto
<1>19. ASSUME NEW t \in Threads, ReprocessEnd(t) PROVE CallsInv'
  BY <1>0, <1>19 DEF ReprocessEnd, TypeOK, Goto
<1>20. ASSUME NEW b \in Contestable, Contest(b) \/ Settle(b) PROVE CallsInv'
  <2>1. UNCHANGED <<pc, nStatus, target>> /\ used["reprocess"] <= used'["reprocess"]
    BY <1>n, <1>20 DEF Contest, Settle, Operations
  <2>2. used["reprocess"] \in Nat /\ used'["reprocess"] \in Nat
    BY TypeStep DEF TypeOK, State, Operations
  <2> QED BY <1>0, <2>1, <2>2
<1>21. ASSUME NEW t \in Threads, CrashAndRestart(t) PROVE CallsInv'
  BY <1>0, <1>21 DEF CrashAndRestart, TypeOK
<1>22. CASE UNCHANGED vars
  BY <1>0, <1>22 DEF vars
<1> QED BY <1>1, <1>2, <1>3, <1>4, <1>5, <1>6, <1>7, <1>8, <1>9, <1>10,
           <1>11, <1>12, <1>13, <1>14, <1>15, <1>16, <1>17, <1>18, <1>19,
           <1>20, <1>21, <1>22 DEF Next, ThreadStep

\* A step takes no "failed_valid" away, sets it on no block outside D, and
\* marks only what has such a block in its chain.
FailsMore(D) ==
  /\ \A x \in Block : "failed_valid" \in nStatus[x] => "failed_valid" \in nStatus'[x]
  /\ \A x \in Block \ D : "failed_valid" \in nStatus'[x] => "failed_valid" \in nStatus[x]
  /\ \A x \in Block : nStatus'[x] \cap FailedMask # {} =>
       nStatus[x] \cap FailedMask # {} \/ \E y \in Chain[x] : "failed_valid" \in nStatus'[y]

(* Marks that have a cause keep one, if none is taken away. *)
LEMMA ExplainedStays ==
  ASSUME Explained(nStatus), NEW D, FailsMore(D)
  PROVE  Explained(nStatus')
BY ChainContains DEF Explained, FailsMore

(* The marks stay explained in memory and on disk by a step that only enters
   blocks into setDirtyBlockIndex. *)
LEMMA MarksKept ==
  ASSUME MarksInv, FailsMore(dirty'), dirty \subseteq dirty', diskStatus' = diskStatus
  PROVE  MarksInv'
<1>1. Explained(nStatus)'
  BY ExplainedStays DEF MarksInv, Explained
<1>2. Explained(diskStatus)'
  BY DEF MarksInv, Explained
<1> QED BY <1>1, <1>2 DEF MarksInv, FailsMore

(* ... and by one that writes the dirty blocks (FlushStateToDisk). *)
LEMMA MarksWritten ==
  ASSUME MarksInv, NEW D \in SUBSET Block, FailsMore(D), dirty \subseteq D, NEW w,
         WriteIndex(nStatus', D, w)
  PROVE  MarksInv'
<1>1. /\ diskStatus' = [b \in Block |-> IF b \in D THEN nStatus'[b] ELSE diskStatus[b]]
      /\ dirty' = {}
  BY DEF WriteIndex
<1>2. \A b \in Block : "failed_valid" \in diskStatus'[b] <=> "failed_valid" \in nStatus'[b]
  BY <1>1 DEF MarksInv, FailsMore
<1>3. Explained(nStatus)'
  BY ExplainedStays DEF MarksInv, Explained
<1>4. ASSUME NEW b \in Block, diskStatus'[b] \cap FailedMask # {}
      PROVE  \E x \in Chain[b] : "failed_valid" \in diskStatus'[x]
  <2>1. CASE b \in D
    BY <1>1, <1>2, <1>3, <1>4, <2>1, ChainContains DEF Explained
  <2>2. CASE b \notin D
    <3>1. PICK x \in Chain[b] : "failed_valid" \in diskStatus[x]
      BY <1>1, <1>4, <2>2 DEF MarksInv, Explained
    <3>2. x \in Block
      BY ChainContains
    <3> QED BY <1>2, <3>1, <3>2 DEF MarksInv, FailsMore
  <2> QED BY <2>1, <2>2
<1>5. Explained(diskStatus)'
  BY <1>4 DEF Explained
<1> QED BY <1>1, <1>2, <1>3, <1>5 DEF MarksInv

(* InvalidBlockFound and InvalidateBlock explain the mark they set.        *)
LEMMA MarksItself ==
  ASSUME TypeOK, NEW b \in Block, nStatus' = Marked({b}, "failed_valid"), NEW D, b \in D
  PROVE  FailsMore(D)
<1>1. \A x \in Block : x # b => nStatus'[x] = nStatus[x]
  BY DEF Marked
<1>2. "failed_valid" \in nStatus'[b] /\ b \in Chain[b]
  BY ChainContains DEF Marked
<1> QED BY <1>1, <1>2 DEF FailsMore

(* While nothing is reconsidered, every step keeps the marks explained, in memory
   and on disk. *)
LEMMA MarksStep ==
  ASSUME State, CallsInv, MarksInv, NothingReconsidered', [Next]_vars
  PROVE  MarksInv'
<1>0. State /\ TypeOK /\ MarksInv /\ CallsInv /\ nStatus \in [Block -> SUBSET Flags] /\ dirty \subseteq Block
  BY DEF State, TypeOK
<1>1. ASSUME NEW b \in Block \ {Genesis}, AcceptHeader(b) PROVE MarksInv'
  <2>1. FailsMore(dirty')
    BY <1>0, <1>1 DEF AcceptHeader, Marked, FailsMore, FailedMask
  <2>2. dirty \subseteq dirty' /\ diskStatus' = diskStatus
    BY <1>1 DEF AcceptHeader
  <2> QED BY <1>0, <2>1, <2>2, MarksKept
<1>2. ASSUME NEW t \in Threads, NEW b \in Block \ {Genesis}, CheckNewBlock(t, b) PROVE MarksInv'
  BY <1>0, <1>2, MarksKept DEF CheckNewBlock, FailsMore
<1>3. ASSUME NEW t \in Threads, NEW b \in Block \ {Genesis}, InvalidateBlock(t, b) PROVE MarksInv'
  <2>1. nStatus' = Marked({b}, "failed_valid") /\ dirty' = dirty \cup {b} /\ diskStatus' = diskStatus
    BY <1>3 DEF InvalidateBlock
  <2>2. FailsMore(dirty')
    BY <1>0, <2>1, MarksItself
  <2> QED BY <1>0, <2>1, <2>2, MarksKept
<1>4. ASSUME NEW t \in Threads, NEW b \in Block \ {Genesis}, ReconsiderBlock(t, b) PROVE MarksInv'
  <2>1. used' = [used EXCEPT !["reconsider"] = @ + 1]
    BY <1>4 DEF ReconsiderBlock, Use
  <2>2. used'["reconsider"] # 0
    BY <1>0, <2>1 DEF TypeOK, Operations
  <2> QED BY <2>2 DEF NothingReconsidered
<1>5. ASSUME NEW t \in Threads, ReprocessBlocks(t) PROVE MarksInv'
  BY <1>0, <1>5, MarksKept DEF ReprocessBlocks, FailsMore
<1>6. ASSUME NEW t \in Threads, AcceptBlock(t) PROVE MarksInv'
  <2> DEFINE b == pblock[t]
  <2>1. b \in Block \ {Genesis} /\ UNCHANGED diskVars
    BY <1>6 DEF AcceptBlock, State, ThreadsInv
  <2>2. CASE UNCHANGED indexVars
    BY <1>0, <2>1, <2>2, MarksKept DEF FailsMore
  <2>3. CASE dirty' = dirty \cup {b} /\ nStatus' = [nStatus EXCEPT ![b] = @ \cup {"tree", "failed_valid"}]
    <3> HIDE DEF b
    <3>1. FailsMore(dirty')
      BY <1>0, <2>1, <2>3, ChainContains DEF FailsMore, FailedMask
    <3> QED BY <1>0, <2>1, <2>3, <3>1, MarksKept
  <2>4. CASE dirty' = dirty \cup {b} /\ nStatus' = [nStatus EXCEPT ![b] = @ \cup {"tree", "data"}]
    <3> HIDE DEF b
    <3>1. FailsMore(dirty')
      BY <1>0, <2>1, <2>4 DEF FailsMore, FailedMask
    <3> QED BY <1>0, <2>1, <2>4, <3>1, MarksKept
  <2> QED BY <2>2, <2>3, <2>4, <1>6 DEF AcceptBlock, ReceivedBlockTransactions
<1>7. ASSUME NEW t \in Threads, Activate(t) PROVE MarksInv'
  <2>1. PICK M \in SUBSET Block :
          /\ nStatus' = Marked(M, "failed_child")
          /\ \A y \in M : \E x \in Chain[y] : Failed(x)
    BY <1>7, ActivateMarks
  <2>2. dirty' = dirty /\ diskStatus' = diskStatus
    BY <1>7 DEF Activate
  <2>3. \A x \in Block : "failed_valid" \in nStatus[x] <=> "failed_valid" \in nStatus'[x]
    BY <1>0, <2>1 DEF Marked
  <2>4. ASSUME NEW y \in M PROVE \E z \in Chain[y] : "failed_valid" \in nStatus'[z]
    <3>1. PICK x \in Chain[y] : Failed(x)
      BY <2>1
    <3>2. x \in Block /\ Chain[x] \subseteq Chain[y] /\ Chain[y] \subseteq Block
      BY ChainContains, ChainTransitive
    <3>3. PICK z \in Chain[x] : "failed_valid" \in nStatus[z]
      BY <1>0, <3>1, <3>2 DEF MarksInv, Explained, Failed
    <3> QED BY <2>3, <3>2, <3>3
  <2>5. FailsMore(dirty')
    BY <1>0, <2>1, <2>3, <2>4 DEF FailsMore, Marked
  <2> QED BY <1>0, <2>2, <2>5, MarksKept
<1>8. ASSUME NEW t \in Threads, ReorgDisconnect(t) PROVE MarksInv'
  <2>1. nStatus' = nStatus /\ WriteIndex(nStatus', dirty, "disconnect")
    BY <1>8 DEF ReorgDisconnect, DisconnectTip
  <2> QED BY <1>0, <2>1, MarksWritten DEF FailsMore
<1>9. ASSUME NEW t \in Threads, ConnectTip(t) PROVE MarksInv'
  <2> DEFINE b == NextBlock(t)
             D == DirtyAfterConnect(b)
  <2>1. b \in Block /\ nStatus' = Marked({b}, "scripts")
    BY <1>9, ConnectsTheNext DEF ConnectTip
  <2>2. dirty \subseteq D /\ D \in SUBSET Block
    <3> HIDE DEF b
    <3> QED BY <1>0, <2>1 DEF DirtyAfterConnect
  <2>3. FailsMore(D)
    <3> HIDE DEF b, D
    <3> QED BY <1>0, <2>1 DEF FailsMore, Marked, FailedMask
  <2>4. \/ dirty' = D /\ UNCHANGED diskVars
        \/ WriteIndex(nStatus', D, "connect")
    BY <1>9 DEF ConnectTip
  <2> HIDE DEF b, D
  <2> QED BY <1>0, <2>2, <2>3, <2>4, MarksKept, MarksWritten
<1>10. ASSUME NEW t \in Threads, ConnectFails(t) PROVE MarksInv'
  <2> DEFINE b == NextBlock(t)
  <2>1. b \in Block
    BY <1>10, ConnectsTheNext DEF ConnectFails
  <2>2. nStatus' = Marked({b}, "failed_valid") /\ dirty' = dirty \cup {b} /\ UNCHANGED diskVars
    BY <1>10 DEF ConnectFails, InvalidBlockFound
  <2> HIDE DEF b
  <2>3. FailsMore(dirty')
    BY <1>0, <2>1, <2>2, MarksItself
  <2> QED BY <1>0, <2>2, <2>3, MarksKept
<1>11. ASSUME NEW t \in Threads, WriteCoins(t) PROVE MarksInv'
  BY <1>0, <1>11, MarksKept DEF WriteCoins, FailsMore
<1>12. ASSUME NEW t \in Threads, Released(t) PROVE MarksInv'
  BY <1>0, <1>12, MarksKept DEF Released, FailsMore
<1>13. ASSUME NEW t \in Threads, Finish(t) PROVE MarksInv'
  <2>1. nStatus' = nStatus /\ FailsMore(dirty)
    BY <1>13 DEF Finish, FailsMore
  <2>2. \/ UNCHANGED <<dirty, diskVars>>
        \/ WriteIndex(nStatus', dirty, "periodic")
    BY <1>13 DEF Finish
  <2> QED BY <1>0, <2>1, <2>2, MarksKept, MarksWritten
<1>14. ASSUME NEW t \in Threads, InvalidateTip(t) PROVE MarksInv'
  <2>1. nStatus' = Marked({tip}, "failed_child") /\ WriteIndex(nStatus', dirty \cup {tip}, "disconnect")
    BY <1>14 DEF InvalidateTip, DisconnectTip
  <2>2. target \in Chain[tip] /\ "failed_valid" \in nStatus[target] /\ tip \in Block /\ target \in Block
    BY <1>0, <1>14 DEF InvalidateTip, CallsInv, Active, State, ThreadsInv, TypeOK
  <2>3. FailsMore(dirty \cup {tip})
    BY <1>0, <2>1, <2>2 DEF FailsMore, Marked
  <2>4. dirty \cup {tip} \in SUBSET Block
    BY <1>0, <2>2
  <2> QED BY <1>0, <2>1, <2>3, <2>4, MarksWritten
<1>15. ASSUME NEW t \in Threads, InvalidateEnd(t) PROVE MarksInv'
  BY <1>0, <1>15, MarksKept DEF InvalidateEnd, FailsMore
<1>16. ASSUME NEW t \in Threads, ReprocessReconsider(t) PROVE MarksInv'
  <2>1. used["reprocess"] > 0 /\ used' = used
    BY <1>0, <1>16 DEF ReprocessReconsider, CallsInv
  <2>2. used'["reprocess"] = 0
    BY DEF NothingReconsidered
  <2> QED BY <2>1, <2>2
<1>17. ASSUME NEW t \in Threads, ReprocessStart(t) PROVE MarksInv'
  BY <1>0, <1>17, MarksKept DEF ReprocessStart, FailsMore
<1>18. ASSUME NEW t \in Threads, ReprocessDisconnect(t) PROVE MarksInv'
  <2>1. nStatus' = nStatus /\ WriteIndex(nStatus', dirty, "disconnect")
    BY <1>18 DEF ReprocessDisconnect, DisconnectTip
  <2> QED BY <1>0, <2>1, MarksWritten DEF FailsMore
<1>19. ASSUME NEW t \in Threads, ReprocessEnd(t) PROVE MarksInv'
  BY <1>0, <1>19, MarksKept DEF ReprocessEnd, FailsMore
<1>20. ASSUME NEW b \in Contestable, Contest(b) \/ Settle(b) PROVE MarksInv'
  BY <1>0, <1>20, MarksKept DEF Contest, Settle, FailsMore
<1>21. ASSUME NEW t \in Threads, CrashAndRestart(t) PROVE MarksInv'
  <2>1. nStatus' = diskStatus /\ diskStatus' = diskStatus
    BY <1>21 DEF CrashAndRestart
  <2> QED BY <1>0, <2>1 DEF MarksInv, Explained
<1>22. CASE UNCHANGED vars
  BY <1>0, <1>22, MarksKept DEF vars, FailsMore
<1> QED BY <1>1, <1>2, <1>3, <1>4, <1>5, <1>6, <1>7, <1>8, <1>9, <1>10,
           <1>11, <1>12, <1>13, <1>14, <1>15, <1>16, <1>17, <1>18, <1>19,
           <1>20, <1>21, <1>22 DEF Next, ThreadStep

(* Every step keeps what FailuresCorrect rests on. *)
LEMMA FailuresStep ==
  ASSUME State, FailuresInv, [Next]_vars
  PROVE  FailuresInv'
<1>1. CallsInv'
  BY CallsStep DEF FailuresInv
<1>2. ASSUME NothingReconsidered' PROVE MarksInv'
  <2>1. used["reconsider"] \in Nat /\ used["reprocess"] \in Nat
        /\ used["reconsider"] <= used'["reconsider"] /\ used["reprocess"] <= used'["reprocess"]
    BY UsedGrows DEF State, TypeOK, Operations
  <2>2. NothingReconsidered
    BY <1>2, <2>1 DEF NothingReconsidered
  <2> QED BY <1>2, <2>2, MarksStep DEF FailuresInv
<1> QED BY <1>1, <1>2 DEF FailuresInv

(* InvalidateBlock is under way only if it was called, and then nothing else *)
(* holds cs_main.                                                          *)
LEMMA NothingLeaves ==
  ASSUME State, \/ used["invalidate"] = 0 \/ Unlocked
                \/ \E t \in Threads : Held(t) /\ pc[t] # "invalidate"
  PROVE  \A b : ~Leaving(b)
<1>1. \A t \in Threads : pc[t] = "invalidate" => used["invalidate"] > 0 /\ Held(t)
  BY DEF State, ThreadsInv, Held
<1>2. ASSUME NEW t \in Threads, pc[t] = "invalidate" PROVE FALSE
  <2>1. used["invalidate"] # 0 /\ ~Unlocked
    BY <1>1, <1>2 DEF Unlocked, Held
  <2>2. \A u \in Threads : Held(u) => u = t
    BY <1>1, <1>2 DEF State, ThreadsInv
  <2> QED BY <1>2, <2>1, <2>2
<1> QED BY <1>2 DEF Leaving

(* A step that moves neither tips nor databases, calls nothing, and marks    *)
(* nothing in the chains of the tips keeps ChainsClean.                    *)
LEMMA CleanKept ==
  ASSUME State, ChainsClean, UNCHANGED <<tip, coinsTip, diskStatus, diskTip>>,
         used["invalidate"] <= used'["invalidate"], used'["invalidate"] \in Nat,
         \A b \in Chain[tip] \cup Chain[coinsTip] : Failed(b)' => Failed(b),
         \A t \in Threads : pc[t] = "invalidate" => pc'[t] = "invalidate" /\ target' = target,
         \A t \in Threads : pc'[t] = "reorg" =>
           pc[t] = "reorg" /\ mostWork'[t] = mostWork[t] /\ nStatus' = nStatus
  PROVE  ChainsClean'
<1>1. \A b : Leaving(b) => Leaving(b)'
  BY DEF Leaving
<1>2. used["invalidate"] \in Nat
  BY DEF State, TypeOK, Operations
<1>3. \A b \in Chain[tip'] \cup Chain[coinsTip'] : Failed(b)' => Leaving(b)'
  BY <1>1 DEF ChainsClean
<1>4. \A t \in Threads : pc'[t] = "reorg" => \A b \in Chain[mostWork'[t]] : ~Failed(b)'
  BY DEF ChainsClean, Failed
<1>5. used'["invalidate"] = 0 => \A b \in Chain[diskTip'] : diskStatus'[b] \cap FailedMask = {}
  BY <1>2 DEF ChainsClean
<1> QED BY <1>3, <1>4, <1>5 DEF ChainsClean

(* What a disconnection writes to disk marks nothing in the chain of the tip. *)
LEMMA CleanDisconnect ==
  ASSUME State, ChainsClean, NEW t \in Threads,
         ReorgDisconnect(t) \/ ReprocessDisconnect(t) \/ InvalidateTip(t)
  PROVE  ChainsClean'
<1>1. /\ tip \in Block \ {Genesis} /\ Parent[tip] \in Block /\ tip' = tip
      /\ coinsTip' = Parent[tip] /\ diskTip' = diskTip /\ Held(t)
  BY DisconnectsABlock
<1>2. Chain[tip] \subseteq Block /\ Chain[Parent[tip]] \subseteq Chain[tip]
      /\ diskTip \in Chain[tip] /\ Chain[diskTip] \subseteq Chain[tip]
  BY <1>1, ChainStep, ChainContains, ChainTransitive DEF State, TipsInv
<1>3. UNCHANGED <<pc, mostWork, target, used>>
  BY DEF ReorgDisconnect, ReprocessDisconnect, InvalidateTip
<1>4. CASE nStatus' = nStatus /\ diskStatus' = [b \in Block |-> IF b \in dirty THEN nStatus[b] ELSE diskStatus[b]]
  <2>1. \A b \in Block : Failed(b)' <=> Failed(b)
    BY <1>4 DEF Failed
  <2>2. \A b : Leaving(b)' <=> Leaving(b)
    BY <1>3 DEF Leaving
  <2>3. used["invalidate"] = 0 => \A b \in Chain[tip] : ~Failed(b)
    BY NothingLeaves DEF ChainsClean
  <2>4. used["invalidate"] = 0 => \A b \in Chain[diskTip] : diskStatus'[b] \cap FailedMask = {}
    BY <1>2, <1>4, <2>3 DEF ChainsClean, Failed
  <2>5. \A b \in Chain[tip'] \cup Chain[coinsTip'] : Failed(b)' => Leaving(b)'
    BY <1>1, <1>2, <2>1, <2>2 DEF ChainsClean
  <2>6. \A u \in Threads : pc'[u] = "reorg" => \A b \in Chain[mostWork'[u]] : ~Failed(b)'
    BY <1>3, <1>4 DEF ChainsClean, Failed
  <2> QED BY <1>1, <1>3, <2>4, <2>5, <2>6 DEF ChainsClean
<1>5. CASE InvalidateTip(t)
  <2>1. pc[t] = "invalidate" /\ target \in Chain[tip] /\ nStatus' = Marked({tip}, "failed_child")
    BY <1>5 DEF InvalidateTip, Active
  <2>2. \A b \in Block : b # tip => (Failed(b)' <=> Failed(b))
    BY <2>1 DEF Failed, Marked
  <2>3. \A b : Leaving(b)' <=> Leaving(b)
    BY <1>3 DEF Leaving
  <2>4. Leaving(tip)
    BY <2>1 DEF Leaving
  <2>5. \A b \in Chain[tip'] \cup Chain[coinsTip'] : Failed(b)' => Leaving(b)'
    BY <1>1, <1>2, <2>2, <2>3, <2>4 DEF ChainsClean
  <2>6. \A u \in Threads : pc'[u] # "reorg"
    BY <1>3, <2>1 DEF State, ThreadsInv, Held
  <2>7. used'["invalidate"] # 0
    BY <1>3, <2>1 DEF State, ThreadsInv
  <2> QED BY <2>5, <2>6, <2>7 DEF ChainsClean
<1> QED BY <1>4, <1>5 DEF ReorgDisconnect, ReprocessDisconnect, DisconnectTip, WriteIndex

(* Unless an InvalidateBlock was cut short, every step keeps the chain clean. *)
LEMMA CleanStep ==
  ASSUME State, ChainsClean, NotCutShort', [Next]_vars
  PROVE  ChainsClean'
<1>0. /\ TypeOK /\ ThreadsInv /\ nStatus \in [Block -> SUBSET Flags] /\ pc \in [Threads -> PCs]
      /\ tip \in Block /\ coinsTip \in Block /\ tip \in chainTx /\ coinsTip \in chainTx
  BY DEF State, TypeOK, TipsInv
<1>n. used["invalidate"] \in Nat /\ used'["invalidate"] \in Nat /\ used["invalidate"] <= used'["invalidate"]
  BY TypeStep, UsedGrows DEF TypeOK, State, Operations
<1>h. \A u, v \in Threads : Held(u) /\ Held(v) => u = v
  BY <1>0 DEF ThreadsInv
<1>1. ASSUME NEW b \in Block \ {Genesis}, AcceptHeader(b) PROVE ChainsClean'
  <2>1. \A u \in Threads : pc[u] # "invalidate" /\ pc'[u] # "reorg"
    BY <1>0, <1>1 DEF AcceptHeader, Goto, Unlocked
  <2>2. \A x \in Block : Failed(x)' => Failed(x)
    BY <1>0, <1>1 DEF AcceptHeader, Marked, Failed, FailedMask
  <2>3. UNCHANGED <<tip, coinsTip, diskStatus, diskTip>>
    BY <1>1 DEF AcceptHeader
  <2> QED BY <1>0, <1>n, <2>1, <2>2, <2>3, CleanKept, ChainContains
<1>2. ASSUME NEW t \in Threads, NEW b \in Block \ {Genesis}, CheckNewBlock(t, b) PROVE ChainsClean'
  <2>1. \A u \in Threads : /\ pc[u] = "invalidate" => pc'[u] = "invalidate"
                           /\ pc'[u] = "reorg" => pc[u] = "reorg"
    BY <1>0, <1>2 DEF CheckNewBlock, Goto
  <2>2. UNCHANGED <<nStatus, tip, coinsTip, diskStatus, diskTip, target, mostWork>>
    BY <1>2 DEF CheckNewBlock
  <2> QED BY <1>0, <1>n, <2>1, <2>2, CleanKept DEF Failed
<1>3. ASSUME NEW t \in Threads, NEW b \in Block \ {Genesis}, InvalidateBlock(t, b) PROVE ChainsClean'
  <2>1. /\ Unlocked /\ pc' = [pc EXCEPT ![t] = "invalidate"] /\ target' = b
        /\ nStatus' = Marked({b}, "failed_valid")
        /\ UNCHANGED <<tip, coinsTip, diskStatus, diskTip>>
    BY <1>3 DEF InvalidateBlock, Goto
  <2>2. \A x \in Block : x # b => (Failed(x)' <=> Failed(x))
    BY <2>1 DEF Failed, Marked
  <2>3. \A x : ~Leaving(x)
    BY <2>1, NothingLeaves
  <2>4. Leaving(b)'
    <3>1. b \in Chain[b]
      BY ChainContains
    <3> QED BY <1>0, <2>1, <3>1 DEF Leaving
  <2>5. \A x \in Chain[tip'] \cup Chain[coinsTip'] : Failed(x)' => Leaving(x)'
    BY <1>0, <2>1, <2>2, <2>3, <2>4, ChainContains DEF ChainsClean
  <2>6. \A u \in Threads : pc'[u] # "reorg"
    BY <1>0, <2>1 DEF Unlocked
  <2>7. used'["invalidate"] # 0
    BY <1>0, <1>3 DEF InvalidateBlock, Use, Operations, TypeOK
  <2> QED BY <2>5, <2>6, <2>7 DEF ChainsClean
<1>4. ASSUME NEW t \in Threads, NEW b \in Block \ {Genesis}, ReconsiderBlock(t, b) PROVE ChainsClean'
  <2>1. \A u \in Threads : pc[u] # "invalidate" /\ pc'[u] # "reorg"
    BY <1>0, <1>4 DEF ReconsiderBlock, Goto, Unlocked
  <2>2. \A x \in Block : Failed(x)' => Failed(x)
    BY <1>4, ReconsiderClears DEF ReconsiderBlock, Failed
  <2>3. UNCHANGED <<tip, coinsTip, diskStatus, diskTip>>
    BY <1>4, ReconsiderClears DEF ReconsiderBlock
  <2> QED BY <1>0, <1>n, <2>1, <2>2, <2>3, CleanKept, ChainContains
<1>5. ASSUME NEW t \in Threads, ReprocessBlocks(t) PROVE ChainsClean'
  <2>1. \A u \in Threads : /\ pc[u] = "invalidate" => pc'[u] = "invalidate"
                           /\ pc'[u] = "reorg" => pc[u] = "reorg"
    BY <1>0, <1>5 DEF ReprocessBlocks, Goto
  <2>2. UNCHANGED <<nStatus, tip, coinsTip, diskStatus, diskTip, target, mostWork>>
    BY <1>5 DEF ReprocessBlocks
  <2> QED BY <1>0, <1>n, <2>1, <2>2, CleanKept DEF Failed
<1>6. ASSUME NEW t \in Threads, AcceptBlock(t) PROVE ChainsClean'
  <2> DEFINE b == pblock[t]
  <2>1. b \in Block
    BY <1>6 DEF AcceptBlock, State, ThreadsInv
  <2>2. \A u \in Threads : pc[u] # "invalidate" /\ pc'[u] # "reorg"
    BY <1>0, <1>6 DEF AcceptBlock, Goto, Unlocked
  <2>3. UNCHANGED <<tip, coinsTip, diskStatus, diskTip>>
    BY <1>6 DEF AcceptBlock
  <2>4. \/ nStatus' = nStatus
        \/ nStatus' = [nStatus EXCEPT ![b] = @ \cup {"tree", "failed_valid"}] /\ ~HasData(b)
        \/ nStatus' = [nStatus EXCEPT ![b] = @ \cup {"tree", "data"}]
    BY <1>6 DEF AcceptBlock, ReceivedBlockTransactions
  <2>5. \A x \in Block : Failed(x)' => Failed(x) \/ (x = b /\ ~HasData(b))
    <3> HIDE DEF b
    <3> QED BY <1>0, <2>1, <2>4 DEF Failed, FailedMask
  <2>6. \A x \in Chain[tip] \cup Chain[coinsTip] : HasData(x) /\ x \in Block
    BY <1>0, ChainContains DEF State, LinksInv, NothingMissing
  <2>7. \A x \in Chain[tip] \cup Chain[coinsTip] : Failed(x)' => Failed(x)
    BY <2>5, <2>6
  <2> QED BY <1>0, <1>n, <2>2, <2>3, <2>7, CleanKept
<1>7. ASSUME NEW t \in Threads, Activate(t) PROVE ChainsClean'
  <2>1. PICK M \in SUBSET Block :
          /\ nStatus' = Marked(M, "failed_child")
          /\ \A y \in M : \E x \in Chain[y] \ Chain[tip] : Failed(x)
    BY <1>7, ActivateMarks
  <2>2. Unlocked /\ coinsTip = tip /\ UNCHANGED <<tip, coinsTip, diskStatus, diskTip, used>>
    BY <1>7, FreeMeansAtRest DEF Activate
  <2>3. \A x \in Chain[tip] : ~Failed(x)
    BY <2>2, NothingLeaves DEF ChainsClean
  <2>4. \A x \in Block : Failed(x)' => Failed(x) \/ x \in M
    BY <1>0, <2>1 DEF Failed, Marked
  <2>5. \A x \in Chain[tip] : ~Failed(x)' /\ x \in Block
    <3>1. \A x \in Chain[tip] : x \in Block /\ Chain[x] \subseteq Chain[tip]
      BY <1>0, ChainContains, ChainTransitive
    <3> QED BY <2>1, <2>3, <2>4, <3>1
  <2>6. ASSUME NEW u \in Threads, pc'[u] = "reorg", NEW x \in Chain[mostWork'[u]]
        PROVE  ~Failed(x)'
    <3>1. pc[u] # "reorg"
      BY <2>2 DEF Unlocked
    <3>2. PICK best \in candidates : /\ mostWork' = [mostWork EXCEPT ![t] = best]
                                     /\ \A y \in Chain[best] \ Chain[tip] : ~Failed(y)
      BY <1>0, <2>6, <3>1, <1>7, ActivateMarks
    <3>3. u = t
      BY <1>0, <2>6, <3>1, <1>7, ActivateMarks
    <3>4. mostWork'[u] = best /\ best \in Block
      BY <1>0, <3>2, <3>3 DEF TypeOK
    <3>5. \A y \in Chain[best] : ~Failed(y) /\ y \in Block /\ Chain[y] \subseteq Chain[best]
      BY <2>3, <3>2, <3>4, ChainContains, ChainTransitive
    <3> QED BY <2>1, <2>4, <2>6, <3>4, <3>5
  <2> QED BY <2>2, <2>5, <2>6 DEF ChainsClean
<1>8. ASSUME NEW t \in Threads, ReorgDisconnect(t) PROVE ChainsClean'
  BY <1>8, CleanDisconnect
<1>9. ASSUME NEW t \in Threads, ConnectTip(t) PROVE ChainsClean'
  <2> DEFINE b == NextBlock(t)
  <2>1. /\ b \in Block /\ b \in Chain[mostWork[t]] /\ Chain[b] = Chain[tip] \cup {b}
        /\ coinsTip = tip /\ mostWork[t] \in Block /\ pc[t] = "reorg" /\ Held(t)
    BY <1>9, ConnectsTheNext DEF ConnectTip, AtConnect
  <2>2. /\ nStatus' = Marked({b}, "scripts") /\ coinsTip' = b /\ tip' \in {tip, b}
        /\ diskTip' = diskTip /\ UNCHANGED <<mostWork, used>>
        /\ \/ diskStatus' = diskStatus
           \/ \E D : diskStatus' = [x \in Block |-> IF x \in D THEN nStatus'[x] ELSE diskStatus[x]]
    BY <1>9 DEF ConnectTip, Connected, WriteIndex
  <2> HIDE DEF b
  <2>3. \A x \in Block : Failed(x)' <=> Failed(x)
    BY <1>0, <2>1, <2>2 DEF Failed, Marked, FailedMask
  <2>4. \A x \in Chain[tip] : ~Failed(x) /\ x \in Block
    BY <1>0, <2>1, NothingLeaves, ChainContains DEF ChainsClean
  <2>5. ~Failed(b)
    BY <2>1 DEF ChainsClean
  <2>6. \A x \in Chain[tip'] \cup Chain[coinsTip'] : ~Failed(x)'
    BY <2>1, <2>2, <2>3, <2>4, <2>5
  <2>7. \A u \in Threads : pc'[u] = "reorg" => u = t
    BY <1>0, <1>h, <2>1, <1>9 DEF ConnectTip, Connected, Goto, Held
  <2>8. \A u \in Threads : pc'[u] = "reorg" => \A x \in Chain[mostWork'[u]] : ~Failed(x)'
    BY <2>1, <2>2, <2>3, <2>7, ChainContains DEF ChainsClean
  <2>9. used'["invalidate"] = 0 => \A x \in Chain[diskTip'] : diskStatus'[x] \cap FailedMask = {}
    <3>1. Chain[diskTip] \subseteq Chain[tip]
      BY <1>0, ChainTransitive DEF State, TipsInv
    <3>2. \A x \in Chain[diskTip] : nStatus'[x] \cap FailedMask = {} /\ x \in Block
      BY <2>3, <2>4, <3>1 DEF Failed
    <3> QED BY <2>2, <3>2 DEF ChainsClean
  <2> QED BY <2>6, <2>8, <2>9 DEF ChainsClean
<1>10. ASSUME NEW t \in Threads, ConnectFails(t) PROVE ChainsClean'
  <2> DEFINE b == NextBlock(t)
  <2>1. b \in Block /\ b \notin Chain[tip] /\ coinsTip = tip /\ pc[t] = "reorg" /\ Held(t)
    BY <1>10, ConnectsTheNext DEF ConnectFails, AtConnect
  <2>2. /\ nStatus' = Marked({b}, "failed_valid") /\ pc' = [pc EXCEPT ![t] = "released"]
        /\ UNCHANGED <<tip, coinsTip, diskStatus, diskTip, used, target>>
    BY <1>10 DEF ConnectFails, InvalidBlockFound, Goto
  <2> HIDE DEF b
  <2>3. \A x \in Chain[tip] \cup Chain[coinsTip] : Failed(x)' => Failed(x)
    BY <1>0, <2>1, <2>2, ChainContains DEF Failed, Marked
  <2>4. \A u \in Threads : pc[u] # "invalidate" /\ pc'[u] # "reorg"
    BY <1>0, <1>h, <2>1, <2>2 DEF Held
  <2> QED BY <1>n, <2>2, <2>3, <2>4, CleanKept
<1>11. ASSUME NEW t \in Threads, WriteCoins(t) PROVE ChainsClean'
  <2>1. /\ UNCHANGED <<nStatus, diskStatus, coinsTip, used, target, mostWork>>
        /\ diskTip' = coinsTip /\ writing # "none" /\ Held(t)
    BY <1>11 DEF WriteCoins, Held
  <2>2. tip' = coinsTip
    BY <1>0, <1>11 DEF WriteCoins, Connected, State, TipsInv
  <2>3. \A u \in Threads : pc[u] = "invalidate" => pc'[u] = "invalidate"
    <3>1. \A u \in Threads : u # t => pc'[u] = pc[u]
      BY <1>0, <1>11 DEF WriteCoins, Connected, Goto
    <3>2. pc[t] = "invalidate" => writing = "disconnect"
      BY <1>0, <2>1 DEF ThreadsInv
    <3>3. writing = "disconnect" => pc' = pc
      BY <1>11 DEF WriteCoins
    <3> QED BY <3>1, <3>2, <3>3
  <2>4. \A u \in Threads : pc'[u] = "reorg" => pc[u] = "reorg"
    BY <1>0, <1>11 DEF WriteCoins, Connected, Goto
  <2>5. \A x : Leaving(x) => Leaving(x)'
    BY <2>1, <2>3 DEF Leaving
  <2>6. \A x \in Chain[tip'] \cup Chain[coinsTip'] : Failed(x)' => Leaving(x)'
    BY <2>1, <2>2, <2>5 DEF ChainsClean, Failed
  <2>7. \A u \in Threads : pc'[u] = "reorg" => \A x \in Chain[mostWork'[u]] : ~Failed(x)'
    BY <2>1, <2>4 DEF ChainsClean, Failed
  <2>8. used'["invalidate"] = 0 => \A x \in Chain[diskTip'] : diskStatus'[x] \cap FailedMask = {}
    <3>1. dirty = {}
      BY <2>1 DEF State, DiskInv
    <3>2. \A x \in Block : diskStatus[x] \subseteq nStatus[x]
      BY <3>1 DEF State, DiskInv
    <3>3. used["invalidate"] = 0 => \A x \in Chain[coinsTip] : ~Failed(x)
      BY NothingLeaves DEF ChainsClean
    <3> QED BY <1>0, <2>1, <3>2, <3>3, ChainContains DEF Failed
  <2> QED BY <2>6, <2>7, <2>8 DEF ChainsClean
<1>12. ASSUME NEW t \in Threads, Released(t) PROVE ChainsClean'
  <2>1. \A u \in Threads : /\ pc[u] = "invalidate" => pc'[u] = "invalidate"
                           /\ pc'[u] = "reorg" => pc[u] = "reorg" /\ mostWork'[u] = mostWork[u]
    BY <1>0, <1>12 DEF Released, Repeat, Goto, TypeOK
  <2>2. UNCHANGED <<nStatus, tip, coinsTip, diskStatus, diskTip, target>>
    BY <1>12 DEF Released
  <2> QED BY <1>0, <1>n, <2>1, <2>2, CleanKept DEF Failed
<1>13. ASSUME NEW t \in Threads, Finish(t) PROVE ChainsClean'
  <2>1. /\ Unlocked /\ UNCHANGED <<nStatus, tip, coinsTip, diskTip, used>> /\ coinsTip = tip
        /\ \/ diskStatus' = diskStatus
           \/ \E D : diskStatus' = [x \in Block |-> IF x \in D THEN nStatus[x] ELSE diskStatus[x]]
    BY <1>13, FreeMeansAtRest DEF Finish, WriteIndex
  <2>2. \A x \in Chain[tip] : ~Failed(x) /\ x \in Block
    BY <1>0, <2>1, NothingLeaves, ChainContains DEF ChainsClean
  <2>3. Chain[diskTip] \subseteq Chain[tip]
    BY <1>0, ChainTransitive DEF State, TipsInv
  <2>4. used'["invalidate"] = 0 => \A x \in Chain[diskTip'] : diskStatus'[x] \cap FailedMask = {}
    BY <2>1, <2>2, <2>3 DEF ChainsClean, Failed
  <2>5. \A u \in Threads : pc'[u] # "reorg"
    BY <1>0, <1>13 DEF Finish, Goto, Unlocked
  <2> QED BY <2>1, <2>2, <2>4, <2>5 DEF ChainsClean, Failed
<1>14. ASSUME NEW t \in Threads, InvalidateTip(t) PROVE ChainsClean'
  BY <1>14, CleanDisconnect
<1>15. ASSUME NEW t \in Threads, InvalidateEnd(t) PROVE ChainsClean'
  <2>1. /\ pc[t] = "invalidate" /\ Held(t) /\ writing = "none" /\ target \notin Chain[tip]
        /\ UNCHANGED <<nStatus, tip, coinsTip, diskStatus, diskTip, used>>
        /\ pc' = [pc EXCEPT ![t] = "activate"]
    BY <1>15 DEF InvalidateEnd, Goto, Active, Held
  <2>2. coinsTip = tip
    BY <2>1 DEF State, TipsInv
  <2>3. \A x \in Chain[tip] : ~Leaving(x)
    BY <1>0, <2>1, ChainTransitive DEF Leaving
  <2>4. \A x \in Chain[tip] : ~Failed(x)
    BY <2>3 DEF ChainsClean
  <2>5. \A u \in Threads : pc'[u] # "reorg"
    BY <1>0, <1>h, <2>1 DEF Held
  <2> QED BY <2>1, <2>2, <2>4, <2>5 DEF ChainsClean, Failed
<1>16. ASSUME NEW t \in Threads, ReprocessReconsider(t) PROVE ChainsClean'
  <2>1. PICK b \in pending[t] : Reconsider(b)
    BY <1>16 DEF ReprocessReconsider
  <2>2. b \in Block
    BY <1>0 DEF TypeOK
  <2>3. \A u \in Threads : pc[u] # "invalidate" /\ pc'[u] # "reorg"
    BY <1>0, <1>16 DEF ReprocessReconsider, Unlocked
  <2>4. \A x \in Block : Failed(x)' => Failed(x)
    BY <2>1, <2>2, ReconsiderClears DEF Failed
  <2>5. UNCHANGED <<tip, coinsTip, diskStatus, diskTip>>
    BY <2>1, <2>2, ReconsiderClears
  <2> QED BY <1>0, <1>n, <2>3, <2>4, <2>5, CleanKept, ChainContains
<1>17. ASSUME NEW t \in Threads, ReprocessStart(t) PROVE ChainsClean'
  BY <1>0, <1>n, <1>17, CleanKept DEF ReprocessStart, Goto, Failed
<1>18. ASSUME NEW t \in Threads, ReprocessDisconnect(t) PROVE ChainsClean'
  BY <1>18, CleanDisconnect
<1>19. ASSUME NEW t \in Threads, ReprocessEnd(t) PROVE ChainsClean'
  BY <1>0, <1>n, <1>19, CleanKept DEF ReprocessEnd, Goto, Failed
<1>20. ASSUME NEW b \in Contestable, Contest(b) \/ Settle(b) PROVE ChainsClean'
  BY <1>n, <1>20, CleanKept DEF Contest, Settle, Failed
<1>21. ASSUME NEW t \in Threads, CrashAndRestart(t) PROVE ChainsClean'
  <2>1. /\ nStatus' = diskStatus /\ tip' = diskTip /\ coinsTip' = diskTip
        /\ UNCHANGED <<diskStatus, diskTip>>
        /\ \A u \in Threads : pc'[u] # "reorg"
    BY <1>21 DEF CrashAndRestart
  <2>2. used' = [used EXCEPT !["crash"] = @ + 1]
    BY <1>21 DEF CrashAndRestart, Use
  <2>3. used'["crash"] # 0 /\ used'["invalidate"] = used["invalidate"]
    BY <1>0, <2>2 DEF TypeOK, Operations
  <2>4. used["invalidate"] = 0
    BY <2>3 DEF NotCutShort
  <2> QED BY <2>1, <2>4 DEF ChainsClean, Failed
<1>22. CASE UNCHANGED vars
  BY <1>n, <1>22, CleanKept DEF vars, Failed
<1> QED BY <1>1, <1>2, <1>3, <1>4, <1>5, <1>6, <1>7, <1>8, <1>9, <1>10,
           <1>11, <1>12, <1>13, <1>14, <1>15, <1>16, <1>17, <1>18, <1>19,
           <1>20, <1>21, <1>22 DEF Next, ThreadStep

(* Every step keeps what ActiveCorrect rests on. *)
LEMMA ActiveStep ==
  ASSUME State, ActiveInv, [Next]_vars
  PROVE  ActiveInv'
<1> SUFFICES ASSUME NotCutShort' PROVE ChainsClean'
  BY DEF ActiveInv
<1>1. /\ used["invalidate"] \in Nat /\ used["crash"] \in Nat
      /\ used["invalidate"] <= used'["invalidate"] /\ used["crash"] <= used'["crash"]
  BY UsedGrows DEF State, TypeOK, Operations
<1>2. NotCutShort
  BY <1>1 DEF NotCutShort
<1> QED BY <1>2, CleanStep DEF ActiveInv

-----------------------------------------------------------------------------
(* The invariant holds in every behaviour of the specification. *)
THEOREM Invariance == Spec => []IInv
<1>1. IInv /\ [Next]_vars => IInv'
  BY StateStep, FailuresStep, ActiveStep DEF IInv
<1> QED BY <1>1, InitOK, PTL DEF Spec

(***************************************************************************)
(* The variables of main.cpp keep their types: DisconnectTip never takes   *)
(* the genesis block away, ActivateBestChainStep always finds a next block *)
(* to connect, and FindMostWorkChain returns a block or NULL.              *)
(***************************************************************************)
THEOREM TypeCorrect == Spec => []TypeOK
<1>1. IInv => TypeOK
  BY DEF IInv, State
<1> QED BY <1>1, Invariance, PTL

(***************************************************************************)
(* nChainTx is set exactly on the blocks with all their ancestors, however *)
(* headers, blocks and crashes follow each other (AcceptBlock,             *)
(* ReceivedBlockTransactions, LoadBlockIndexDB).                           *)
(***************************************************************************)
THEOREM LinksCorrect == Spec => []LinksExact
<1>1. IInv => LinksExact
  BY DEF IInv, State, LinksInv, LinksExact
<1> QED BY <1>1, Invariance, PTL

(***************************************************************************)
(* setBlockIndexCandidates holds only linked blocks that do not sort below *)
(* the tip: what CheckBlockIndex and FindMostWorkChain assert of it.       *)
(***************************************************************************)
THEOREM CandidatesCorrect == Spec => []CandidatesSound
<1>1. IInv => CandidatesSound
  BY DEF IInv, State, CandInv, CandidatesSound
<1> QED BY <1>1, Invariance, PTL

(***************************************************************************)
(* Whenever the process dies, LoadBlockIndexDB finds an index that is      *)
(* closed under pprev and holds the checked chain of the coins: the order  *)
(* in which FlushStateToDisk writes is enough.                             *)
(***************************************************************************)
THEOREM DiskCorrect == Spec => []DiskLoadable
<1>1. IInv => DiskLoadable
  BY DEF IInv, State, DiskInv
<1> QED BY <1>1, Invariance, PTL

(***************************************************************************)
(* As long as ReconsiderBlock was not called, by RPC or by ReprocessBlocks, *)
(* no block is marked failed without a block that failed in its chain.     *)
(***************************************************************************)
THEOREM FailuresCorrect == Spec => [](NothingReconsidered => FailuresExplained)
<1>1. IInv => (NothingReconsidered => FailuresExplained)
  BY DEF IInv, FailuresInv, MarksInv, Explained, FailuresExplained, Failed, NothingInvalid
<1> QED BY <1>1, Invariance, PTL

(***************************************************************************)
(* The active chain has its data, was checked block by block and has no    *)
(* failed block, after any reorganisation and any crash, unless a crash    *)
(* could fall into an InvalidateBlock.                                     *)
(***************************************************************************)
THEOREM ActiveCorrect == Spec => [](NotCutShort => ActiveChainValid)
<1>1. ASSUME IInv, NotCutShort, Unlocked
      PROVE  /\ coinsTip = tip
             /\ \A b \in Chain[tip] : HasData(b) /\ ~Failed(b)
             /\ \A b \in Chain[tip] \ {Genesis} : "scripts" \in nStatus[b]
  <2>1. State /\ coinsTip = tip
    BY <1>1, FreeMeansAtRest DEF IInv
  <2>2. \A b \in Chain[tip] : ~Failed(b)
    BY <1>1, <2>1, NothingLeaves DEF IInv, ActiveInv, ChainsClean
  <2>3. tip \in chainTx /\ Checked(tip)
    BY <2>1 DEF State, TipsInv
  <2> QED BY <2>1, <2>2, <2>3 DEF State, LinksInv, NothingMissing, Checked
<1>2. IInv => (NotCutShort => ActiveChainValid)
  BY <1>1 DEF ActiveChainValid, Active
<1> QED BY <1>2, Invariance, PTL
-----------------------------------------------------------------------------
(***************************************************************************)
(* No block is forgotten.                                                  *)
(*                                                                         *)
(* setBlockIndexCandidates is not complete while a chain is activated: the *)
(* tip goes down past blocks that were erased when it was higher, and a    *)
(* reorganisation that fails leaves it there.  What it always holds is an  *)
(* anchor: a chain that was connected before and can be again, that is no  *)
(* worse than the tip, and above which nothing is missing.  The thread that *)
(* left the tip below the anchor is still at work and returns to it.       *)
(***************************************************************************)

(* No failure mark was taken away, no InvalidateBlock was cut short, and no  *)
(* lock is in conflict with a block that was connected before: section 9   *)
(* of the README shows what happens otherwise.                             *)
Undisturbed ==
  /\ NothingReconsidered
  /\ NotCutShort
  /\ \A b \in contested : "scripts" \notin nStatus[b]

\* The blocks that may become the tip, as far as the node knows.
Eligible == {b \in chainTx : NothingInvalid(b)}
CleanChain(b) == \A x \in Chain[b] : ~Failed(x)
NoneBeats(m) == \A b \in Eligible : ~SortsBefore(m, b, nSequenceId)

Anchor(w) ==
  /\ w \in candidates
  /\ CleanChain(w) /\ Checked(w)
  /\ ~SortsBefore(w, tip, nSequenceId)
  /\ \A b \in Eligible : ~SortsBefore(b, w, nSequenceId) => b \in candidates

\* t will look for the best chain once more.
Working(t) == \/ pc[t] \in {"activate", "reorg", "invalidate"}
              \/ pc[t] = "released" /\ mostWork[t] # tip
Busy == \E t \in Threads : Working(t)
Invalidating == \E t \in Threads : pc[t] = "invalidate"

BestInv ==
  /\ \A b \in Invalid : "scripts" \notin nStatus[b]
  /\ Invalidating \/ \E w \in candidates : Anchor(w) /\ (Busy \/ w = tip)
  /\ \A t \in Threads : pc[t] = "reorg" => NoneBeats(mostWork[t])
  /\ Busy \/ NoneBeats(tip)

(* Where marks are explained, a chain without a block that failed itself    *)
(* has no mark at all.                                                     *)
LEMMA CleanFlags ==
  ASSUME NEW flags, Explained(flags), NEW b \in Block,
         \A x \in Chain[b] : "failed_valid" \notin flags[x]
  PROVE  \A x \in Chain[b] : flags[x] \cap FailedMask = {}
<1>1. ASSUME NEW x \in Chain[b], flags[x] \cap FailedMask # {} PROVE FALSE
  <2>1. x \in Block /\ Chain[x] \subseteq Chain[b]
    BY ChainContains, ChainTransitive
  <2>2. PICK y \in Chain[x] : "failed_valid" \in flags[y]
    BY <1>1, <2>1 DEF Explained
  <2> QED BY <2>1, <2>2
<1> QED BY <1>1

(* A block is eligible if its chain has no mark at all. *)
LEMMA EligibleIsClean ==
  ASSUME Explained(nStatus), NEW b \in Block
  PROVE  NothingInvalid(b) <=> CleanChain(b)
BY CleanFlags DEF NothingInvalid, CleanChain, Failed, FailedMask

(* A step that changes neither candidates nor marks, and lets no thread     *)
(* go that is at work, keeps BestInv.                                      *)
LEMMA BestKept ==
  ASSUME State, BestInv, UNCHANGED <<chainTx, nSequenceId, tip, candidates>>,
         \A b \in Block :
           /\ Failed(b)' <=> Failed(b)
           /\ "failed_valid" \in nStatus'[b] <=> "failed_valid" \in nStatus[b]
           /\ "scripts" \in nStatus[b] => "scripts" \in nStatus'[b],
         \A b \in Invalid : "scripts" \in nStatus'[b] => "scripts" \in nStatus[b],
         \A t \in Threads :
           /\ Working(t) => Working(t)'
           /\ pc'[t] = "reorg" => pc[t] = "reorg" /\ mostWork'[t] = mostWork[t]
           /\ pc[t] = "invalidate" => pc'[t] = "invalidate"
  PROVE  BestInv'
<1>1. chainTx \subseteq Block /\ candidates \subseteq Block
  BY DEF State, TypeOK
<1>2. Eligible' = Eligible
  BY <1>1, ChainContains DEF Eligible, NothingInvalid
<1>3. (Busy => Busy') /\ (Invalidating => Invalidating')
  BY DEF Busy, Invalidating
<1>4. ASSUME NEW w \in candidates, Anchor(w) PROVE Anchor(w)'
  <2>1. \A x \in Chain[w] : x \in Block
    BY <1>1, ChainContains
  <2>2. CleanChain(w)' /\ Checked(w)'
    BY <1>4, <2>1 DEF Anchor, CleanChain, Checked
  <2> QED BY <1>2, <1>4, <2>2 DEF Anchor
<1>5. (Invalidating \/ \E w \in candidates : Anchor(w) /\ (Busy \/ w = tip))'
  BY <1>3, <1>4 DEF BestInv
<1>6. (\A t \in Threads : pc[t] = "reorg" => NoneBeats(mostWork[t]))'
  BY <1>2 DEF BestInv, NoneBeats
<1>7. (Busy \/ NoneBeats(tip))'
  BY <1>2, <1>3 DEF BestInv, NoneBeats
<1> QED BY <1>5, <1>6, <1>7 DEF BestInv
(* FindMostWorkChain drops no candidate whose chain is clean, and chooses   *)
(* one that none of those beats.                                           *)
LEMMA ActivateChooses ==
  ASSUME State, NEW t \in Threads, Activate(t)
  PROVE  /\ \A c \in candidates : CleanChain(c) => c \in candidates'
         /\ \A c \in candidates : CleanChain(c) =>
              \/ pc' = [pc EXCEPT ![t] = "idle"] /\ ~SortsBefore(tip, c, nSequenceId)
              \/ pc' = [pc EXCEPT ![t] = "reorg"] /\ ~SortsBefore(mostWork'[t], c, nSequenceId)
<1> DEFINE usable   == {c \in candidates : \A x \in Branch(c) : ~Unusable(x)}
           dropped  == {c \in candidates \ usable : \A u \in usable : Better(c, u)}
           bad(c)   == {x \in Branch(c) : Unusable(x)}
           culprit(c) == Highest(bad(c))
           above(c) == {x \in Chain[c] : Height[x] > Height[culprit(c)]}
           best     == CHOOSE c \in usable : \A u \in usable \ {c} : Better(c, u)
<1>1. /\ candidates' = candidates \ UNION {above(c) \cup {culprit(c)} : c \in dropped}
      /\ IF usable = {} \/ best = tip
         THEN pc' = [pc EXCEPT ![t] = "idle"]
         ELSE /\ pc' = [pc EXCEPT ![t] = "reorg"]
              /\ mostWork' = [mostWork EXCEPT ![t] = best]
  BY DEF Activate, Goto
<1>2. candidates \subseteq Block /\ candidates \subseteq chainTx /\ nSequenceId \in [Block -> Nat]
      /\ mostWork \in [Threads -> Block \cup {none}]
  BY DEF State, TypeOK, CandInv
<1>3. ASSUME NEW c \in dropped
      PROVE  culprit(c) \in Chain[c] /\ Failed(culprit(c)) /\ c \in Block
  <2>1. bad(c) \in SUBSET Chain[c] /\ bad(c) # {} /\ c \in Block
    BY <1>2 DEF Branch
  <2>2. Highest(bad(c)) \in bad(c)
    <3> HIDE DEF bad
    <3> QED BY <2>1, HighestIsOne
  <2>3. \A x \in Chain[c] : HasData(x)
    BY <1>2 DEF State, LinksInv, NothingMissing
  <2> QED BY <2>1, <2>2, <2>3 DEF Branch, Unusable
<1>4. ASSUME NEW c \in dropped, NEW y \in above(c) \cup {culprit(c)}
      PROVE  ~CleanChain(y)
  <2>1. culprit(c) \in Chain[c] /\ Failed(culprit(c)) /\ c \in Block
    <3> HIDE DEF culprit
    <3> QED BY <1>3
  <2>2. culprit(c) \in Chain[y]
    <3>1. y \in Chain[c] /\ Height[culprit(c)] <= Height[y]
      <4> HIDE DEF culprit
      <4>1. Height[culprit(c)] \in Nat
        BY <2>1, ChainContains, HeightType
      <4>2. \A x \in Chain[c] : Height[x] \in Nat
        BY <2>1, ChainContains, HeightType
      <4> QED BY <1>4, <2>1, <4>1, <4>2
    <3> HIDE DEF culprit
    <3> QED BY <2>1, <3>1, ChainBelow
  <2> HIDE DEF culprit
  <2> QED BY <2>1, <2>2 DEF CleanChain
<1>5. ASSUME NEW c \in candidates, CleanChain(c) PROVE c \in candidates' /\ c \in usable
  <2>1. c \in usable
    <3>1. \A x \in Chain[c] : HasData(x)
      BY <1>2 DEF State, LinksInv, NothingMissing
    <3> QED BY <1>5, <3>1 DEF Branch, Unusable, CleanChain
  <2> HIDE DEF dropped, above, culprit, usable
  <2> QED BY <1>1, <1>4, <1>5, <2>1
<1>6. ASSUME NEW c \in usable PROVE best \in usable /\ ~SortsBefore(best, c, nSequenceId)
  <2>1. usable \in SUBSET Block
    BY <1>2
  <2> HIDE DEF usable
  <2>2. \E b \in usable : \A u \in usable \ {b} : Better(b, u)
    BY <1>2, <1>6, <2>1, BestExists DEF Better
  <2>3. best \in usable /\ \A u \in usable \ {best} : SortsBefore(u, best, nSequenceId)
    BY <2>2 DEF Better
  <2> HIDE DEF best
  <2>4. ~SortsBefore(best, best, nSequenceId)
    BY <1>2, <2>1, <2>3, SortsStrictly
  <2> QED BY <1>2, <1>6, <2>1, <2>3, <2>4, SortsStrictly
<1> HIDE DEF usable, best, dropped, above, culprit
<1> QED BY <1>1, <1>2, <1>5, <1>6
(* Whoever is inside a reorganisation or an invalidation is there alone. *)
LEMMA AloneInside ==
  ASSUME State, NEW t \in Threads, Unlocked \/ Held(t)
  PROVE  /\ \A u \in Threads : pc[u] = "reorg" => u = t /\ ~Unlocked
         /\ Invalidating => pc[t] = "invalidate" /\ ~Unlocked
<1>1. \A u \in Threads : pc[u] \in {"reorg", "invalidate"} => Held(u) /\ ~Unlocked
  BY DEF Held, Unlocked
<1>2. \A u \in Threads : Held(u) /\ Held(t) => u = t
  BY DEF State, ThreadsInv
<1> QED BY <1>1, <1>2 DEF Invalidating

(* Activate keeps the anchor, sets out for the best chain there is, and     *)
(* stops only at it.                                                       *)
LEMMA ActivateBest ==
  ASSUME State, Explained(nStatus), BestInv, NEW t \in Threads, Activate(t)
  PROVE  BestInv'
<1>0. /\ TypeOK /\ candidates \subseteq Block /\ chainTx \subseteq Block /\ candidates \subseteq chainTx
      /\ tip \in Block /\ nSequenceId \in [Block -> Nat] /\ pc \in [Threads -> PCs]
  BY DEF State, TypeOK, CandInv
<1>1. /\ Unlocked /\ pc[t] = "activate"
      /\ UNCHANGED <<chainTx, nSequenceId, tip>>
  BY DEF Activate
<1>2. PICK M \in SUBSET Block :
        /\ nStatus' = Marked(M, "failed_child")
        /\ \A y \in M : \E x \in Chain[y] : Failed(x)
  BY ActivateMarks
<1>3. \A b \in Block : /\ "failed_valid" \in nStatus'[b] <=> "failed_valid" \in nStatus[b]
                       /\ "scripts" \in nStatus'[b] <=> "scripts" \in nStatus[b]
                       /\ Failed(b)' => Failed(b) \/ b \in M
  BY <1>2 DEF Marked, Failed, FailedMask
<1>4. Eligible' = Eligible
  BY <1>0, <1>1, <1>3, ChainContains DEF Eligible, NothingInvalid
<1>5. ~Invalidating /\ \A u \in Threads : pc[u] # "reorg"
  BY <1>1, AloneInside
<1>6. PICK w \in candidates : Anchor(w)
  BY <1>5 DEF BestInv
<1>7. \A b \in Eligible : CleanChain(b)
  BY <1>0, EligibleIsClean DEF Eligible
<1>8. ASSUME NEW b \in Block, CleanChain(b) PROVE CleanChain(b)'
  <2>1. ASSUME NEW x \in Chain[b] PROVE ~Failed(x)'
    <3>1. x \in Block /\ Chain[x] \subseteq Chain[b]
      BY ChainContains, ChainTransitive
    <3> QED BY <1>2, <1>3, <1>8, <3>1 DEF CleanChain
  <2> QED BY <2>1 DEF CleanChain
<1>9. Anchor(w)'
  <2>1. w \in candidates'
    BY <1>6, ActivateChooses DEF Anchor
  <2>2. CleanChain(w)' /\ Checked(w)'
    BY <1>0, <1>3, <1>6, <1>8, ChainContains DEF Anchor, Checked
  <2>3. \A b \in Eligible : ~SortsBefore(b, w, nSequenceId) => b \in candidates'
    BY <1>6, <1>7, ActivateChooses DEF Anchor
  <2> QED BY <1>1, <1>4, <1>6, <2>1, <2>2, <2>3 DEF Anchor
<1>10. \A b \in Invalid : "scripts" \notin nStatus'[b]
  BY <1>3, ChainAssumption DEF BestInv
<1>11. CASE pc' = [pc EXCEPT ![t] = "idle"] /\ ~SortsBefore(tip, w, nSequenceId)
  <2>1. w = tip
    BY <1>0, <1>6, <1>11, SortsTotally DEF Anchor
  <2>2. ASSUME NEW b \in Eligible, SortsBefore(tip, b, nSequenceId) PROVE FALSE
    <3>1. b \in Block
      BY <1>0 DEF Eligible
    <3>2. b \in candidates
      BY <1>0, <1>6, <2>1, <2>2, <3>1, SortsStrictly DEF Anchor
    <3>3. pc'[t] = "idle" /\ ~(pc' = [pc EXCEPT ![t] = "reorg"])
      BY <1>0, <1>11
    <3> QED BY <1>7, <2>2, <3>2, <3>3, ActivateChooses
  <2>3. NoneBeats(tip)'
    BY <1>1, <1>4, <2>2 DEF NoneBeats
  <2>4. \A u \in Threads : pc'[u] # "reorg"
    BY <1>0, <1>5, <1>11
  <2>5. w \in candidates' /\ w = tip'
    BY <1>1, <1>9, <2>1 DEF Anchor
  <2> QED BY <1>9, <1>10, <2>3, <2>4, <2>5 DEF BestInv
<1>12. CASE pc' = [pc EXCEPT ![t] = "reorg"] /\ ~SortsBefore(mostWork'[t], w, nSequenceId)
  <2>1. pc'[t] = "reorg" /\ ~(pc' = [pc EXCEPT ![t] = "idle"])
    BY <1>0, <1>12
  <2>2. mostWork'[t] \in Block
    BY <1>0, <2>1, ActivateMarks DEF TypeOK
  <2>3. ASSUME NEW b \in Eligible, SortsBefore(mostWork'[t], b, nSequenceId) PROVE FALSE
    <3>1. b \in Block /\ CleanChain(b) /\ w \in Block
      BY <1>0, <1>7 DEF Eligible
    <3>2. ~SortsBefore(b, w, nSequenceId)
      BY <1>0, <1>12, <2>2, <2>3, <3>1, SortsTransitively
    <3>3. b \in candidates
      BY <1>6, <3>2 DEF Anchor
    <3> QED BY <2>1, <2>3, <3>1, <3>3, ActivateChooses
  <2>4. (\A u \in Threads : pc[u] = "reorg" => NoneBeats(mostWork[u]))'
    <3>1. ASSUME NEW u \in Threads, pc'[u] = "reorg" PROVE u = t
      BY <1>0, <1>5, <1>12, <3>1
    <3> QED BY <1>1, <1>4, <2>3, <3>1 DEF NoneBeats
  <2>5. Busy'
    BY <2>1 DEF Busy, Working
  <2>6. w \in candidates'
    BY <1>9 DEF Anchor
  <2> QED BY <1>9, <1>10, <2>4, <2>5, <2>6 DEF BestInv
<1> QED BY <1>6, <1>11, <1>12, ActivateChooses DEF Anchor

(* A connected block that beats the anchor is the next one.                *)
LEMMA ConnectedBest ==
  ASSUME State, Explained(nStatus), BestInv, NEW t \in Threads, pc[t] = "reorg",
         NEW b \in Block, Connected(t, b), b \in chainTx, b \notin Invalid,
         CleanChain(b), Checked(b)', 
         \A x \in Block : /\ Failed(x)' <=> Failed(x)
                          /\ "failed_valid" \in nStatus'[x] <=> "failed_valid" \in nStatus[x]
                          /\ "scripts" \in nStatus[x] => "scripts" \in nStatus'[x],
         \A x \in Invalid : "scripts" \notin nStatus'[x],
         UNCHANGED <<chainTx, nSequenceId, mostWork>>
  PROVE  BestInv'
<1>0. /\ TypeOK /\ candidates \subseteq Block /\ chainTx \subseteq Block /\ candidates \subseteq chainTx
      /\ nSequenceId \in [Block -> Nat] /\ pc \in [Threads -> PCs]
  BY DEF State, TypeOK, CandInv
<1>1. /\ tip' = b
      /\ candidates' = {c \in candidates : ~SortsBefore(c, b, nSequenceId)}
      /\ IF b = mostWork[t] \/ Work[b] > Work[oldTip]
         THEN pc' = [pc EXCEPT ![t] = "released"]
         ELSE pc' = pc
  BY DEF Connected, Prune, Goto
<1>2. Held(t) /\ ~Invalidating
  <2>1. Held(t)
    BY DEF Held
  <2> QED BY <2>1, AloneInside
<1>3. \A u \in Threads : pc'[u] = "reorg" => pc[u] = "reorg"
  BY <1>0, <1>1
<1>4. Eligible' = Eligible
  BY <1>0, ChainContains DEF Eligible, NothingInvalid
<1>5. \A x \in Eligible : x \in Block /\ x \in chainTx
  BY <1>0 DEF Eligible
<1>6. PICK w \in candidates : Anchor(w)
  BY <1>2 DEF BestInv
<1>7. b \in Eligible /\ w \in Eligible
  BY <1>0, <1>6, EligibleIsClean DEF Eligible, Anchor
<1>8. ~SortsBefore(b, b, nSequenceId)
  BY <1>0, SortsStrictly
<1>9. ASSUME NEW v \in candidates, Anchor(v) \/ v = b, ~SortsBefore(v, b, nSequenceId),
             \A x \in Eligible : ~SortsBefore(x, v, nSequenceId) => x \in candidates
      PROVE  Anchor(v)' /\ v \in candidates'
  <2>1. v \in candidates' /\ v \in Block
    BY <1>0, <1>1, <1>9
  <2>2. CleanChain(v)' /\ Checked(v)'
    BY <1>0, <1>9, <2>1, ChainContains DEF Anchor, CleanChain, Checked
  <2>3. ASSUME NEW x \in Eligible, ~SortsBefore(x, v, nSequenceId) PROVE x \in candidates'
    <3>1. x \in candidates /\ x \in Block
      BY <1>9, <2>3, <1>5
    <3>2. ~SortsBefore(x, b, nSequenceId)
      <4>1. CASE v = b
        BY <2>3, <4>1
      <4>2. CASE v # b
        <5>1. SortsBefore(b, v, nSequenceId)
          BY <1>0, <1>9, <2>1, <4>2, SortsTotally
        <5> QED BY <1>0, <2>1, <2>3, <3>1, <5>1, SortsTransitively
      <4> QED BY <4>1, <4>2
    <3> QED BY <1>1, <3>1, <3>2
  <2> QED BY <1>1, <1>4, <1>9, <2>1, <2>2, <2>3 DEF Anchor
<1>10. PICK v \in candidates : Anchor(v)' /\ v \in candidates' /\ v \in Eligible
  <2>1. CASE SortsBefore(w, b, nSequenceId)
    <3>1. b \in candidates
      BY <1>0, <1>6, <1>7, <2>1, SortsStrictly DEF Anchor
    <3>2. \A x \in Eligible : ~SortsBefore(x, b, nSequenceId) => x \in candidates
      <4>1. ASSUME NEW x \in Eligible, ~SortsBefore(x, b, nSequenceId)
            PROVE  ~SortsBefore(x, w, nSequenceId)
        BY <1>0, <1>5, <2>1, <4>1, SortsTransitively
      <4> QED BY <1>6, <4>1 DEF Anchor
    <3> QED BY <1>7, <1>8, <1>9, <3>1, <3>2
  <2>2. CASE ~SortsBefore(w, b, nSequenceId)
    BY <1>6, <1>7, <1>9, <2>2 DEF Anchor
  <2> QED BY <2>1, <2>2
<1>11. NoneBeats(mostWork[t])
  BY DEF BestInv
<1>12. Busy' \/ (NoneBeats(tip)' /\ v = tip')
  <2>1. CASE mostWork[t] = b
    <3>1. NoneBeats(b)
      BY <1>11, <2>1
    <3>2. NoneBeats(tip)'
      BY <1>1, <1>4, <3>1 DEF NoneBeats
    <3>3. ~SortsBefore(b, v, nSequenceId) /\ ~SortsBefore(v, b, nSequenceId)
      BY <1>1, <1>10, <3>1 DEF NoneBeats
    <3> QED BY <1>0, <1>1, <1>10, <3>2, <3>3, SortsTotally
  <2>2. CASE mostWork[t] # b
    <3>1. Working(t)'
      BY <1>0, <1>1, <2>2 DEF Working
    <3> QED BY <3>1 DEF Busy
  <2> QED BY <2>1, <2>2
<1>13. (\A u \in Threads : pc[u] = "reorg" => NoneBeats(mostWork[u]))'
  BY <1>3, <1>4 DEF BestInv, NoneBeats
<1> QED BY <1>10, <1>12, <1>13 DEF BestInv
(* Blocks that are linked join the candidates wherever they beat the anchor; *)
(* the thread that brought them will look for the best chain.              *)
LEMMA AcceptBest ==
  ASSUME State, BestInv, NEW t \in Threads, AcceptBlock(t)
  PROVE  BestInv'
<1> DEFINE b == pblock[t]
<1>0. /\ TypeOK /\ candidates \subseteq Block /\ chainTx \subseteq Block /\ candidates \subseteq chainTx
      /\ tip \in chainTx /\ nSequenceId \in [Block -> Nat] /\ pc \in [Threads -> PCs]
      /\ nStatus \in [Block -> SUBSET Flags]
  BY DEF State, TypeOK, CandInv, TipsInv
<1>1. /\ b \in Block \ {Genesis} /\ pc[t] = "accept" /\ Unlocked /\ tip' = tip /\ mostWork' = mostWork
      /\ pc' = [pc EXCEPT ![t] = "idle"] \/ pc' = [pc EXCEPT ![t] = "activate"]
  BY DEF AcceptBlock, State, ThreadsInv, Goto
<1>2. ~Invalidating /\ \A u \in Threads : pc[u] # "reorg" /\ pc'[u] # "reorg"
  BY <1>0, <1>1, AloneInside
<1>3. \A u \in Threads : /\ Working(u) => Working(u)'
                         /\ pc[u] = "invalidate" => pc'[u] = "invalidate"
  BY <1>0, <1>1, <1>2 DEF Working, Invalidating
<1>4. Busy => Busy'
  BY <1>3 DEF Busy
<1>5. PICK w \in candidates : Anchor(w) /\ (Busy \/ w = tip)
  BY <1>2 DEF BestInv
<1>6. \A c \in chainTx : \A x \in Chain[c] : HasData(x) /\ x \in Block
  BY <1>0, ChainContains DEF State, LinksInv, NothingMissing
<1>7. CASE UNCHANGED indexVars
  BY <1>1, <1>2, <1>3, <1>7, BestKept DEF Failed, BestInv
<1>8. CASE /\ ~HasData(b) /\ UNCHANGED <<chainTx, nSequenceId, candidates>>
           /\ nStatus' = [nStatus EXCEPT ![b] = @ \cup {"tree", "failed_valid"}]
  <2> HIDE DEF b
  <2>1. \A x \in Block : /\ x # b => nStatus'[x] = nStatus[x]
                         /\ "failed_valid" \in nStatus[x] => "failed_valid" \in nStatus'[x]
                         /\ "scripts" \in nStatus'[x] <=> "scripts" \in nStatus[x]
    BY <1>0, <1>1, <1>8
  <2>2. Eligible' \subseteq Eligible
    BY <1>0, <1>8, <2>1, ChainContains DEF Eligible, NothingInvalid
  <2>3. \A x \in Chain[w] : nStatus'[x] = nStatus[x]
    BY <1>0, <1>6, <1>8, <2>1
  <2>4. Anchor(w)' /\ w \in candidates'
    <3>1. CleanChain(w)' /\ Checked(w)'
      BY <1>5, <2>3 DEF Anchor, CleanChain, Checked, Failed
    <3> QED BY <1>1, <1>5, <1>8, <2>2, <3>1 DEF Anchor
  <2>5. \A x \in Invalid : "scripts" \notin nStatus'[x]
    BY <2>1, ChainAssumption DEF BestInv
  <2>6. (Busy \/ NoneBeats(tip))'
    BY <1>1, <1>4, <1>8, <2>2 DEF BestInv, NoneBeats
  <2> QED BY <1>1, <1>2, <1>4, <1>5, <2>4, <2>5, <2>6 DEF BestInv
<1>9. CASE ~HasData(b) /\ ReceivedBlockTransactions(b) /\ pc' = [pc EXCEPT ![t] = "activate"]
  <2>1. nStatus' = [nStatus EXCEPT ![b] = @ \cup {"tree", "data"}]
    BY <1>9 DEF ReceivedBlockTransactions
  <2>2. PICK L \in SUBSET Block :
          /\ L \cap chainTx = {}
          /\ chainTx' = chainTx \cup L
          /\ candidates' = candidates \cup NotWorse(L, nSequenceId')
          /\ nSequenceId' \in [Block -> Nat]
          /\ \A x \in Block \ L : nSequenceId'[x] = nSequenceId[x]
    BY <1>1, <1>9, ReceivedLinks
  <2> HIDE DEF b
  <2>3. \A x \in Block : /\ Failed(x)' <=> Failed(x)
                         /\ "failed_valid" \in nStatus'[x] <=> "failed_valid" \in nStatus[x]
                         /\ "scripts" \in nStatus'[x] <=> "scripts" \in nStatus[x]
    BY <1>0, <1>1, <2>1 DEF Failed, FailedMask
  <2>4. \A x \in Block \ L, y \in Block \ L :
          SortsBefore(x, y, nSequenceId') <=> SortsBefore(x, y, nSequenceId)
    BY <2>2, SameOrder
  <2>5. w \in Block \ L /\ tip \in Block \ L /\ chainTx \subseteq Block \ L
    BY <1>0, <2>2
  <2>6. ~SortsBefore(w, tip, nSequenceId')
    BY <1>5, <2>4, <2>5 DEF Anchor
  <2>7. ASSUME NEW x \in Eligible', ~SortsBefore(x, w, nSequenceId') PROVE x \in candidates'
    <3>1. x \in chainTx \cup L /\ NothingInvalid(x)
      BY <1>0, <2>2, <2>3, ChainContains DEF Eligible, NothingInvalid
    <3>2. CASE x \in chainTx
      BY <1>5, <2>2, <2>4, <2>5, <2>7, <3>1, <3>2 DEF Anchor, Eligible
    <3>3. CASE x \in L
      <4>1. ~SortsBefore(x, tip, nSequenceId')
        <5>1. CASE w = tip
          BY <2>7, <5>1
        <5>2. CASE w # tip
          <6>1. SortsBefore(tip, w, nSequenceId')
            BY <2>2, <2>5, <2>6, <5>2, SortsTotally
          <6> QED BY <2>2, <2>5, <2>7, <3>3, <6>1, SortsTransitively
        <5> QED BY <5>1, <5>2
      <4> QED BY <1>1, <2>2, <3>3, <4>1 DEF NotWorse
    <3> QED BY <3>1, <3>2, <3>3
  <2>8. Anchor(w)' /\ w \in candidates'
    <3>1. CleanChain(w)' /\ Checked(w)'
      BY <1>5, <2>3, <2>5, ChainContains DEF Anchor, CleanChain, Checked
    <3> QED BY <1>1, <1>5, <2>2, <2>6, <2>7, <3>1 DEF Anchor
  <2>9. Busy'
    BY <1>0, <1>9 DEF Busy, Working
  <2>10. \A x \in Invalid : "scripts" \notin nStatus'[x]
    BY <2>3, ChainAssumption DEF BestInv
  <2> QED BY <1>2, <2>8, <2>9, <2>10 DEF BestInv
<1>10. \/ UNCHANGED indexVars
       \/ /\ ~HasData(b) /\ UNCHANGED <<chainTx, nSequenceId, candidates>>
          /\ nStatus' = [nStatus EXCEPT ![b] = @ \cup {"tree", "failed_valid"}]
       \/ ~HasData(b) /\ ReceivedBlockTransactions(b) /\ pc' = [pc EXCEPT ![t] = "activate"]
  BY DEF AcceptBlock, Goto
<1> QED BY <1>7, <1>8, <1>9, <1>10

(* A block that fails was never connected, and is above no anchor.          *)
LEMMA FailsBest ==
  ASSUME State, BestInv, Undisturbed, NEW t \in Threads, ConnectFails(t)
  PROVE  BestInv'
<1> DEFINE b == NextBlock(t)
<1>0. /\ TypeOK /\ candidates \subseteq Block /\ chainTx \subseteq Block /\ pc \in [Threads -> PCs]
  BY DEF State, TypeOK
<1>1. /\ b \in Block \ {Genesis} /\ pc[t] = "reorg" /\ tip # mostWork[t] /\ Held(t)
  BY ConnectsTheNext DEF ConnectFails, AtConnect
<1>2. /\ nStatus' = Marked({b}, "failed_valid") /\ candidates' = candidates \ {b}
      /\ pc' = [pc EXCEPT ![t] = "released"]
      /\ UNCHANGED <<tip, mostWork, chainTx, nSequenceId>>
      /\ b \in Invalid \/ b \in contested
  BY DEF ConnectFails, InvalidBlockFound, Goto
<1>3. "scripts" \notin nStatus[b]
  BY <1>2 DEF BestInv, Undisturbed
<1> HIDE DEF b
<1>4. PICK w \in candidates : Anchor(w)
  BY <1>1, AloneInside DEF BestInv
<1>5. \A x \in Block : /\ x # b => nStatus'[x] = nStatus[x]
                       /\ "failed_valid" \in nStatus[x] => "failed_valid" \in nStatus'[x]
                       /\ "scripts" \in nStatus'[x] <=> "scripts" \in nStatus[x]
  BY <1>2 DEF Marked
<1>6. Eligible' \subseteq Eligible /\ b \notin Eligible'
  <2>1. b \in Chain[b] /\ "failed_valid" \in nStatus'[b]
    BY <1>1, <1>2, ChainContains DEF Marked
  <2> QED BY <1>0, <1>2, <1>5, <2>1, ChainContains DEF Eligible, NothingInvalid
<1>7. b \notin Chain[w] /\ \A x \in Chain[w] : x \in Block
  BY <1>0, <1>1, <1>3, <1>4, ChainContains DEF Anchor, Checked
<1>8. Anchor(w)' /\ w \in candidates'
  <2>1. w # b
    BY <1>0, <1>7, ChainContains
  <2>2. CleanChain(w)' /\ Checked(w)'
    BY <1>4, <1>5, <1>7 DEF Anchor, CleanChain, Checked, Failed
  <2> QED BY <1>2, <1>4, <1>6, <2>1, <2>2 DEF Anchor
<1>9. Busy'
  BY <1>0, <1>1, <1>2 DEF Busy, Working
<1>10. \A x \in Invalid : "scripts" \notin nStatus'[x]
  BY <1>5, ChainAssumption DEF BestInv
<1>11. (\A u \in Threads : pc[u] = "reorg" => NoneBeats(mostWork[u]))'
  BY <1>0, <1>2, <1>6 DEF BestInv, NoneBeats
<1> QED BY <1>8, <1>9, <1>10, <1>11 DEF BestInv
(* InvalidateBlock takes the anchor away; its last step makes the tip one. *)
LEMMA InvalidateBest ==
  ASSUME State, Explained(nStatus), ActiveInv, NotCutShort, BestInv, NEW t \in Threads,
         \/ InvalidateTip(t) \/ InvalidateEnd(t)
         \/ \E b \in Block \ {Genesis} : InvalidateBlock(t, b)
  PROVE  BestInv'
<1>0. /\ TypeOK /\ candidates \subseteq Block /\ chainTx \subseteq Block /\ pc \in [Threads -> PCs]
      /\ tip \in chainTx /\ tip \in Block /\ nSequenceId \in [Block -> Nat]
  BY DEF State, TypeOK, TipsInv
<1>1. ASSUME NEW b \in Block \ {Genesis}, InvalidateBlock(t, b) PROVE BestInv'
  <2>1. Unlocked /\ pc' = [pc EXCEPT ![t] = "invalidate"] /\ nStatus' = Marked({b}, "failed_valid")
    BY <1>1 DEF InvalidateBlock, Goto
  <2>2. pc'[t] = "invalidate" /\ \A u \in Threads : pc'[u] # "reorg"
    BY <1>0, <2>1, AloneInside
  <2>3. \A x \in Invalid : "scripts" \notin nStatus'[x]
    BY <2>1, ChainAssumption DEF BestInv, Marked
  <2> QED BY <2>2, <2>3 DEF BestInv, Invalidating, Busy, Working
<1>2. CASE InvalidateTip(t)
  <2>1. pc[t] = "invalidate" /\ Held(t) /\ pc' = pc /\ nStatus' = Marked({tip}, "failed_child")
    BY <1>2 DEF InvalidateTip, Held
  <2>2. pc'[t] = "invalidate" /\ \A u \in Threads : pc'[u] # "reorg"
    BY <2>1, AloneInside
  <2>3. \A x \in Invalid : "scripts" \notin nStatus'[x]
    BY <2>1, ChainAssumption DEF BestInv, Marked
  <2> QED BY <2>2, <2>3 DEF BestInv, Invalidating, Busy, Working
<1>3. CASE InvalidateEnd(t)
  <2> DEFINE S == {x \in chainTx : IsValid(nStatus[x])}
  <2>1. /\ pc[t] = "invalidate" /\ Held(t) /\ writing = "none" /\ target \notin Chain[tip]
        /\ pc' = [pc EXCEPT ![t] = "activate"]
        /\ candidates' = candidates \cup {x \in S : ~SortsBefore(x, tip, nSequenceId)}
        /\ UNCHANGED <<nStatus, chainTx, nSequenceId, tip>>
    BY <1>3 DEF InvalidateEnd, Goto, Active, Held, ToRestore, NotWorse
  <2>2. \A u \in Threads : pc[u] \in {"reorg", "invalidate"} => u = t
    BY <2>1 DEF State, ThreadsInv, Held
  <2>3. \A x \in Chain[tip] : ~Leaving(x)
    BY <1>0, <2>1, <2>2, ChainTransitive DEF Leaving
  <2>4. CleanChain(tip) /\ Checked(tip)
    BY <2>3 DEF ActiveInv, ChainsClean, CleanChain, State, TipsInv
  <2>5. ASSUME NEW x \in chainTx, CleanChain(x), ~SortsBefore(x, tip, nSequenceId) PROVE x \in candidates'
    <3>1. x \in Chain[x] /\ HasData(x)
      BY <1>0, ChainContains DEF State, LinksInv, NothingMissing
    <3>2. x \in S
      BY <2>5, <3>1 DEF CleanChain, IsValid, HasData, Failed
    <3> QED BY <2>1, <2>5, <3>2
  <2>6. ~SortsBefore(tip, tip, nSequenceId)
    BY <1>0, SortsStrictly
  <2>7. \A x \in Eligible : x \in chainTx /\ CleanChain(x)
    BY <1>0, EligibleIsClean DEF Eligible
  <2>8. Eligible' = Eligible /\ CleanChain(tip)' /\ Checked(tip)'
    BY <1>0, <2>1, <2>4 DEF Eligible, NothingInvalid, CleanChain, Checked, Failed
  <2>9. Anchor(tip)' /\ tip \in candidates'
    BY <1>0, <2>1, <2>4, <2>5, <2>6, <2>7, <2>8 DEF Anchor
  <2>10. Busy' /\ \A u \in Threads : pc'[u] # "reorg"
    BY <1>0, <2>1, <2>2 DEF Busy, Working
  <2> QED BY <2>1, <2>9, <2>10 DEF BestInv
<1> QED BY <1>1, <1>2, <1>3

(* After a crash that no InvalidateBlock preceded, the tip on disk is the   *)
(* anchor, and LoadBlockIndexDB finds all that beats it.                   *)
LEMMA CrashBest ==
  ASSUME State, State', FailuresInv, ActiveInv, NothingReconsidered, NotCutShort', BestInv,
         NEW t \in Threads, CrashAndRestart(t)
  PROVE  BestInv'
<1> DEFINE linked == {b \in Block : \A x \in Chain[b] : "data" \in diskStatus[x]}
           seq == [b \in Block |-> 0]
<1>1. /\ nStatus' = diskStatus /\ tip' = diskTip /\ chainTx' = linked /\ nSequenceId' = seq
      /\ candidates' = {c \in {b \in linked : IsValid(diskStatus[b])} : ~SortsBefore(c, diskTip, seq)}
      /\ pc' = [u \in Threads |-> IF u = t THEN "activate" ELSE "idle"]
      /\ UNCHANGED <<diskStatus, diskTip>>
  BY DEF CrashAndRestart, Prune
<1>2. used["invalidate"] = 0
  <2>1. used' = [used EXCEPT !["crash"] = @ + 1]
    BY DEF CrashAndRestart, Use
  <2>2. used'["crash"] # 0 /\ used'["invalidate"] = used["invalidate"]
    BY <2>1 DEF State, TypeOK, Operations
  <2> QED BY <2>2 DEF NotCutShort
<1>3. \A b \in Chain[diskTip] : diskStatus[b] \cap FailedMask = {}
  BY <1>2 DEF ActiveInv, NotCutShort, ChainsClean
<1>4. /\ TypeOK /\ TypeOK' /\ diskTip \in Block /\ seq \in [Block -> Nat]
      /\ diskTip \in Chain[diskTip]
  BY ChainContains DEF State, TypeOK
<1>5. diskTip \in linked /\ CleanChain(diskTip)' /\ Checked(diskTip)'
  <2>1. diskTip \in linked
    BY <1>4 DEF State, DiskInv, DiskLoadable
  <2>2. CleanChain(diskTip)'
    BY <1>1, <1>3 DEF CleanChain, Failed
  <2>3. Checked(diskTip)'
    BY <1>1 DEF State, DiskInv, DiskLoadable, Checked
  <2> QED BY <2>1, <2>2, <2>3
<1>6. Explained(diskStatus)
  BY DEF FailuresInv, MarksInv
<1>7. \A b \in Eligible' : b \in linked /\ IsValid(diskStatus[b]) /\ b \in Block
  <2>1. ASSUME NEW b \in Block, NothingInvalid(b)' PROVE diskStatus[b] \cap FailedMask = {}
    <3>1. \A x \in Chain[b] : "failed_valid" \notin diskStatus[x]
      BY <1>1, <2>1 DEF NothingInvalid
    <3>2. \A x \in Chain[b] : diskStatus[x] \cap FailedMask = {}
      BY <1>6, <3>1, CleanFlags
    <3> QED BY <3>2, ChainContains
  <2>2. \A b \in linked : b \in Block /\ "data" \in diskStatus[b]
    BY ChainContains
  <2> QED BY <1>1, <2>1, <2>2 DEF Eligible, IsValid
<1> HIDE DEF linked, seq
<1>8. diskTip \in candidates'
  <2>1. ~SortsBefore(diskTip, diskTip, seq)
    BY <1>4, SortsStrictly
  <2>2. IsValid(diskStatus[diskTip])
    BY <1>1, <1>3, <1>4, <1>5 DEF IsValid, State, DiskInv, DiskLoadable
  <2> QED BY <1>1, <1>5, <2>1, <2>2
<1>9. Anchor(tip)'
  <2>1. ~SortsBefore(tip', tip', nSequenceId')
    BY <1>1, <1>4, SortsStrictly
  <2>2. \A b \in Eligible' : ~SortsBefore(b, tip', nSequenceId') => b \in candidates'
    BY <1>1, <1>7
  <2> QED BY <1>1, <1>5, <1>8, <2>1, <2>2 DEF Anchor, CleanChain, Checked
<1>10. \A b \in Invalid : "scripts" \notin nStatus'[b]
  BY <1>1, ChainAssumption DEF BestInv, State, DiskInv, Lasting
<1>11. Busy' /\ \A u \in Threads : pc'[u] # "reorg"
  BY <1>1 DEF Busy, Working
<1> QED BY <1>1, <1>8, <1>9, <1>10, <1>11 DEF BestInv
(* A block leaves the chain: the tip is further below the anchor, and the   *)
(* thread that took it away goes on; or a block was connected.              *)
LEMMA WriteBest ==
  ASSUME State, Explained(nStatus), FailuresInv, ActiveInv, Undisturbed, BestInv,
         NEW t \in Threads, WriteCoins(t)
  PROVE  BestInv'
<1>0. /\ TypeOK /\ candidates \subseteq Block /\ chainTx \subseteq Block /\ pc \in [Threads -> PCs]
      /\ tip \in Block /\ nSequenceId \in [Block -> Nat] /\ coinsTip \in chainTx
  BY DEF State, TypeOK, TipsInv
<1>1. /\ Held(t) /\ pc[t] # "reprocess"
      /\ UNCHANGED <<nStatus, chainTx, nSequenceId, coinsTip>>
  <2>1. used["reprocess"] = 0
    BY DEF Undisturbed, NothingReconsidered
  <2> QED BY <2>1 DEF WriteCoins, Held, FailuresInv, CallsInv
<1>2. Eligible' = Eligible
  BY <1>1 DEF Eligible, NothingInvalid
<1>3. \A b \in Invalid : "scripts" \notin nStatus'[b]
  BY <1>1 DEF BestInv
<1>4. CASE writing = "disconnect" /\ tip' = coinsTip /\ UNCHANGED <<candidates, threadVars>>
  <2>1. pc[t] \in {"reorg", "invalidate"} /\ pc' = pc /\ mostWork' = mostWork
    BY <1>1, <1>4 DEF Held, State, ThreadsInv
  <2>2. tip \in Block \ {Genesis} /\ tip' = Parent[tip] /\ Parent[tip] \in Block
    BY <1>0, <1>4, TreeAssumption DEF State, TipsInv
  <2>3. SortsBefore(Parent[tip], tip, nSequenceId)
    BY <2>2, TreeAssumption DEF SortsBefore
  <2>4. ASSUME NEW w \in candidates, Anchor(w) PROVE Anchor(w)'
    <3>1. ~SortsBefore(w, Parent[tip], nSequenceId)
      BY <1>0, <2>2, <2>3, <2>4, SortsTransitively DEF Anchor
    <3>2. CleanChain(w)' /\ Checked(w)'
      BY <1>1, <2>4 DEF Anchor, CleanChain, Checked, Failed
    <3> QED BY <1>1, <1>2, <1>4, <2>2, <2>4, <3>1, <3>2 DEF Anchor
  <2>5. Busy'
    BY <2>1 DEF Busy, Working
  <2>6. (\A u \in Threads : pc[u] = "reorg" => NoneBeats(mostWork[u]))'
    BY <1>1, <1>2, <2>1 DEF BestInv, NoneBeats
  <2>7. (Invalidating \/ \E w \in candidates : Anchor(w) /\ (Busy \/ w = tip))'
    BY <1>4, <2>1, <2>4, <2>5 DEF BestInv, Invalidating
  <2> QED BY <1>3, <2>5, <2>6, <2>7 DEF BestInv
<1>5. CASE writing = "connect" /\ Connected(t, coinsTip) /\ mostWork' = mostWork
  <2>1. pc[t] = "reorg"
    BY <1>1, <1>5 DEF Held, State, ThreadsInv
  <2>2. CleanChain(coinsTip)
    <3>1. \A b : ~Leaving(b)
      BY <1>1, <2>1, NothingLeaves
    <3> QED BY <3>1 DEF CleanChain, ActiveInv, ChainsClean, Undisturbed
  <2>3. Checked(coinsTip) /\ coinsTip # Genesis /\ coinsTip \in Chain[coinsTip]
    BY <1>0, <1>5, ChainContains DEF State, TipsInv
  <2>4. coinsTip \notin Invalid
    BY <2>3 DEF BestInv, Checked
  <2>5. Checked(coinsTip)'
    BY <1>1, <2>3 DEF Checked
  <2> QED BY <1>0, <1>1, <1>3, <1>5, <2>1, <2>2, <2>3, <2>4, <2>5, ConnectedBest DEF Failed
<1>6. CASE /\ writing = "periodic" /\ pc' = [pc EXCEPT ![t] = "idle"]
           /\ UNCHANGED <<candidates, tip, mostWork>>
  <2>1. pc[t] = "flush"
    BY <1>1, <1>6 DEF Held, State, ThreadsInv
  <2>2. \A u \in Threads :
          /\ Working(u) => Working(u)'
          /\ pc'[u] = "reorg" => pc[u] = "reorg" /\ mostWork'[u] = mostWork[u]
          /\ pc[u] = "invalidate" => pc'[u] = "invalidate"
    BY <1>0, <1>6, <2>1 DEF Working
  <2> QED BY <1>1, <1>6, <2>2, BestKept DEF Failed
<1> QED BY <1>4, <1>5, <1>6 DEF WriteCoins, Goto

(* A block is connected, at once or when the index is written.             *)
LEMMA ConnectBest ==
  ASSUME State, State', Explained(nStatus), ActiveInv, Undisturbed, BestInv,
         NEW t \in Threads, ConnectTip(t)
  PROVE  BestInv'
<1>0. /\ TypeOK /\ nStatus \in [Block -> SUBSET Flags] /\ pc \in [Threads -> PCs]
  BY DEF State, TypeOK
<1>1. PICK b \in Block \ {Genesis} :
        /\ b = NextBlock(t) /\ b \in chainTx /\ b \in Chain[mostWork[t]]
        /\ pc[t] = "reorg" /\ mostWork[t] \in Block
  BY ConnectsTheNext DEF ConnectTip, AtConnect
<1>2. /\ nStatus' = Marked({b}, "scripts") /\ coinsTip' = b /\ b \notin Invalid
      /\ UNCHANGED <<chainTx, nSequenceId, mostWork>>
      /\ Connected(t, b) \/ UNCHANGED <<tip, candidates, pc>>
  BY <1>1 DEF ConnectTip
<1>3. \A x \in Block : /\ Failed(x)' <=> Failed(x)
                       /\ "failed_valid" \in nStatus'[x] <=> "failed_valid" \in nStatus[x]
                       /\ "scripts" \in nStatus[x] => "scripts" \in nStatus'[x]
                       /\ x # b => nStatus'[x] = nStatus[x]
  BY <1>0, <1>2 DEF Failed, FailedMask, Marked
<1>4. \A x \in Invalid : "scripts" \in nStatus'[x] => "scripts" \in nStatus[x]
  BY <1>2, <1>3, ChainAssumption
<1>5. CASE Connected(t, b)
  <2>1. CleanChain(b)
    BY <1>1, ChainTransitive DEF CleanChain, ActiveInv, ChainsClean, Undisturbed
  <2>2. Checked(b)'
    BY <1>2 DEF State, TipsInv, Checked
  <2>3. \A x \in Invalid : "scripts" \notin nStatus'[x]
    BY <1>4 DEF BestInv
  <2> QED BY <1>1, <1>2, <1>3, <1>5, <2>1, <2>2, <2>3, ConnectedBest
<1>6. CASE UNCHANGED <<tip, candidates, pc>>
  <2>1. \A u \in Threads : Working(u) => Working(u)'
    BY <1>2, <1>6 DEF Working
  <2> QED BY <1>2, <1>3, <1>4, <1>6, <2>1, BestKept
<1> QED BY <1>2, <1>5, <1>6
(* Every step of an undisturbed node keeps an anchor among the candidates,  *)
(* and a thread at work as long as the tip is not the best there is.        *)
LEMMA BestStep ==
  ASSUME IInv, IInv', Undisturbed, Undisturbed', BestInv, [Next]_vars
  PROVE  BestInv'
<1>0. /\ State /\ State' /\ TypeOK /\ FailuresInv /\ ActiveInv /\ CallsInv
      /\ nStatus \in [Block -> SUBSET Flags] /\ pc \in [Threads -> PCs]
      /\ mostWork \in [Threads -> Block \cup {none}]
  BY DEF IInv, State, TypeOK, FailuresInv
<1>e. Explained(nStatus) /\ NotCutShort
  BY <1>0 DEF Undisturbed, FailuresInv, MarksInv
<1>n. ASSUME NEW op \in {"reconsider", "reprocess"} PROVE ~Use(op)
  <2>1. TypeOK'
    BY <1>0 DEF State
  <2> QED BY <1>0, <2>1 DEF Use, Undisturbed, NothingReconsidered, TypeOK, Operations
<1>p. \A t \in Threads : pc[t] \notin {"reconsider", "reprocess"}
  BY <1>0 DEF CallsInv, Undisturbed, NothingReconsidered
<1>1. ASSUME NEW b \in Block \ {Genesis}, AcceptHeader(b) PROVE BestInv'
  <2>1. \A x \in Block : /\ Failed(x)' <=> Failed(x)
                         /\ "failed_valid" \in nStatus'[x] <=> "failed_valid" \in nStatus[x]
                         /\ "scripts" \in nStatus'[x] <=> "scripts" \in nStatus[x]
    BY <1>0, <1>1 DEF AcceptHeader, Marked, Failed, FailedMask
  <2>2. UNCHANGED <<chainTx, nSequenceId, tip, candidates, pc, mostWork>>
    BY <1>1 DEF AcceptHeader
  <2> QED BY <1>0, <2>1, <2>2, BestKept, ChainAssumption DEF Working
<1>2. ASSUME NEW t \in Threads, NEW b \in Block \ {Genesis}, CheckNewBlock(t, b) PROVE BestInv'
  <2>1. /\ UNCHANGED <<nStatus, chainTx, nSequenceId, tip, candidates, mostWork>>
        /\ pc' = pc \/ (pc[t] = "idle" /\ pc' = [pc EXCEPT ![t] = "accept"])
    BY <1>2 DEF CheckNewBlock, Goto
  <2>2. \A u \in Threads : /\ Working(u) => Working(u)'
                           /\ pc'[u] = "reorg" => pc[u] = "reorg"
                           /\ pc[u] = "invalidate" => pc'[u] = "invalidate"
    BY <1>0, <2>1 DEF Working
  <2> QED BY <1>0, <2>1, <2>2, BestKept DEF Failed
<1>3. ASSUME NEW t \in Threads, NEW b \in Block \ {Genesis}, InvalidateBlock(t, b) PROVE BestInv'
  BY <1>0, <1>e, <1>3, InvalidateBest
<1>4. ASSUME NEW t \in Threads, NEW b \in Block \ {Genesis}, ReconsiderBlock(t, b) PROVE BestInv'
  BY <1>n, <1>4 DEF ReconsiderBlock
<1>5. ASSUME NEW t \in Threads, ReprocessBlocks(t) PROVE BestInv'
  BY <1>n, <1>5 DEF ReprocessBlocks
<1>6. ASSUME NEW t \in Threads, AcceptBlock(t) PROVE BestInv'
  BY <1>0, <1>6, AcceptBest
<1>7. ASSUME NEW t \in Threads, Activate(t) PROVE BestInv'
  BY <1>0, <1>e, <1>7, ActivateBest
<1>8. ASSUME NEW t \in Threads, ReorgDisconnect(t) PROVE BestInv'
  <2>1. UNCHANGED <<nStatus, chainTx, nSequenceId, tip, candidates, pc, mostWork>>
    BY <1>8 DEF ReorgDisconnect, DisconnectTip
  <2> QED BY <1>0, <2>1, BestKept DEF Failed, Working
<1>9. ASSUME NEW t \in Threads, ConnectTip(t) PROVE BestInv'
  BY <1>0, <1>e, <1>9, ConnectBest
<1>10. ASSUME NEW t \in Threads, ConnectFails(t) PROVE BestInv'
  BY <1>0, <1>10, FailsBest
<1>11. ASSUME NEW t \in Threads, WriteCoins(t) PROVE BestInv'
  BY <1>0, <1>e, <1>11, WriteBest
<1>12. ASSUME NEW t \in Threads, Released(t) PROVE BestInv'
  <2>1. /\ UNCHANGED <<nStatus, chainTx, nSequenceId, tip, candidates>>
        /\ pc[t] = "released" /\ mostWork' = [mostWork EXCEPT ![t] = none]
        /\ pc' = [pc EXCEPT ![t] = IF mostWork[t] = tip THEN "finish" ELSE "activate"]
    BY <1>12 DEF Released, Repeat, Goto
  <2>2. \A u \in Threads : /\ Working(u) => Working(u)'
                           /\ pc'[u] = "reorg" => pc[u] = "reorg" /\ mostWork'[u] = mostWork[u]
                           /\ pc[u] = "invalidate" => pc'[u] = "invalidate"
    BY <1>0, <2>1 DEF Working
  <2> QED BY <1>0, <2>1, <2>2, BestKept DEF Failed
<1>13. ASSUME NEW t \in Threads, Finish(t) PROVE BestInv'
  <2>1. /\ UNCHANGED <<nStatus, chainTx, nSequenceId, tip, candidates, mostWork>>
        /\ pc[t] = "finish"
        /\ pc' = [pc EXCEPT ![t] = "idle"] \/ pc' = [pc EXCEPT ![t] = "flush"]
    BY <1>13 DEF Finish, Goto
  <2>2. \A u \in Threads : /\ Working(u) => Working(u)'
                           /\ pc'[u] = "reorg" => pc[u] = "reorg"
                           /\ pc[u] = "invalidate" => pc'[u] = "invalidate"
    BY <1>0, <2>1 DEF Working
  <2> QED BY <1>0, <2>1, <2>2, BestKept DEF Failed
<1>14. ASSUME NEW t \in Threads, InvalidateTip(t) PROVE BestInv'
  BY <1>0, <1>e, <1>14, InvalidateBest
<1>15. ASSUME NEW t \in Threads, InvalidateEnd(t) PROVE BestInv'
  BY <1>0, <1>e, <1>15, InvalidateBest
<1>16. ASSUME NEW t \in Threads, \/ ReprocessReconsider(t) \/ ReprocessStart(t)
                                 \/ ReprocessDisconnect(t) \/ ReprocessEnd(t)
       PROVE  BestInv'
  BY <1>p, <1>16 DEF ReprocessReconsider, ReprocessStart, ReprocessDisconnect, ReprocessEnd
<1>17. ASSUME NEW b \in Contestable, Contest(b) \/ Settle(b) PROVE BestInv'
  <2>1. UNCHANGED <<nStatus, chainTx, nSequenceId, tip, candidates, pc, mostWork>>
    BY <1>17 DEF Contest, Settle
  <2> QED BY <1>0, <2>1, BestKept DEF Failed, Working
<1>18. ASSUME NEW t \in Threads, CrashAndRestart(t) PROVE BestInv'
  BY <1>0, <1>18, CrashBest DEF Undisturbed
<1>19. CASE UNCHANGED vars
  <2>1. UNCHANGED <<nStatus, chainTx, nSequenceId, tip, candidates, pc, mostWork>>
    BY <1>19 DEF vars
  <2> QED BY <1>0, <2>1, BestKept DEF Failed, Working
<1> QED BY <1>1, <1>2, <1>3, <1>4, <1>5, <1>6, <1>7, <1>8, <1>9, <1>10, <1>11, <1>12,
           <1>13, <1>14, <1>15, <1>16, <1>17, <1>18, <1>19 DEF Next, ThreadStep

(* The genesis block is the first anchor. *)
LEMMA BestInit == Init => BestInv
<1> SUFFICES ASSUME Init PROVE BestInv
  OBVIOUS
<1>1. /\ nStatus = Fresh /\ chainTx = {Genesis} /\ candidates = {Genesis} /\ tip = Genesis
      /\ nSequenceId = [b \in Block |-> IF b = Genesis THEN 1 ELSE 0]
      /\ \A t \in Threads : pc[t] = "idle"
  BY DEF Init
<1>2. Genesis \in Block /\ Chain[Genesis] = {Genesis}
  BY TreeAssumption, ChainOfGenesis
<1>3. ~SortsBefore(Genesis, Genesis, nSequenceId)
  BY <1>1, <1>2, SortsStrictly
<1>4. Anchor(Genesis)
  BY <1>1, <1>2, <1>3 DEF Anchor, CleanChain, Checked, Failed, FailedMask, Fresh, Eligible
<1>5. NoneBeats(tip)
  BY <1>1, <1>3 DEF NoneBeats, Eligible
<1>6. \A b \in Invalid : "scripts" \notin nStatus[b]
  BY <1>1, ChainAssumption DEF Fresh
<1> QED BY <1>1, <1>4, <1>5, <1>6 DEF BestInv

(***************************************************************************)
(* When every thread has returned from ActivateBestChain, the tip is the   *)
(* best of all the chains whose data the node has and in which it knows no *)
(* failure: whatever TRY_LOCK, failed reorganisations, invalidations and   *)
(* crashes come between, no block is forgotten.                            *)
(***************************************************************************)
THEOREM BestChainCorrect == Spec /\ []Undisturbed => []BestChainActive
<1>1. BestInv => BestChainActive
  BY DEF BestInv, Busy, Working, NoneBeats, Eligible, Quiet, BestChainActive
<1>2. IInv /\ IInv' /\ Undisturbed /\ Undisturbed' /\ BestInv /\ [Next]_vars => BestInv'
  BY BestStep
<1> QED BY <1>1, <1>2, BestInit, Invariance, PTL DEF Spec

(***************************************************************************)
(* Where no thread is inside ActivateBestChain, setBlockIndexCandidates     *)
(* holds every block that could become the tip, as CheckBlockIndex asserts. *)
(***************************************************************************)
THEOREM CandidatesAllThere == Spec /\ []Undisturbed => []CandidatesCompleteAtRest
<1>1. ASSUME IInv, BestInv, \A t \in Threads : pc[t] \in {"idle", "accept"}
      PROVE  MustBeCandidate \subseteq candidates
  <2>1. ~Busy /\ ~Invalidating
    BY <1>1 DEF Busy, Working, Invalidating
  <2>2. Anchor(tip)
    BY <1>1, <2>1 DEF BestInv
  <2> QED BY <2>2 DEF Anchor, MustBeCandidate, Eligible
<1>2. IInv /\ BestInv => CandidatesCompleteAtRest
  BY <1>1 DEF CandidatesCompleteAtRest
<1>3. IInv /\ IInv' /\ Undisturbed /\ Undisturbed' /\ BestInv /\ [Next]_vars => BestInv'
  BY BestStep
<1> QED BY <1>2, <1>3, BestInit, Invariance, PTL DEF Spec
=============================================================================
