----------------------------- MODULE ChainState -----------------------------
(***************************************************************************)
(* The block index and the active chain of src/src/main.cpp: how blocks    *)
(* are accepted, how the best chain is activated in steps, how an operator *)
(* or a SwiftX lock takes blocks out of the chain, what is written to disk *)
(* in which order, and what LoadBlockIndexDB makes of it after a crash.    *)
(*                                                                         *)
(* A step is one critical section of cs_main, or a part of one that ends   *)
(* where a crash would leave something else on disk.  A thread that is in  *)
(* the middle of a critical section excludes the others (Unlocked).        *)
(*                                                                         *)
(* Left out: pindexBestHeader, pindexBestInvalid and the fork warnings     *)
(* (reporting only), the checkpoint rescue branches of AcceptBlock, and    *)
(* errors of the disk other than a crash.                                  *)
(***************************************************************************)
EXTENDS BlockTree

CONSTANTS
  Threads,       \* message handler, RPC, import and miner threads
  none,          \* NULL
  Invalid,       \* blocks that ConnectBlock finds to break a consensus rule
  BadContext,    \* blocks that ContextualCheckBlock refuses
  Contestable,   \* blocks a SwiftX lock may conflict with, or lack a payee
  ReprocessDepth,\* nBlocks of ReprocessBlocks
  \* bounds: how often in a behaviour
  MaxInvalidate, MaxReconsider, MaxReprocess, MaxContest, MaxCrash

ASSUME ChainAssumption ==
  /\ none \notin Block
  /\ Invalid \subseteq Block \ {Genesis}
  /\ BadContext \subseteq Block \ {Genesis}
  /\ Contestable \subseteq Block \ {Genesis}
  /\ ReprocessDepth \in Nat
  /\ {MaxInvalidate, MaxReconsider, MaxReprocess, MaxContest, MaxCrash} \subseteq Nat

VARIABLES
  \* the block index
  nStatus,      \* flags of each CBlockIndex; {} if it is not in mapBlockIndex
  chainTx,      \* blocks with nChainTx # 0
  nSequenceId, nBlockSequenceId,
  candidates,   \* setBlockIndexCandidates
  unlinked,     \* the blocks that mapBlocksUnlinked maps their parents to
  dirty,        \* setDirtyBlockIndex
  \* the chain
  tip,          \* chainActive.Tip()
  coinsTip,     \* pcoinsTip->GetBestBlock()
  \* the databases
  diskStatus,   \* the block index database
  diskTip,      \* the best block of the coins database
  writing,      \* what FlushStateToDisk returns to, between its two writes
  \* what CheckBlock refuses for now, and mapRejectedBlocks
  contested, rejected,
  \* per thread: where it is, the block it was given, the chain it works
  \* towards, the blocks it still has to reconsider
  pc, pblock, mostWork, pending,
  \* locals of the function that holds cs_main
  oldTip,       \* pindexOldTip of ActivateBestChainStep
  target,       \* pindex of InvalidateBlock
  left,         \* iterations left in DisconnectBlocksAndReprocess
  \* how often the bounded operations were used
  used

indexVars  == <<nStatus, chainTx, nSequenceId, nBlockSequenceId, candidates, unlinked, dirty>>
tipVars    == <<tip, coinsTip>>
diskVars   == <<diskStatus, diskTip, writing>>
lockVars   == <<contested, rejected>>
threadVars == <<pc, pblock, mostWork, pending>>
heldVars   == <<oldTip, target, left>>
vars == <<indexVars, tipVars, diskVars, lockVars, threadVars, heldVars, used>>

-----------------------------------------------------------------------------
(***************************************************************************)
(* BlockStatus.  VALID_TRANSACTIONS comes with HAVE_DATA, VALID_TREE with  *)
(* the entry, and VALID_CHAIN is passed over on the way to VALID_SCRIPTS.  *)
(***************************************************************************)
Flags == {"tree", "data", "scripts", "failed_valid", "failed_child"}
FailedMask == {"failed_valid", "failed_child"}

Known(b)  == nStatus[b] # {}
HasData(b) == "data" \in nStatus[b]
Failed(b) == nStatus[b] \cap FailedMask # {}

\* IsValid(BLOCK_VALID_TRANSACTIONS) of a block with the given flags; the
\* mutant asks for BLOCK_VALID_SCRIPTS.
ScriptsValid(flags) == "scripts" \in flags /\ flags \cap FailedMask = {}
IsValid(flags) == "data" \in flags /\ flags \cap FailedMask = {}

\* nStatus after the flag was set on every block of S; the mutant assigns
\* where the code has |=.
Assigned(S, flag) ==
  [b \in Block |-> IF b \in S THEN {flag} ELSE nStatus[b]]
Marked(S, flag) ==
  [b \in Block |-> IF b \in S THEN nStatus[b] \cup {flag} ELSE nStatus[b]]

\* chainActive
Active == Chain[tip]

\* Every ancestor that is not in the active chain, and b.
Branch(b) == Chain[b] \ Active

\* a is a better candidate than b.
Better(a, b) == SortsBefore(b, a, nSequenceId)

\* PruneBlockIndexCandidates with t as the tip; the mutant erases the tip too.
PruneTip(S, t, seq) == {c \in S : SortsBefore(t, c, seq)}
Prune(S, t, seq) == {c \in S : ~SortsBefore(c, t, seq)}

PCs == {"idle", "accept", "activate", "reorg", "released", "finish", "flush",
        "invalidate", "reconsider", "reprocess"}

\* No thread is inside a critical section that spans several steps.
Unlocked ==
  \A t \in Threads : pc[t] \notin {"reorg", "flush", "invalidate", "reprocess"}

Goto(t, p) == pc' = [pc EXCEPT ![t] = p]

Operations == {"invalidate", "reconsider", "reprocess", "contest", "crash"}
Limit == [op \in Operations |->
           CASE op = "invalidate" -> MaxInvalidate
             [] op = "reconsider" -> MaxReconsider
             [] op = "reprocess"  -> MaxReprocess
             [] op = "contest"    -> MaxContest
             [] op = "crash"      -> MaxCrash]
Use(op) == used[op] < Limit[op] /\ used' = [used EXCEPT ![op] = @ + 1]

\* The databases after InitBlockIndex connected and flushed the genesis block.
Fresh == [b \in Block |-> IF b = Genesis THEN {"tree", "data"} ELSE {}]

Init ==
  /\ nStatus = Fresh
  /\ chainTx = {Genesis}
  /\ nSequenceId = [b \in Block |-> IF b = Genesis THEN 1 ELSE 0]
  /\ nBlockSequenceId = 2
  /\ candidates = {Genesis}
  /\ unlinked = {}
  /\ dirty = {}
  /\ tip = Genesis
  /\ coinsTip = Genesis
  /\ diskStatus = Fresh
  /\ diskTip = Genesis
  /\ writing = "none"
  /\ contested = {}
  /\ rejected = {}
  /\ pc = [t \in Threads |-> "idle"]
  /\ pblock = [t \in Threads |-> none]
  /\ mostWork = [t \in Threads |-> none]
  /\ pending = [t \in Threads |-> {}]
  /\ oldTip = none
  /\ target = none
  /\ left = 0
  /\ used = [op \in Operations |-> 0]

-----------------------------------------------------------------------------
(***************************************************************************)
(* Receiving headers and blocks.                                           *)
(***************************************************************************)

\* AcceptBlockHeader of a new header, from a headers message or from a block
\* whose stake AcceptBlock then refuses.
AcceptHeader(b) ==
  /\ Unlocked
  /\ ~Known(b)
  /\ Known(Parent[b])
  /\ ~Failed(Parent[b])
  /\ nStatus' = Marked({b}, "tree")
  /\ dirty' = dirty \cup {b}
  /\ UNCHANGED <<chainTx, nSequenceId, nBlockSequenceId, candidates, unlinked,
                 tipVars, diskVars, lockVars, threadVars, heldVars, used>>

\* ProcessNewBlock until it locks cs_main: CheckBlock, whose answer is used later.
CheckNewBlock(t, b) ==
  /\ pc[t] = "idle"
  /\ Known(Parent[b])
  /\ IF b \in contested
     THEN /\ rejected' = rejected \cup {b}
          /\ UNCHANGED <<pc, pblock>>
     ELSE /\ Goto(t, "accept")
          /\ pblock' = [pblock EXCEPT ![t] = b]
          /\ UNCHANGED rejected
  /\ UNCHANGED <<indexVars, tipVars, diskVars, contested, mostWork, pending,
                 heldVars, used>>

\* The blocks that b, once it has data, links to the genesis block; the
\* mutant does not follow mapBlocksUnlinked.
JustItself(b) == {b}
LinkedBy(b) == {x \in unlinked \cup {b} : b \in Chain[x] /\ Chain[x] \ Chain[b] \subseteq unlinked}

\* The blocks of S that beat the tip, and those that the tip does not beat;
\* the mutant does not look at the tip.
OnlyBetter(S, seq) == {x \in S : SortsBefore(tip, x, seq)}
AllOf(S, seq) == S
NotWorse(S, seq) == {x \in S : ~SortsBefore(x, tip, seq)}

\* The order in which the queue hands out sequence ids: parents first.
Numberings(S) ==
  {f \in [S -> nBlockSequenceId .. nBlockSequenceId + Cardinality(S) - 1] :
     \A x, y \in S : x # y => f[x] # f[y] /\ (Height[x] < Height[y] => f[x] < f[y])}

ReceivedBlockTransactions(b) ==
  /\ nStatus' = [nStatus EXCEPT ![b] = @ \cup {"tree", "data"}]
  /\ IF Parent[b] \in chainTx
     THEN \E ids \in Numberings(LinkedBy(b)) :
            /\ chainTx' = chainTx \cup LinkedBy(b)
            /\ nSequenceId' = [x \in Block |-> IF x \in LinkedBy(b) THEN ids[x] ELSE nSequenceId[x]]
            /\ nBlockSequenceId' = nBlockSequenceId + Cardinality(LinkedBy(b))
            /\ candidates' = candidates \cup NotWorse(LinkedBy(b), nSequenceId')
            /\ unlinked' = unlinked \ LinkedBy(b)
     ELSE /\ unlinked' = unlinked \cup {b}
          /\ UNCHANGED <<chainTx, nSequenceId, nBlockSequenceId, candidates>>

\* AcceptBlock under cs_main, then CheckBlockIndex.
AcceptBlock(t) ==
  LET b == pblock[t] IN
  /\ pc[t] = "accept"
  /\ Unlocked
  /\ \/ \* "prev block is invalid", or a duplicate that is marked invalid
        /\ Failed(Parent[b]) \/ Failed(b)
        /\ Goto(t, "idle")
        /\ pblock' = [pblock EXCEPT ![t] = none]
        /\ UNCHANGED indexVars
     \/ \* "already have block"
        /\ ~Failed(Parent[b]) /\ ~Failed(b)
        /\ HasData(b)
        /\ Goto(t, "activate")
        /\ UNCHANGED <<indexVars, pblock>>
     \/ \* ContextualCheckBlock fails
        /\ ~Failed(Parent[b]) /\ ~Failed(b)
        /\ ~HasData(b)
        /\ b \in BadContext
        /\ nStatus' = [nStatus EXCEPT ![b] = @ \cup {"tree", "failed_valid"}]
        /\ dirty' = dirty \cup {b}
        /\ Goto(t, "idle")
        /\ pblock' = [pblock EXCEPT ![t] = none]
        /\ UNCHANGED <<chainTx, nSequenceId, nBlockSequenceId, candidates, unlinked>>
     \/ /\ ~Failed(Parent[b]) /\ ~Failed(b)
        /\ ~HasData(b)
        /\ b \notin BadContext
        /\ ReceivedBlockTransactions(b)
        /\ dirty' = dirty \cup {b}
        /\ Goto(t, "activate")
        /\ UNCHANGED pblock
  /\ UNCHANGED <<tipVars, diskVars, lockVars, mostWork, pending, heldVars, used>>

-----------------------------------------------------------------------------
(***************************************************************************)
(* FlushStateToDisk: the dirty block index entries in one batch, then the  *)
(* coins with their best block in another.  The mutant begins with the     *)
(* coins.                                                                  *)
(***************************************************************************)
WriteCoinsFirst(status, D, next) ==
  /\ diskTip' = coinsTip'
  /\ writing' = next
  /\ UNCHANGED <<diskStatus, dirty>>

WriteIndex(status, D, next) ==
  /\ diskStatus' = [b \in Block |-> IF b \in D THEN status[b] ELSE diskStatus[b]]
  /\ dirty' = {}
  /\ writing' = next
  /\ UNCHANGED diskTip

\* DisconnectTip until pcoinsTip and the index are written.
DisconnectTip(status, D) ==
  /\ coinsTip' = Parent[tip]
  /\ WriteIndex(status, D, "disconnect")
  /\ UNCHANGED tip

-----------------------------------------------------------------------------
(***************************************************************************)
(* ActivateBestChain.                                                      *)
(***************************************************************************)

\* A block on which FindMostWorkChain gives up; the mutant looks for missing
\* data only.
DataMissing(x) == ~HasData(x)
Unusable(x) == Failed(x) \/ ~HasData(x)

\* FindMostWorkChain, and the start of ActivateBestChainStep.  Candidates with
\* an unusable block on their branch are dropped, best first, with the part
\* of the branch above that block, until a usable one is found.
Activate(t) ==
  LET usable   == {c \in candidates : \A x \in Branch(c) : ~Unusable(x)}
      dropped  == {c \in candidates \ usable : \A u \in usable : Better(c, u)}
      culprit(c) == Highest({x \in Branch(c) : Unusable(x)})
      above(c) == {x \in Chain[c] : Height[x] > Height[culprit(c)]}
      failing  == {c \in dropped : Failed(culprit(c))}
      best     == CHOOSE c \in usable : \A u \in usable \ {c} : Better(c, u)
  IN
  /\ pc[t] = "activate"
  /\ Unlocked
  /\ candidates' = candidates \ UNION {above(c) \cup {culprit(c)} : c \in dropped}
  /\ nStatus' = Marked(UNION {above(c) : c \in failing}, "failed_child")
  /\ unlinked' = unlinked \cup UNION {above(c) : c \in dropped \ failing}
  /\ IF usable = {} \/ best = tip
     THEN /\ Goto(t, "idle")
          /\ pblock' = [pblock EXCEPT ![t] = none]
          /\ UNCHANGED <<mostWork, oldTip>>
     ELSE /\ Goto(t, "reorg")
          /\ mostWork' = [mostWork EXCEPT ![t] = best]
          /\ oldTip' = tip
          /\ UNCHANGED pblock
  /\ UNCHANGED <<chainTx, nSequenceId, nBlockSequenceId, dirty, tipVars, diskVars,
                 lockVars, pending, target, left, used>>

\* "Disconnect active blocks which are no longer in the best chain."
ReorgDisconnect(t) ==
  /\ pc[t] = "reorg"
  /\ writing = "none"
  /\ tip \notin Chain[mostWork[t]]
  /\ DisconnectTip(nStatus, dirty)
  /\ UNCHANGED <<nStatus, chainTx, nSequenceId, nBlockSequenceId, candidates, unlinked,
                 lockVars, threadVars, heldVars, used>>

\* The next block to connect.
NextBlock(t) == CHOOSE b \in Chain[mostWork[t]] \ {Genesis} : Parent[b] = tip

\* CheckBlock is skipped for the block that ProcessNewBlock checked already.
Rechecked(t, b) == ~(b = mostWork[t] /\ b = pblock[t])

AtConnect(t) ==
  /\ pc[t] = "reorg"
  /\ writing = "none"
  /\ tip # mostWork[t]
  /\ tip \in Chain[mostWork[t]]

\* The rest of ConnectTip, and of the loop body around it.
Connected(t, b) ==
  /\ tip' = b
  /\ candidates' = Prune(candidates, b, nSequenceId)
  /\ IF b = mostWork[t] \/ Work[b] > Work[oldTip]
     THEN Goto(t, "released") /\ oldTip' = none
     ELSE UNCHANGED <<pc, oldTip>>

\* setDirtyBlockIndex after ConnectBlock raised the validity of b.
DirtyAfterConnect(b) == IF "scripts" \in nStatus[b] THEN dirty ELSE dirty \cup {b}

\* ConnectBlock succeeds; the cache is flushed if it is full or a new block
\* file was begun.
ConnectTip(t) ==
  LET b == NextBlock(t) IN
  /\ AtConnect(t)
  /\ b \notin Invalid
  /\ b \in contested => ~Rechecked(t, b)
  /\ nStatus' = Marked({b}, "scripts")
  /\ coinsTip' = b
  /\ \/ /\ Connected(t, b)
        /\ dirty' = DirtyAfterConnect(b)
        /\ UNCHANGED diskVars
     \/ /\ WriteIndex(nStatus', DirtyAfterConnect(b), "connect")
        /\ UNCHANGED <<tip, candidates, pc, oldTip>>
  /\ UNCHANGED <<chainTx, nSequenceId, nBlockSequenceId, unlinked, lockVars,
                 pblock, mostWork, pending, target, left, used>>

\* mapRejectedBlocks after b failed.
RejectedAfter(t, b) ==
  IF b \in contested /\ Rechecked(t, b) THEN rejected \cup {b} ELSE rejected

\* InvalidBlockFound, and the mutant that takes every failure for a possible
\* corruption of the block's data.
CorruptionPossible(b) == UNCHANGED <<nStatus, dirty, candidates>>
InvalidBlockFound(b) ==
  /\ nStatus' = Marked({b}, "failed_valid")
  /\ dirty' = dirty \cup {b}
  /\ candidates' = candidates \ {b}

\* ConnectBlock fails: InvalidBlockFound, and the step ends.
ConnectFails(t) ==
  LET b == NextBlock(t) IN
  /\ AtConnect(t)
  /\ b \in Invalid \/ (b \in contested /\ Rechecked(t, b))
  /\ InvalidBlockFound(b)
  /\ rejected' = RejectedAfter(t, b)
  /\ Goto(t, "released")
  /\ oldTip' = none
  /\ UNCHANGED <<chainTx, nSequenceId, nBlockSequenceId, unlinked, tipVars, diskVars,
                 contested, pblock, mostWork, pending, target, left, used>>

\* The second write of a flush; then UpdateTip, or the end of ActivateBestChain.
WriteCoins(t) ==
  /\ pc[t] \in {"reorg", "invalidate", "reprocess", "flush"}
  /\ diskTip' = coinsTip
  /\ writing' = "none"
  /\ \/ /\ writing = "disconnect"
        /\ tip' = coinsTip
        /\ UNCHANGED <<candidates, threadVars, oldTip>>
     \/ /\ writing = "connect"
        /\ Connected(t, coinsTip)
        /\ UNCHANGED <<pblock, mostWork, pending>>
     \/ /\ writing = "periodic"
        /\ Goto(t, "idle")
        /\ pblock' = [pblock EXCEPT ![t] = none]
        /\ UNCHANGED <<candidates, tip, mostWork, pending, oldTip>>
  /\ UNCHANGED <<nStatus, chainTx, nSequenceId, nBlockSequenceId, unlinked, dirty,
                 coinsTip, diskStatus, lockVars, target, left, used>>

\* "while (pindexMostWork != chainActive.Tip())", and the mutant without a loop.
OnlyOnce(t) == "finish"
Repeat(t) == IF mostWork[t] = tip THEN "finish" ELSE "activate"

\* The loop condition is read without the lock.
Released(t) ==
  /\ pc[t] = "released"
  /\ Goto(t, Repeat(t))
  /\ mostWork' = [mostWork EXCEPT ![t] = none]
  /\ UNCHANGED <<indexVars, tipVars, diskVars, lockVars, pblock, pending, heldVars, used>>

\* CheckBlockIndex, then FlushStateToDisk(FLUSH_STATE_PERIODIC).
Finish(t) ==
  /\ pc[t] = "finish"
  /\ Unlocked
  /\ UNCHANGED tipVars
  /\ \/ /\ Goto(t, "idle")
        /\ pblock' = [pblock EXCEPT ![t] = none]
        /\ UNCHANGED <<dirty, diskVars>>
     \/ /\ Goto(t, "flush")
        /\ WriteIndex(nStatus, dirty, "periodic")
        /\ UNCHANGED pblock
  /\ UNCHANGED <<nStatus, chainTx, nSequenceId, nBlockSequenceId, candidates, unlinked,
                 lockVars, mostWork, pending, heldVars, used>>

-----------------------------------------------------------------------------
(***************************************************************************)
(* Taking blocks out of the chain, and giving them another chance.         *)
(***************************************************************************)

\* InvalidateBlock, called by the invalidateblock RPC.
InvalidateBlock(t, b) ==
  /\ pc[t] = "idle"
  /\ Unlocked
  /\ Known(b)
  /\ Use("invalidate")
  /\ nStatus' = Marked({b}, "failed_valid")
  /\ dirty' = dirty \cup {b}
  /\ candidates' = candidates \ {b}
  /\ target' = b
  /\ Goto(t, "invalidate")
  /\ UNCHANGED <<chainTx, nSequenceId, nBlockSequenceId, unlinked, tipVars, diskVars,
                 lockVars, pblock, mostWork, pending, oldTip, left>>

InvalidateTip(t) ==
  /\ pc[t] = "invalidate"
  /\ writing = "none"
  /\ target \in Active
  /\ nStatus' = Marked({tip}, "failed_child")
  /\ candidates' = candidates \ {tip}
  /\ DisconnectTip(nStatus', dirty \cup {tip})
  /\ UNCHANGED <<chainTx, nSequenceId, nBlockSequenceId, unlinked, lockVars,
                 threadVars, heldVars, used>>

\* "The resulting new best tip may not be in setBlockIndexCandidates anymore".
ToRestore(S) == S

InvalidateEnd(t) ==
  /\ pc[t] = "invalidate"
  /\ writing = "none"
  /\ target \notin Active
  /\ candidates' = candidates \cup
       ToRestore(NotWorse({x \in chainTx : IsValid(nStatus[x])}, nSequenceId))
  /\ target' = none
  /\ Goto(t, "activate")
  /\ UNCHANGED <<nStatus, chainTx, nSequenceId, nBlockSequenceId, unlinked, dirty, tipVars,
                 diskVars, lockVars, pblock, mostWork, pending, oldTip, left, used>>

\* The index after ReconsiderBlock(b): b, what descends from it, and its ancestors.
Reconsider(b) ==
  LET below   == {x \in Block : Known(x) /\ ~IsValid(nStatus[x]) /\ b \in Chain[x]}
      cleared == below \cup {x \in Chain[b] : Failed(x)}
  IN
  /\ nStatus' = [x \in Block |-> IF x \in cleared THEN nStatus[x] \ FailedMask ELSE nStatus[x]]
  /\ dirty' = dirty \cup cleared
  /\ candidates' = candidates \cup
       OnlyBetter({x \in below : HasData(x) /\ x \in chainTx}, nSequenceId)
  /\ UNCHANGED <<chainTx, nSequenceId, nBlockSequenceId, unlinked, tipVars, diskVars>>

\* The reconsiderblock RPC.
ReconsiderBlock(t, b) ==
  /\ pc[t] = "idle"
  /\ Unlocked
  /\ Known(b)
  /\ Use("reconsider")
  /\ Reconsider(b)
  /\ Goto(t, "activate")
  /\ UNCHANGED <<lockVars, pblock, mostWork, pending, heldVars>>

\* ReprocessBlocks, called when a SwiftX lock completes for a transaction that
\* the chain rejected: first every rejected block is reconsidered.
ReprocessBlocks(t) ==
  /\ pc[t] = "idle"
  /\ Use("reprocess")
  /\ pending' = [pending EXCEPT ![t] = {b \in rejected : Known(b)}]
  /\ Goto(t, "reconsider")
  /\ UNCHANGED <<indexVars, tipVars, diskVars, lockVars, pblock, mostWork, heldVars>>

ReprocessReconsider(t) ==
  /\ pc[t] = "reconsider"
  /\ Unlocked
  /\ \E b \in pending[t] :
       /\ Reconsider(b)
       /\ pending' = [pending EXCEPT ![t] = @ \ {b}]
  /\ UNCHANGED <<lockVars, pc, pblock, mostWork, heldVars, used>>

\* DisconnectBlocksAndReprocess: one block more than it is asked for.  (The
\* chain is longer than that; the bound keeps the genesis block in it.)
ReprocessStart(t) ==
  /\ pc[t] = "reconsider"
  /\ Unlocked
  /\ pending[t] = {}
  /\ left' = IF Height[tip] > ReprocessDepth THEN ReprocessDepth + 1 ELSE Height[tip]
  /\ Goto(t, "reprocess")
  /\ UNCHANGED <<indexVars, tipVars, diskVars, lockVars, pblock, mostWork, pending,
                 oldTip, target, used>>

ReprocessDisconnect(t) ==
  /\ pc[t] = "reprocess"
  /\ writing = "none"
  /\ left > 0
  /\ left' = left - 1
  /\ DisconnectTip(nStatus, dirty)
  /\ UNCHANGED <<nStatus, chainTx, nSequenceId, nBlockSequenceId, candidates, unlinked,
                 lockVars, threadVars, oldTip, target, used>>

ReprocessEnd(t) ==
  /\ pc[t] = "reprocess"
  /\ writing = "none"
  /\ left = 0
  /\ Goto(t, "activate")
  /\ UNCHANGED <<indexVars, tipVars, diskVars, lockVars, pblock, mostWork, pending,
                 heldVars, used>>

\* A SwiftX lock completes or expires, a payment vote arrives: CheckBlock
\* changes its mind about a block.  None of this is under cs_main.
Contest(b) ==
  /\ b \notin contested
  /\ Use("contest")
  /\ contested' = contested \cup {b}
  /\ UNCHANGED <<indexVars, tipVars, diskVars, rejected, threadVars, heldVars>>

Settle(b) ==
  /\ b \in contested
  /\ contested' = contested \ {b}
  /\ UNCHANGED <<indexVars, tipVars, diskVars, rejected, threadVars, heldVars, used>>

-----------------------------------------------------------------------------
\* The process dies, between any two steps; LoadBlockIndexDB rebuilds the
\* memory from the databases, and the import thread activates the best chain.
CrashAndRestart(t) ==
  LET linked  == {b \in Block : \A x \in Chain[b] : "data" \in diskStatus[x]}
      seq     == [b \in Block |-> 0]
  IN
  /\ Use("crash")
  /\ nStatus' = diskStatus
  /\ chainTx' = linked
  /\ nSequenceId' = seq
  /\ nBlockSequenceId' = 1
  /\ candidates' = Prune({b \in linked : IsValid(diskStatus[b])}, diskTip, seq)
  /\ unlinked' = {b \in Block \ linked : "data" \in diskStatus[b]}
  /\ dirty' = {}
  /\ tip' = diskTip
  /\ coinsTip' = diskTip
  /\ writing' = "none"
  /\ contested' = {}
  /\ rejected' = {}
  /\ pc' = [u \in Threads |-> IF u = t THEN "activate" ELSE "idle"]
  /\ pblock' = [u \in Threads |-> none]
  /\ mostWork' = [u \in Threads |-> none]
  /\ pending' = [u \in Threads |-> {}]
  /\ oldTip' = none
  /\ target' = none
  /\ left' = 0
  /\ UNCHANGED <<diskStatus, diskTip>>

\* Steps of a thread that is somewhere in the middle of a call.
ThreadStep(t) ==
  \/ AcceptBlock(t)
  \/ Activate(t) \/ ReorgDisconnect(t) \/ ConnectTip(t) \/ ConnectFails(t)
  \/ WriteCoins(t) \/ Released(t) \/ Finish(t)
  \/ InvalidateTip(t) \/ InvalidateEnd(t)
  \/ ReprocessReconsider(t) \/ ReprocessStart(t) \/ ReprocessDisconnect(t) \/ ReprocessEnd(t)

Next ==
  \/ \E b \in Block \ {Genesis} : AcceptHeader(b)
  \/ \E t \in Threads, b \in Block \ {Genesis} :
       CheckNewBlock(t, b) \/ InvalidateBlock(t, b) \/ ReconsiderBlock(t, b)
  \/ \E t \in Threads : ReprocessBlocks(t)
  \/ \E t \in Threads : ThreadStep(t)
  \/ \E b \in Contestable : Contest(b) \/ Settle(b)
  \/ \E t \in Threads : CrashAndRestart(t)

Spec == Init /\ [][Next]_vars

\* A thread that wants cs_main gets it in the end: TRY_LOCK is retried every
\* 50 ms, and the other threads let go of it between blocks.
FairSpec == Spec /\ \A t \in Threads : SF_vars(ThreadStep(t))
-----------------------------------------------------------------------------
\* Every variable keeps its type: the flags, the sets of blocks and the
\* program counters of the threads stay among those that main.cpp has.
TypeOK ==
  /\ nStatus \in [Block -> SUBSET Flags]
  /\ chainTx \subseteq Block
  /\ nSequenceId \in [Block -> Nat]
  /\ nBlockSequenceId \in Nat
  /\ candidates \subseteq Block
  /\ unlinked \subseteq Block
  /\ dirty \subseteq Block
  /\ tip \in Block /\ coinsTip \in Block
  /\ diskStatus \in [Block -> SUBSET Flags]
  /\ diskTip \in Block
  /\ writing \in {"none", "disconnect", "connect", "periodic"}
  /\ contested \subseteq Contestable /\ rejected \subseteq Contestable
  /\ pc \in [Threads -> PCs]
  /\ pblock \in [Threads -> Block \cup {none}]
  /\ mostWork \in [Threads -> Block \cup {none}]
  /\ pending \in [Threads -> SUBSET Block]
  /\ oldTip \in Block \cup {none}
  /\ target \in Block \cup {none}
  /\ left \in Nat
  /\ used \in [Operations -> Nat]

\* pindexFirstMissing = NULL, pindexFirstInvalid = NULL
NothingMissing(b) == \A x \in Chain[b] : HasData(x)
NothingInvalid(b) == \A x \in Chain[b] : "failed_valid" \notin nStatus[x]

\* No thread has anything left to do.
Quiet == \A t \in Threads : pc[t] = "idle"

(***************************************************************************)
(* The assertions of CheckBlockIndex that relate the block tree to the     *)
(* bookkeeping beside it, wherever a thread may call it (cs_main free).    *)
(*                                                                         *)
(* LinksExact: nChainTx is set exactly if every ancestor has its data, and *)
(* mapBlocksUnlinked holds exactly the blocks with data that wait for an   *)
(* ancestor; a sequence id never stands on a block that is not linked.     *)
(***************************************************************************)
LinksExact ==
  Unlocked =>
    /\ chainTx = {b \in Block : NothingMissing(b)}
    /\ unlinked = {b \in Block : HasData(b) /\ ~NothingMissing(b)}
    /\ \A b \in Block \ chainTx : nSequenceId[b] = 0

(***************************************************************************)
(* "If this block sorts worse than the current tip, it cannot be in        *)
(* setBlockIndexCandidates"; nor can one whose data is not linked, which   *)
(* FindMostWorkChain asserts.                                              *)
(***************************************************************************)
CandidatesSound ==
  /\ candidates \subseteq chainTx
  /\ Unlocked => \A c \in candidates : ~SortsBefore(c, tip, nSequenceId)

(***************************************************************************)
(* "If this block sorts at least as good as the current tip and is valid,  *)
(* it must be in setBlockIndexCandidates."                                 *)
(***************************************************************************)
MustBeCandidate ==
  {b \in chainTx : NothingInvalid(b) /\ ~SortsBefore(b, tip, nSequenceId)}

CandidatesComplete == Unlocked => MustBeCandidate \subseteq candidates

\* The same where no thread is inside ActivateBestChain.
CandidatesCompleteAtRest ==
  (\A t \in Threads : pc[t] \in {"idle", "accept"}) => MustBeCandidate \subseteq candidates

(***************************************************************************)
(* "The failed mask cannot be set for blocks without invalid parents."     *)
(***************************************************************************)
FailuresExplained ==
  Unlocked => \A b \in Block : Failed(b) => ~NothingInvalid(b)

(***************************************************************************)
(* The active chain is one the node vouches for: every block of it has     *)
(* data, none is marked failed, its scripts were checked on top of checked *)
(* parents, and the coins are those of its tip.                            *)
(***************************************************************************)
ActiveChainValid ==
  Unlocked =>
    /\ coinsTip = tip
    /\ \A b \in Active : HasData(b) /\ ~Failed(b)
    /\ \A b \in Active \ {Genesis} : "scripts" \in nStatus[b]

(***************************************************************************)
(* When nothing is left to do, the tip is the best of all the chains whose *)
(* data the node has and in which it knows no failure: no block is         *)
(* forgotten by an early return, a release of cs_main or a failed reorg.   *)
(***************************************************************************)
BestChainActive ==
  Quiet => \A b \in chainTx : NothingInvalid(b) => ~SortsBefore(tip, b, nSequenceId)

(***************************************************************************)
(* "Either the current tip or a successor of it we're working towards is   *)
(* left in setBlockIndexCandidates": what PruneBlockIndexCandidates        *)
(* asserts after every connected block, and at every start.  It fails      *)
(* after a crash in InvalidateBlock, whose marks are saved before the      *)
(* block is disconnected.                                                  *)
(***************************************************************************)
PruneCalled ==
  \/ tip' # tip /\ writing # "disconnect"
  \/ used'["crash"] # used["crash"]

PruneLeavesSomething == [][PruneCalled => candidates' # {}]_vars

(***************************************************************************)
(* What is on disk can be loaded, at any moment: the chain of the coins is *)
(* in the index with its data and its checked scripts, and the index holds *)
(* with every block its parent.                                            *)
(***************************************************************************)
DiskLoadable ==
  /\ \A b \in Chain[diskTip] : "data" \in diskStatus[b]
  /\ \A b \in Chain[diskTip] \ {Genesis} : "scripts" \in diskStatus[b]
  /\ ParentClosed({b \in Block : diskStatus[b] # {}})

\* ActivateBestChain returns: reorganisations that keep failing run out.
ActivationEnds == \A t \in Threads : pc[t] = "activate" ~> pc[t] = "idle"
=============================================================================
