------------------------------- MODULE Mempool -------------------------------
(***************************************************************************)
(* The memory pool of src/src/txmempool.cpp and the orphan transactions of *)
(* src/src/main.cpp, against a chain that grows and is disconnected.       *)
(*                                                                         *)
(* pcoinsTip is a function of the chain (Ledger shows that), so it is no   *)
(* variable here.  Which blocks are connected and disconnected is          *)
(* ChainState's business: here any valid block may come, and any tip go.   *)
(* A step is what is done to the pool between two calls of mempool.check.  *)
(*                                                                         *)
(* Left out: fees, priorities and the fee estimator, scripts, lock times,  *)
(* zerocoin spends (which have no entry in mapNextTx), the punishment of   *)
(* peers, and -checkmempool=0.                                             *)
(***************************************************************************)
EXTENDS Integers, Sequences, FiniteSets, SequencesExt

CONSTANTS
  Tx,           \* transactions; an outpoint is <<transaction, output number>>
  Inputs,       \* the prevouts of each transaction
  Outputs,      \* how many outputs each has
  Funding,      \* transactions confirmed and mature long before the behaviour begins
  Generated,    \* coinbases and coinstakes
  NonStandard,  \* transactions IsStandardTx refuses but a block may hold
  Peers,
  Maturity,     \* COINBASE_MATURITY
  MaxOrphanTx,  \* -maxorphantx
  \* bounds: blocks above Funding, transactions in a block
  MaxHeight, MaxBlockTx

ASSUME MempoolAssumption ==
  /\ Funding \cup Generated \cup NonStandard \subseteq Tx
  /\ Funding \cap Generated = {}
  /\ Outputs \in [Tx -> Nat]
  /\ Inputs \in [Tx -> SUBSET {o \in Tx \X Nat : o[2] \in 1 .. Outputs[o[1]]}]
  /\ \A t \in Tx : Inputs[t] = {} <=> t \in Funding \cup Generated
  /\ {Maturity, MaxOrphanTx, MaxHeight, MaxBlockTx} \subseteq Nat

VARIABLES
  chain,            \* the vtx of each block above Funding
  pool,             \* mapTx (a set) and mapNextTx of CTxMemPool
  orphans,          \* mapOrphanTransactions (their peers), and ...ByPrev
  mapLockedInputs,  \* of swifttx.cpp: the transaction an outpoint is locked to
  \* locals of the handler of "tx": the accepted transactions whose orphans it
  \* has yet to try, the orphans of the first that are left, those to erase
  vWorkQueue, todo, vEraseQueue

workVars == <<vWorkQueue, todo, vEraseQueue>>
poolVars == <<chain, pool, orphans, workVars>>
vars == <<poolVars, mapLockedInputs>>

\* The handler of "tx" holds cs_main until its work queue is done.
MainFree == vWorkQueue = <<>>

Restricted(f, S) == [x \in S \cap DOMAIN f |-> f[x]]

-----------------------------------------------------------------------------
(***************************************************************************)
(* The coins of a chain.                                                   *)
(***************************************************************************)
Mined(c) == UNION {Range(c[i]) : i \in DOMAIN c}
Confirmed(c) == Funding \cup Mined(c)
Height(c, t) == CHOOSE i \in DOMAIN c : t \in Range(c[i])

Unspent(c, o) ==
  /\ o[1] \in Confirmed(c)
  /\ \A t \in Mined(c) : o \notin Inputs[t]

\* CheckInputs, for the block after c.
Mature(c, o) == o[1] \in Generated => Len(c) + 1 - Height(c, o[1]) >= Maturity

\* CCoinsViewMemPool over pcoinsTip.
HaveCoins(c, p, t) ==
  t \in p.mapTx \/ \E n \in 1 .. Outputs[t] : Unspent(c, <<t, n>>)
Available(c, p, o) ==
  o[1] \in p.mapTx \/ (Unspent(c, o) /\ Mature(c, o))

\* The transactions of a block that ConnectBlock accepts on top of c.
ValidBlock(c, vtx) ==
  \A i \in DOMAIN vtx :
    LET before == Append(c, SubSeq(vtx, 1, i - 1)) IN
    /\ vtx[i] \notin Confirmed(before)
    /\ vtx[i] \in Generated => i = 1
    /\ \A o \in Inputs[vtx[i]] : Unspent(before, o) /\ (o[1] \in Mined(c) => Mature(c, o))

-----------------------------------------------------------------------------
(***************************************************************************)
(* CTxMemPool.                                                             *)
(***************************************************************************)
EmptyPool == [mapTx |-> {}, mapNextTx |-> <<>>]

AddUnchecked(p, t) ==
  [mapTx |-> p.mapTx \cup {t},
   mapNextTx |-> [o \in DOMAIN p.mapNextTx \cup Inputs[t] |->
                    IF o \in Inputs[t] THEN t ELSE p.mapNextTx[o]]]

Without(p, S) ==
  [mapTx |-> p.mapTx \ S,
   mapNextTx |-> Restricted(p.mapNextTx, DOMAIN p.mapNextTx \ UNION {Inputs[t] : t \in S \cap p.mapTx})]

\* The transactions of the pool that spend an output of one of S.
Children(p, S) ==
  {p.mapNextTx[o] : o \in {o \in DOMAIN p.mapNextTx : o[1] \in S}}

\* What remove(t, TRUE) takes out: t, which need not be in the pool itself,
\* and everything that descends from it.
Descendants(p, t) ==
  {d \in p.mapTx \cup {t} :
     \A S \in SUBSET (p.mapTx \cup {t}) : t \in S /\ Children(p, S) \subseteq S => d \in S}

\* remove(t, TRUE)
RemoveRecursively(p, t) == Without(p, Descendants(p, t))

\* removeConflicts(t), with the descendants of the conflicts.
RemoveConflicts(p, t) ==
  LET conflicts == {p.mapNextTx[o] : o \in Inputs[t] \cap DOMAIN p.mapNextTx} \ {t} IN
  Without(p, UNION {Descendants(p, x) : x \in conflicts})

\* removeForBlock(vtx): what is left after the first i of vtx, for every i.
RemoveForBlock(p, vtx) ==
  LET left[i \in 0 .. Len(vtx)] ==
        IF i = 0 THEN p ELSE RemoveConflicts(Without(left[i - 1], {vtx[i]}), vtx[i])
  IN left[Len(vtx)]

\* removeCoinbaseSpends, with c the chain that is left; the mutant does nothing.
KeepCoinbaseSpends(c, p) == p
RemoveCoinbaseSpends(c, p) ==
  LET immature == {t \in p.mapTx : \E o \in Inputs[t] :
                     /\ o[1] \notin p.mapTx
                     /\ o[1] \in Confirmed(c) => ~Mature(c, o)} IN
  Without(p, UNION {Descendants(p, t) : t \in immature})

\* An input of t is locked to another transaction; the mutant does not ask.
LockIgnored(t) == FALSE
LockConflict(t) ==
  \E o \in Inputs[t] \cap DOMAIN mapLockedInputs : mapLockedInputs[o] # t

\* AcceptToMemoryPool(t): pfMissingInputs, or success.  The inputs of Funding,
\* which the model does not have, were spent long ago.
InputsKnown(c, p, t) == \A o \in Inputs[t] : HaveCoins(c, p, o[1])
Considered(c, p, t) ==
  /\ t \notin Funding \cup Generated \cup NonStandard \cup p.mapTx
  /\ Inputs[t] \cap DOMAIN p.mapNextTx = {}
  /\ ~HaveCoins(c, p, t)
MissingInputs(c, p, t) == ~LockConflict(t) /\ Considered(c, p, t) /\ ~InputsKnown(c, p, t)

Fits(c, p, t) ==
  Considered(c, p, t) /\ InputsKnown(c, p, t) /\ \A o \in Inputs[t] : Available(c, p, o)
Acceptable(c, p, t) == ~LockConflict(t) /\ Fits(c, p, t)

\* One transaction of a disconnected block; those in refused met a lock.
Resurrect(c, p, t, refused) ==
  IF t \notin refused /\ Fits(c, p, t) THEN AddUnchecked(p, t) ELSE RemoveRecursively(p, t)

\* The block's transactions in the order in which they come back; the mutant
\* takes the last one first, as DisconnectBlock does.
LastFirst(vtx) == Reverse(vtx)
InOrder(vtx) == vtx

-----------------------------------------------------------------------------
(***************************************************************************)
(* The orphan maps.                                                        *)
(***************************************************************************)
NoOrphans == [tx |-> <<>>, byPrev |-> <<>>]

Parents(t) == {o[1] : o \in Inputs[t]}

AddOrphan(orph, t, peer) ==
  IF t \in DOMAIN orph.tx THEN orph
  ELSE [tx |-> [x \in DOMAIN orph.tx \cup {t} |-> IF x = t THEN peer ELSE orph.tx[x]],
        byPrev |-> [u \in DOMAIN orph.byPrev \cup Parents(t) |->
                      (IF u \in DOMAIN orph.byPrev THEN orph.byPrev[u] ELSE {})
                        \cup (IF u \in Parents(t) THEN {t} ELSE {})]]

\* EraseOrphanTx of each of S.
EraseOrphans(orph, S) ==
  [tx |-> Restricted(orph.tx, DOMAIN orph.tx \ S),
   byPrev |-> [u \in {u \in DOMAIN orph.byPrev : ~(orph.byPrev[u] \subseteq S)} |->
                 orph.byPrev[u] \ S]]

\* LimitOrphanTxSize: which ones are evicted is a matter of chance.
Limited(orph) ==
  {EraseOrphans(orph, S) : S \in {S \in SUBSET DOMAIN orph.tx :
     Cardinality(S) = Max({0, Cardinality(DOMAIN orph.tx) - MaxOrphanTx})}}

WaitingFor(t) == IF t \in DOMAIN orphans.byPrev THEN orphans.byPrev[t] ELSE {}

-----------------------------------------------------------------------------
Init ==
  /\ chain = <<>>
  /\ pool = EmptyPool
  /\ orphans = NoOrphans
  /\ mapLockedInputs = <<>>
  /\ vWorkQueue = <<>> /\ todo = {} /\ vEraseQueue = {}

\* The message "tx" from a peer.
ReceiveTx(t, peer) ==
  /\ MainFree
  /\ \/ /\ Acceptable(chain, pool, t)
        /\ pool' = AddUnchecked(pool, t)
        /\ vWorkQueue' = <<t>>
        /\ todo' = WaitingFor(t)
        /\ UNCHANGED <<orphans, vEraseQueue>>
     \/ /\ MissingInputs(chain, pool, t)
        /\ orphans' \in Limited(AddOrphan(orphans, t, peer))
        /\ UNCHANGED <<pool, workVars>>
  /\ UNCHANGED <<chain, mapLockedInputs>>

\* What is left to do after the orphan t was accepted; the mutant does not look
\* for orphans of orphans.
OneLevel(t) == vWorkQueue
Deeper(t) == Append(vWorkQueue, t)

\* The next orphan that depends on the first of vWorkQueue.  An orphan that
\* has all its inputs and is still not accepted is dropped.
TryOrphan(t) ==
  /\ t \in todo
  /\ todo' = todo \ {t}
  /\ \/ /\ Acceptable(chain, pool, t)
        /\ pool' = AddUnchecked(pool, t)
        /\ vWorkQueue' = Deeper(t)
        /\ vEraseQueue' = vEraseQueue \cup {t}
     \/ /\ ~Acceptable(chain, pool, t) /\ ~MissingInputs(chain, pool, t)
        /\ vEraseQueue' = vEraseQueue \cup {t}
        /\ UNCHANGED <<pool, vWorkQueue>>
     \/ /\ MissingInputs(chain, pool, t)
        /\ UNCHANGED <<pool, vWorkQueue, vEraseQueue>>
  /\ UNCHANGED <<chain, orphans, mapLockedInputs>>

\* The next entry of vWorkQueue, or the end of the handler.
NextParent ==
  /\ ~MainFree /\ todo = {}
  /\ vWorkQueue' = Tail(vWorkQueue)
  /\ \/ /\ Len(vWorkQueue) > 1
        /\ todo' = WaitingFor(vWorkQueue[2])
        /\ UNCHANGED <<orphans, vEraseQueue>>
     \/ /\ Len(vWorkQueue) = 1
        /\ orphans' = EraseOrphans(orphans, vEraseQueue)
        /\ vEraseQueue' = {}
        /\ UNCHANGED todo
  /\ UNCHANGED <<chain, pool, mapLockedInputs>>

\* AcceptToMemoryPool for a transaction of the wallet or of an RPC.
Submit(t) ==
  /\ MainFree
  /\ Acceptable(chain, pool, t)
  /\ pool' = AddUnchecked(pool, t)
  /\ UNCHANGED <<chain, orphans, workVars, mapLockedInputs>>

\* FinalizeNode: EraseOrphansFor.
PeerGone(peer) ==
  /\ MainFree
  /\ orphans' = EraseOrphans(orphans, {t \in DOMAIN orphans.tx : orphans.tx[t] = peer})
  /\ UNCHANGED <<chain, pool, workVars, mapLockedInputs>>

\* ConnectTip from ConnectBlock on, which accepts the block.
ConnectChecked(vtx) ==
  /\ MainFree
  /\ Len(chain) < MaxHeight
  /\ ValidBlock(chain, vtx)
  /\ chain' = Append(chain, vtx)
  /\ pool' = RemoveForBlock(pool, vtx)
  /\ UNCHANGED <<orphans, workVars, mapLockedInputs>>

\* CheckBlock finds no conflict with a lock, and the block is connected.  That is
\* one step here, for a thread beside which no lock is made: the message thread,
\* which makes the locks.  SwiftLocks has the blocks of the other threads.
CheckBlock(vtx) == \A t \in Range(vtx) \ Generated : ~LockConflict(t)
ConnectTip(vtx) == CheckBlock(vtx) /\ ConnectChecked(vtx)

\* The pool after all of vtx came back, with c the chain that is left.
Resurrected(c, p, vtx, refused) ==
  LET after[i \in 0 .. Len(vtx)] ==
        IF i = 0 THEN p ELSE Resurrect(c, after[i - 1], vtx[i], refused)
  IN after[Len(vtx)]

\* What DisconnectTip leaves of the pool.
AfterDisconnect(c, p, vtx, refused) ==
  RemoveCoinbaseSpends(c, Resurrected(c, p, InOrder(vtx), refused))

\* DisconnectTip where the locks refused those transactions.
DisconnectRefusing(refused) ==
  /\ MainFree
  /\ chain # <<>>
  /\ chain' = Front(chain)
  /\ pool' = AfterDisconnect(Front(chain), pool, Last(chain), refused)
  /\ UNCHANGED <<orphans, workVars, mapLockedInputs>>

DisconnectTip == DisconnectRefusing({t \in Tx : LockConflict(t)})

Blocks == {vtx \in SeqOf(Tx \ Funding, MaxBlockTx) : IsInjective(vtx)}

PoolNext ==
  \/ \E t \in Tx, peer \in Peers : ReceiveTx(t, peer)
  \/ \E t \in todo : TryOrphan(t)
  \/ NextParent
  \/ \E t \in Tx : Submit(t)
  \/ \E peer \in Peers : PeerGone(peer)
  \/ \E vtx \in Blocks : ConnectTip(vtx)
  \/ DisconnectTip

PoolSpec == Init /\ [][PoolNext]_vars

-----------------------------------------------------------------------------
TypeOK ==
  /\ chain \in Seq(Seq(Tx)) /\ Len(chain) <= MaxHeight
  /\ pool.mapTx \subseteq Tx /\ Range(pool.mapNextTx) \subseteq Tx
  /\ DOMAIN orphans.tx \subseteq Tx /\ Range(orphans.tx) \subseteq Peers
  /\ Cardinality(DOMAIN orphans.tx) <= MaxOrphanTx
  /\ DOMAIN orphans.byPrev = UNION {Parents(t) : t \in DOMAIN orphans.tx}
  /\ \A u \in DOMAIN orphans.byPrev :
       orphans.byPrev[u] = {t \in DOMAIN orphans.tx : u \in Parents(t)}
  /\ Range(mapLockedInputs) \subseteq Tx
  /\ Range(vWorkQueue) \cup todo \cup vEraseQueue \subseteq Tx

(***************************************************************************)
(* CTxMemPool::check (txmempool.cpp:541): the pool could be mined, all of  *)
(* it, on top of the chain.  Every input is an output of another member or *)
(* unspent and mature, and mapNextTx says exactly who spends what, so that *)
(* no two members spend the same.  It must survive resurrections whose     *)
(* parents are refused, orphans accepted in any order and locks.           *)
(***************************************************************************)
PoolMinable ==
  /\ \A t \in pool.mapTx : t \notin Confirmed(chain) /\ \A o \in Inputs[t] : Available(chain, pool, o)
  /\ DOMAIN pool.mapNextTx = UNION {Inputs[t] : t \in pool.mapTx}
  /\ \A t \in pool.mapTx : \A o \in Inputs[t] : pool.mapNextTx[o] = t

(***************************************************************************)
(* A transaction of a disconnected block is back in the pool, unless it    *)
(* cannot be: it is of the kind that may only be in a block, a lock is     *)
(* against it, or an input is gone or immature (main.cpp:3402).            *)
(***************************************************************************)
Excused(t) ==
  \/ t \in Generated \cup NonStandard \/ LockConflict(t)
  \/ \E o \in Inputs[t] : ~Available(chain', pool', o)
NothingLost ==
  [][Len(chain') < Len(chain) => \A t \in Range(Last(chain)) : t \in pool'.mapTx \/ Excused(t)]_vars

(***************************************************************************)
(* main.cpp:6340: "Recursively process any orphan transactions that        *)
(* depended on this one".  When the handler of "tx" is done, no orphan     *)
(* that could be accepted is left if the handler accepted a parent of it,  *)
(* at whatever depth and in whatever order the parents came.               *)
(***************************************************************************)
AcceptedOrphans == vEraseQueue \cap pool.mapTx
OrphansFollowParents ==
  [][~MainFree /\ vWorkQueue' = <<>> =>
       \A t \in DOMAIN orphans'.tx :
         Parents(t) \cap (AcceptedOrphans \cup {Last(vWorkQueue)}) # {} => ~Acceptable(chain, pool, t)]_vars
=============================================================================
