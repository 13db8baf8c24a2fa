------------------------------- MODULE Wallet --------------------------------
(***************************************************************************)
(* The transactions of src/src/wallet/wallet.cpp: how mapWallet follows    *)
(* the chain and the memory pool of Mempool, what the wallet then takes    *)
(* for its coins, and what a start makes of wallet.dat and of the coins    *)
(* database, which are written at different times.                         *)
(*                                                                         *)
(* A block is the chain that ends with it.  mapTxSpends is the inputs of   *)
(* mapWallet's members.  A transaction that a peer sends comes in through  *)
(* AcceptToMemoryPool as one of an RPC does (Submit).                      *)
(*                                                                         *)
(* Left out: keys and encryption, the selection of coins, locked coins and *)
(* watch-only ones, zerocoins, accounts and labels, SwiftX confirmations,  *)
(* -zapwallettxes, and a machine that stops (only the program does).       *)
(***************************************************************************)
EXTENDS Mempool

CONSTANTS
  Mine,       \* the outpoints whose keys the wallet has
  Coinbases,  \* of Generated; the others are coinstakes
  HashOrder,  \* every transaction, in the order mapWallet is walked in
  bSpendZeroConfChange,
  none,
  \* bounds: disconnected blocks, crashes
  MaxDisconnect, MaxCrash

ASSUME WalletAssumption ==
  /\ Mine \subseteq {o \in Tx \X Nat : o[2] \in 1 .. Outputs[o[1]]}
  /\ Coinbases \subseteq Generated
  /\ none \notin Tx /\ none \notin Seq(Seq(Tx))
  /\ HashOrder \in Seq(Tx) /\ Range(HashOrder) = Tx /\ IsInjective(HashOrder)
  /\ bSpendZeroConfChange \in BOOLEAN
  /\ {MaxDisconnect, MaxCrash} \subseteq Nat

VARIABLES
  \* transaction -> hashBlock, and the outputs nAvailableCreditCached sums up;
  \* AddToWallet writes the first into wallet.dat at once
  mapWallet,
  locator,   \* the best block in wallet.dat
  saved,     \* the chain whose coins the database holds
  prepared,  \* the transaction the send dialog has created, not committed yet
  starting,  \* ReacceptWalletTransactions is still to come
  nDisconnects, nCrashes

diskVars == <<locator, saved>>
counters == <<nDisconnects, nCrashes>>
walletVars == <<mapWallet, diskVars, prepared, starting, counters>>
allWalletVars == <<vars, walletVars>>

-----------------------------------------------------------------------------
(***************************************************************************)
(* What the wallet thinks of its transactions, with w for mapWallet, c for *)
(* the chain and p for the pool.                                           *)
(***************************************************************************)
InMainChain(c, w, t) == w[t].hashBlock # none /\ IsPrefix(w[t].hashBlock, c)

\* GetDepthInMainChain
Depth(c, p, w, t) ==
  IF InMainChain(c, w, t) THEN Len(c) - Len(w[t].hashBlock) + 1
  ELSE IF t \in p.mapTx THEN 0 ELSE -1

IsSpent(c, p, w, o) ==
  \E t \in DOMAIN w : o \in Inputs[t] /\ Depth(c, p, w, t) >= 0

OutputsOf(t) == {o \in Mine : o[1] = t}
IsFromMe(w, t) == \E o \in Inputs[t] : o \in Mine /\ o[1] \in DOMAIN w

\* Whether a transaction the wallet does not have concerns it; the mutant asks
\* for its outputs alone.
PaysMe(w, t) == OutputsOf(t) # {}
ConcernsMe(w, t) == OutputsOf(t) # {} \/ IsFromMe(w, t)

IsTrusted(c, p, w, t) ==
  \/ Depth(c, p, w, t) >= 1
  \/ /\ Depth(c, p, w, t) = 0
     /\ bSpendZeroConfChange
     /\ Inputs[t] # {} /\ \A o \in Inputs[t] : o[1] \in DOMAIN w /\ o \in Mine

\* GetBlocksToMaturity() = 0
Ripe(c, p, w, t) == t \in Generated => Depth(c, p, w, t) >= Maturity + 1

\* AvailableCoins with fOnlyConfirmed.
AvailableCoins(c, p, w) ==
  {o \in Mine : /\ o[1] \in DOMAIN w
                /\ IsTrusted(c, p, w, o[1]) /\ Ripe(c, p, w, o[1])
                /\ ~IsSpent(c, p, w, o)}

-----------------------------------------------------------------------------
(***************************************************************************)
(* Notifications.                                                          *)
(***************************************************************************)
\* BindWallet, MarkDirty; the mutant leaves what was cached.
LeaveCached(w, S) == w
MarkDirty(w, S) == [t \in DOMAIN w |-> IF t \in S THEN [w[t] EXCEPT !.cache = none] ELSE w[t]]

\* block is none if t is not known to be in one: then a block the wallet has
\* for t stays.
AddToWallet(w, t, block) ==
  [x \in DOMAIN w \cup {t} |->
     IF x # t THEN w[x]
     ELSE [hashBlock |-> IF block = none /\ t \in DOMAIN w THEN w[t].hashBlock ELSE block,
           cache |-> none]]

AddToWalletIfInvolvingMe(w, t, block) ==
  IF t \in DOMAIN w \/ ConcernsMe(w, t) THEN AddToWallet(w, t, block) ELSE w

SyncTransaction(w, t, block) ==
  LET added == AddToWalletIfInvolvingMe(w, t, block) IN
  IF t \in DOMAIN added THEN MarkDirty(added, Parents(t)) ELSE w

SyncAll(w, ts, block) ==
  LET synced[i \in 0 .. Len(ts)] ==
        IF i = 0 THEN w ELSE SyncTransaction(synced[i - 1], ts[i], block)
  IN synced[Len(ts)]

\* ScanForWalletTransactions from the block at a height; what is below the
\* model's blocks has been in the wallet for ever.
ScanBlock(w, vtx, block) ==
  LET scanned[i \in 0 .. Len(vtx)] ==
        IF i = 0 THEN w ELSE AddToWalletIfInvolvingMe(scanned[i - 1], vtx[i], block)
  IN scanned[Len(vtx)]
Scan(w, c, height) ==
  LET scanned[i \in 0 .. Len(c)] ==
        IF i = 0 THEN w
        ELSE IF i < height THEN scanned[i - 1]
        ELSE ScanBlock(scanned[i - 1], c[i], SubSeq(c, 1, i))
  IN scanned[Len(c)]

-----------------------------------------------------------------------------
WalletInit ==
  /\ Init
  /\ mapWallet = [t \in {t \in Funding : OutputsOf(t) # {}} |-> [hashBlock |-> <<>>, cache |-> none]]
  /\ locator = <<>> /\ saved = <<>>
  /\ prepared = none
  /\ starting = FALSE
  /\ nDisconnects = 0 /\ nCrashes = 0

\* A transaction comes into the pool from somewhere else.
AcceptToMemoryPool(t) ==
  /\ Submit(t)
  /\ mapWallet' = SyncTransaction(mapWallet, t, none)
  /\ UNCHANGED <<diskVars, prepared, starting, counters>>

\* What ConnectTip or a later FlushStateToDisk may write: the coins alone
\* (FLUSH_STATE_IF_NEEDED), or the best block after them.
MayFlush(c, tip) == \/ UNCHANGED diskVars
                    \/ saved' = c /\ locator' \in {locator, tip}

\* ConnectTip flushes before UpdateTip: the locator is that of the old tip.
Connect(vtx) ==
  /\ ConnectTip(vtx)
  /\ MayFlush(chain', chain)
  /\ LET txConflicted == SetToSeq(pool.mapTx \ (pool'.mapTx \cup Range(vtx))) IN
     mapWallet' = SyncAll(SyncAll(mapWallet, txConflicted, none), vtx, chain')
  /\ UNCHANGED <<prepared, starting, counters>>

\* DisconnectTip saves the coins, with the locator of the tip that goes; the
\* mutant saves them when the cache is full, as ConnectTip does.
SavedIfNeeded(c) == MayFlush(Front(c), c)
SavedAlways(c) == saved' = Front(c) /\ locator' = c

\* The transactions that are not taken back into the pool, and what is thrown
\* out of it, are not notified; those of the block are, in the end.
Disconnect ==
  /\ nDisconnects < MaxDisconnect
  /\ DisconnectTip
  /\ SavedAlways(chain)
  /\ mapWallet' = SyncAll(mapWallet, Last(chain), none)
  /\ nDisconnects' = nDisconnects + 1
  /\ UNCHANGED <<prepared, starting, nCrashes>>

\* The periodic flush, and that of PrepareShutdown.
FlushStateToDisk ==
  /\ saved' = chain /\ locator' = chain
  /\ UNCHANGED <<vars, mapWallet, prepared, starting, counters>>

\* GetBalance; the credit of an immature coinbase is not computed.
GetBalance ==
  /\ mapWallet' =
       [t \in DOMAIN mapWallet |->
          IF /\ mapWallet[t].cache = none
             /\ IsTrusted(chain, pool, mapWallet, t)
             /\ t \in Coinbases => Ripe(chain, pool, mapWallet, t)
          THEN [mapWallet[t] EXCEPT
                  !.cache = {o \in OutputsOf(t) : ~IsSpent(chain, pool, mapWallet, o)}]
          ELSE mapWallet[t]]
  /\ UNCHANGED <<vars, diskVars, prepared, starting, counters>>

\* prepareTransaction of the send dialog: CreateTransaction.
CreateTransaction(t) ==
  /\ prepared = none
  /\ t \notin DOMAIN mapWallet /\ Inputs[t] # {}
  /\ Inputs[t] \subseteq AvailableCoins(chain, pool, mapWallet)
  /\ prepared' = t
  /\ UNCHANGED <<vars, mapWallet, diskVars, starting, counters>>

\* sendCoins, once cs_main and cs_wallet are taken again.  If the pool refuses
\* the transaction it stays in the wallet nevertheless.
CommitTransaction ==
  LET t == prepared
      recorded == MarkDirty(AddToWallet(mapWallet, t, none), Parents(t)) IN
  /\ t # none
  /\ \/ Submit(t) /\ mapWallet' = SyncTransaction(recorded, t, none)
     \/ ~Acceptable(chain, pool, t) /\ mapWallet' = recorded /\ UNCHANGED vars
  /\ prepared' = none
  /\ UNCHANGED <<diskVars, starting, counters>>

\* AppInit2 with the coins of c and the locator l: a rescan from the last block
\* both agree on, if the tip is another.
Start(c, l) ==
  LET fork == LongestCommonPrefix({c, l})
      loaded == MarkDirty(mapWallet, DOMAIN mapWallet) IN
  /\ chain' = c /\ saved' = c
  /\ mapWallet' = IF fork = c THEN loaded ELSE Scan(loaded, c, Len(fork))
  /\ locator' = IF fork = c THEN l ELSE c
  /\ pool' = EmptyPool /\ orphans' = NoOrphans
  /\ vWorkQueue' = <<>> /\ todo' = {} /\ vEraseQueue' = {}
  /\ mapLockedInputs' = <<>>
  /\ prepared' = none
  /\ starting' = TRUE

\* A crash at rest, or in one of the flushes: after the coins were written, and
\* before or after the locator was.
Crash ==
  /\ nCrashes < MaxCrash
  /\ nCrashes' = nCrashes + 1
  /\ \/ Start(saved, locator)
     \/ \E l \in {locator, chain} :
          \/ Start(chain, l)
          \/ chain # <<>> /\ Start(Front(chain), l)
          \/ \E vtx \in Blocks : /\ Len(chain) < MaxHeight /\ ValidBlock(chain, vtx)
                                 /\ Start(Append(chain, vtx), l)
  /\ UNCHANGED nDisconnects

\* What ReacceptWalletTransactions makes of the pool and of mapWallet.
Reaccept(s, t) ==
  IF /\ t \in DOMAIN s.wallet /\ t \notin Generated
     /\ Depth(chain, s.pool, s.wallet, t) < 0
     /\ Acceptable(chain, s.pool, t)
  THEN [pool |-> AddUnchecked(s.pool, t), wallet |-> SyncTransaction(s.wallet, t, none)]
  ELSE s
Reaccepted(p, w) ==
  LET tried[i \in 0 .. Len(HashOrder)] ==
        IF i = 0 THEN [pool |-> p, wallet |-> w] ELSE Reaccept(tried[i - 1], HashOrder[i])
  IN tried[Len(HashOrder)]

\* The last step of AppInit2, with other threads running.
ReacceptWalletTransactions ==
  LET after == Reaccepted(pool, mapWallet) IN
  /\ MainFree
  /\ starting
  /\ starting' = FALSE
  /\ pool' = after.pool /\ mapWallet' = after.wallet
  /\ UNCHANGED <<chain, orphans, workVars, mapLockedInputs, diskVars, prepared, counters>>

WalletNext ==
  \/ \E t \in Tx : AcceptToMemoryPool(t)
  \/ \E vtx \in Blocks : Connect(vtx)
  \/ Disconnect
  \/ FlushStateToDisk
  \/ GetBalance
  \/ \E t \in Tx : CreateTransaction(t)
  \/ CommitTransaction
  \/ Crash
  \/ ReacceptWalletTransactions

WalletSpec == WalletInit /\ [][WalletNext]_allWalletVars

-----------------------------------------------------------------------------
WalletTypeOK ==
  /\ DOMAIN mapWallet \subseteq Tx
  /\ \A t \in DOMAIN mapWallet :
       /\ mapWallet[t].hashBlock = none \/ mapWallet[t].hashBlock \in Seq(Seq(Tx))
       /\ mapWallet[t].cache = none \/ mapWallet[t].cache \subseteq OutputsOf(t)
  /\ locator \in Seq(Seq(Tx)) /\ saved \in Seq(Seq(Tx))
  /\ prepared \in Tx \cup {none}
  /\ starting \in BOOLEAN
  /\ nDisconnects \in 0 .. MaxDisconnect /\ nCrashes \in 0 .. MaxCrash

(***************************************************************************)
(* Every transaction of the active chain that pays the wallet or spends    *)
(* its coins is in mapWallet, with the block it is in.  Blocks come and    *)
(* go, the same transaction in several of them; and what a start rescans   *)
(* must make up for whatever happened between the last write of the coins, *)
(* of the best block and of wallet.dat (init.cpp:1687).  One thing it does *)
(* not make up for is a Relapse, which takes an earlier crash.             *)
(***************************************************************************)
\* A crash after the coins of a block were written and before the wallet heard of
\* it, while the locator names that block, or one above it, from long ago: the
\* start finds the tip on the locator's chain and rescans nothing.
Relapse == /\ nCrashes' # nCrashes
           /\ Len(chain') > Len(chain) /\ IsPrefix(chain', locator)
\* No crash but the first is one: until then the wallet remembers what its locator
\* names.
FirstCrash == Relapse => nCrashes = 0

BlockOf(t) == IF t \in Funding THEN <<>> ELSE SubSeq(chain, 1, Height(chain, t))
WalletFollowsChain ==
  \A t \in Confirmed(chain) :
    OutputsOf(t) # {} \/ Inputs[t] \cap Mine # {} =>
      t \in DOMAIN mapWallet /\ mapWallet[t].hashBlock = BlockOf(t)

(***************************************************************************)
(* A coin that AvailableCoins offers can be spent: the pool would accept a *)
(* transaction that does ("This must not fail", wallet.cpp:2531), although *)
(* the wallet judges by its own transactions only.  And it offers every    *)
(* coin of its that is in the chain, ripe, and that nobody spends.         *)
(***************************************************************************)
OffersExact ==
  LET offered == AvailableCoins(chain, pool, mapWallet) IN
  /\ \A o \in offered : Available(chain, pool, o) /\ o \notin DOMAIN pool.mapNextTx
  /\ \A o \in Mine \ DOMAIN pool.mapNextTx :
       /\ Unspent(chain, o)
       /\ o[1] \in Generated => Len(chain) - Height(chain, o[1]) >= Maturity
       => o \in offered

(***************************************************************************)
(* No cached credit counts a coin that is spent, in the chain or by a      *)
(* member of the pool, whoever made that transaction and however often the *)
(* block it was in came and went (wallet.cpp:757).                         *)
(***************************************************************************)
CreditNeverTooHigh ==
  \A t \in DOMAIN mapWallet :
    mapWallet[t].cache # none =>
      \A o \in mapWallet[t].cache :
        o \notin DOMAIN pool.mapNextTx /\ \A s \in Mined(chain) : o \notin Inputs[s]

(***************************************************************************)
(* Nor is one too low.  This fails: nobody tells the wallet that a spender *)
(* was thrown out of the pool by a disconnection.                          *)
(***************************************************************************)
CreditNeverTooLow ==
  \A t \in DOMAIN mapWallet :
    mapWallet[t].cache # none =>
      \A o \in OutputsOf(t) : ~IsSpent(chain, pool, mapWallet, o) => o \in mapWallet[t].cache

(***************************************************************************)
(* init.cpp:1971: "Add wallet transactions that aren't already in a block  *)
(* to mapTransactions".  This fails: in the order of the hashes a child    *)
(* may be tried before its parent.                                         *)
(***************************************************************************)
ReacceptComplete ==
  [][starting /\ ~starting' =>
       \A t \in DOMAIN mapWallet : ~Acceptable(chain', pool', t)]_allWalletVars

(***************************************************************************)
(* wallet.cpp:2531: "This must not fail. The transaction has already been  *)
(* signed and recorded."  This fails for the send dialog, which lets go of *)
(* the locks before it commits.                                            *)
(***************************************************************************)
CommitSucceeds ==
  [][CommitTransaction => prepared \in pool'.mapTx]_allWalletVars
=============================================================================
