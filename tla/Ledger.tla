------------------------------- MODULE Ledger -------------------------------
(***************************************************************************)
(* What connecting and disconnecting blocks does to the coins and to the   *)
(* records beside them (src/src/main.cpp): ConnectBlock, DisconnectBlock   *)
(* with its undo data, the serials of spent zerocoins in zerocoinDB, the   *)
(* transaction index, and CVerifyDB, which disconnects and reconnects the  *)
(* last blocks at every start and for the verifychain RPC.                 *)
(*                                                                         *)
(* Coins are flushed now and then; serials and index go to disk at once.   *)
(* Which block the chain moves to is ChainState's business: here it moves  *)
(* to any block it may.  How the caches hold the coins is CoinsCache's.    *)
(* CheckBlock, scripts and amounts are taken to be in order, the node has  *)
(* the transaction index (-txindex, on unless configured otherwise), and   *)
(* no transaction of the chain is in the mempool.                          *)
(***************************************************************************)
EXTENDS BlockTree, Sequences

CONSTANTS
  Tx,          \* transactions
  Serial,      \* serials of zerocoins
  none,
  Kind,        \* "coinbase", "coinstake", "plain", or "spend" of zerocoins
  Ins,         \* the outpoints that a transaction spends, <<transaction, n>>
  Outs,        \* the spendable positions of its vout
  Serials,     \* the zerocoins that a "spend" spends
  Body,        \* block.vtx
  Maturity,    \* COINBASE_MATURITY
  CheckDepth,  \* blocks that the start verifies (-checkblocks, 0: all)
  RpcDepth,    \* blocks that verifychain verifies (0: all)
  \* bounds: how often in a behaviour
  MaxDisconnect, MaxVerify, MaxStop, MaxCrash

ASSUME LedgerAssumption ==
  /\ none \notin Tx /\ none \notin Block
  /\ none \notin Seq(Seq([height : Nat, base : BOOLEAN, stake : BOOLEAN]))
  /\ Kind \in [Tx -> {"coinbase", "coinstake", "plain", "spend"}]
  /\ Ins \in [Tx -> Seq(Tx \X Nat)]
  /\ Outs \in [Tx -> (SUBSET Nat) \ {{}}]
  /\ Serials \in [Tx -> SUBSET Serial]
  /\ Body \in [Block \ {Genesis} -> Seq(Tx)]
  /\ \A t \in Tx : (Kind[t] = "spend") = (Serials[t] # {})
  \* CheckTransaction: inputs there are, and each but once.  Those of a coinbase
  \* and of a spend are no outpoints.
  /\ \A t \in Tx : (Kind[t] \in {"coinbase", "spend"}) = (Ins[t] = <<>>)
  /\ \A t \in Tx : \A i, j \in DOMAIN Ins[t] : Ins[t][i] = Ins[t][j] => i = j
  \* CheckBlock: one coinbase, and no serial twice.
  /\ \A b \in Block \ {Genesis} : \A i, j \in DOMAIN Body[b] :
       i # j => /\ Kind[Body[b][i]] = "coinbase" => Kind[Body[b][j]] # "coinbase"
                /\ Serials[Body[b][i]] \cap Serials[Body[b][j]] = {}
  /\ {Maturity, CheckDepth, RpcDepth, MaxDisconnect, MaxVerify, MaxStop, MaxCrash} \subseteq Nat

VARIABLES
  tip,               \* chainActive.Tip()
  coins,             \* the coins that pcoinsTip shows
  undo,              \* the undo data of the blocks that have an nUndoPos
  dbTip, dbCoins,    \* the coins database
  dbUndo,            \* the blocks whose nUndoPos is in the block index database
  spends,            \* zerocoinDB: the transaction that spent a serial
  txindex,           \* the block that the transaction index names
  stage,             \* what is going on under cs_main
  \* CVerifyDB: its view and where that stands, whether all was clean so far,
  \* whether this is the check at the start, and whether it did not complain
  vcoins, vtip, vclean, vstart, verified,
  stopping,          \* fRequestShutdown
  \* history: the coinstakes of which undo data restored a last output, and the
  \* blocks whose serials stayed erased for good when an operation broke off
  unmarked, torn,
  used               \* how often the bounded operations were used

chainVars  == <<tip, coins, undo>>
diskVars   == <<dbTip, dbCoins, dbUndo>>
recordVars == <<spends, txindex>>
verifyVars == <<vcoins, vtip, vclean, vstart, verified>>
historyVars == <<unmarked, torn>>
vars == <<chainVars, diskVars, recordVars, stage, verifyVars, stopping, historyVars, used>>

Operations == {"disconnect", "verify", "stop", "crash"}
Limit == [op \in Operations |->
           CASE op = "disconnect" -> MaxDisconnect
             [] op = "verify"     -> MaxVerify
             [] op = "stop"       -> MaxStop
             [] op = "crash"      -> MaxCrash]
Use(op) == used[op] < Limit[op] /\ used' = [used EXCEPT ![op] = @ + 1]

Active == Chain[tip]
Txs(b) == {Body[b][i] : i \in DOMAIN Body[b]}

\* What the theorems of LedgerProofs suppose, beyond LedgerAssumption: the
\* version of a block in use makes its height a part of its coinbase (BIP 34), so
\* no two blocks of a chain have the same one.
CoinbaseOnce ==
  \A b \in Block \ {Genesis} : \A a \in Chain[Parent[b]] \ {Genesis} :
    \A t \in Txs(a) \cap Txs(b) : Kind[t] # "coinbase"

-----------------------------------------------------------------------------
(***************************************************************************)
(* CCoins.  What is pruned is as good as absent, and equal.                *)
(***************************************************************************)
NoCoins == [outs |-> {}, base |-> FALSE, stake |-> FALSE, height |-> 0]

FromTx(t, h) ==
  [outs |-> Outs[t], base |-> Kind[t] = "coinbase", stake |-> Kind[t] = "coinstake", height |-> h]

\* CTxInUndo: the metadata if it was the last output, or nHeight = 0.
UndoOf(c, n) ==
  IF c.outs = {n} THEN [height |-> c.height, base |-> c.base, stake |-> c.stake]
  ELSE [height |-> 0, base |-> FALSE, stake |-> FALSE]

\* CCoins::Spend
Spend(c, n) == IF c.outs = {n} THEN NoCoins ELSE [c EXCEPT !.outs = @ \ {n}]

SpendInput(acc, in) ==
  LET t == in[1]
      n == in[2]
  IN [coins |-> [acc.coins EXCEPT ![t] = Spend(@, n)],
      undo  |-> Append(acc.undo, UndoOf(acc.coins[t], n))]

SpendInputs(cs, t) ==
  LET spent[j \in 0 .. Len(Ins[t])] ==
        IF j = 0 THEN [coins |-> cs, undo |-> <<>>] ELSE SpendInput(spent[j - 1], Ins[t][j])
  IN spent[Len(Ins[t])]

UpdateCoins(acc, t, h) ==
  LET spent == SpendInputs(acc.coins, t)
  IN [coins |-> [spent.coins EXCEPT ![t] = FromTx(t, h)], undo |-> Append(acc.undo, spent.undo)]

-----------------------------------------------------------------------------
(***************************************************************************)
(* What ConnectBlock asks of a transaction.                                *)
(***************************************************************************)
HaveInputs(cs, t) == \A i \in DOMAIN Ins[t] : Ins[t][i][2] \in cs[Ins[t][i][1]].outs

\* CheckInputs at height h; the mutant is one block too generous.
AlmostMatured(cs, t, h) ==
  \A i \in DOMAIN Ins[t] : LET c == cs[Ins[t][i][1]] IN
    c.base \/ c.stake => h - c.height >= Maturity - 1
Matured(cs, t, h) ==
  \A i \in DOMAIN Ins[t] : LET c == cs[Ins[t][i][1]] IN
    c.base \/ c.stake => h - c.height >= Maturity

TransactionInChain(t) == txindex[t] # none /\ txindex[t] \in Active

\* IsSerialInBlockchain, and the mutant that forgets to look into zerocoinDB.
NeverInChain(s) == FALSE
SerialInChain(s) == spends[s] # none /\ TransactionInChain(spends[s])

AcceptTx(cs, t, b, fVerifyingBlocks) ==
  CASE Kind[t] = "spend" ->
         /\ TransactionInChain(t) => fVerifyingBlocks /\ Height[b] <= Height[txindex[t]]
         /\ \A s \in Serials[t] : ~SerialInChain(s)
    [] Kind[t] = "coinbase" -> TRUE
    [] OTHER -> HaveInputs(cs, t) /\ Matured(cs, t, Height[b])

\* No transaction of b overwrites coins that are there (BIP 30).
NoOverwrite(cs, b) == \A t \in Txs(b) : cs[t].outs = {}

ConnectTx(acc, t, b, fVerifyingBlocks) ==
  LET after == UpdateCoins(acc, t, Height[b])
  IN [coins |-> after.coins, undo |-> after.undo,
      ok |-> acc.ok /\ AcceptTx(acc.coins, t, b, fVerifyingBlocks)]

ConnectBlock(cs, b, fVerifyingBlocks) ==
  LET after[i \in 0 .. Len(Body[b])] ==
        IF i = 0 THEN [coins |-> cs, undo |-> <<>>, ok |-> NoOverwrite(cs, b)]
        ELSE ConnectTx(after[i - 1], Body[b][i], b, fVerifyingBlocks)
  IN after[Len(Body[b])]

\* The undo data is written once.
WrittenUndo(b, u) == IF undo[b] = none THEN [undo EXCEPT ![b] = u] ELSE undo

\* zerocoinDB and the transaction index after a block was connected.
WithSpends(b) ==
  [s \in Serial |-> IF \E t \in Txs(b) : s \in Serials[t]
                    THEN CHOOSE t \in Txs(b) : s \in Serials[t] ELSE spends[s]]
WithIndex(b) == [t \in Tx |-> IF t \in Txs(b) THEN b ELSE txindex[t]]

\* zerocoinDB after a block was disconnected.
WithoutSpends(b) == [s \in Serial |-> IF \E t \in Txs(b) : s \in Serials[t] THEN none ELSE spends[s]]

-----------------------------------------------------------------------------
(***************************************************************************)
(* DisconnectBlock: the transactions and their inputs in reverse order.    *)
(***************************************************************************)

\* The entry that a spent last output is restored to: fCoinStake is not set again.
\* The mutant loses fCoinBase too.
ForgetMetadata(u) == [NoCoins EXCEPT !.height = u.height]
Restored(u) == [outs |-> {}, base |-> u.base, stake |-> FALSE, height |-> u.height]

\* u is the undo record of the input in.
RestoreInput(acc, in, u) ==
  LET c    == acc.coins[in[1]]
      last == u.height # 0
      new  == IF last THEN Restored(u) ELSE c
  IN [coins |-> [acc.coins EXCEPT ![in[1]] = [new EXCEPT !.outs = @ \cup {in[2]}]],
      clean |-> acc.clean /\ last = (c.outs = {}) /\ in[2] \notin c.outs]

RemoveTx(acc, t, h) ==
  [coins |-> [acc.coins EXCEPT ![t] = NoCoins],
   clean |-> acc.clean /\ acc.coins[t] = FromTx(t, h)]

UndoTx(acc, t, u, h) ==
  LET restored[k \in 0 .. Len(Ins[t])] ==
        IF k = 0 THEN RemoveTx(acc, t, h)
        ELSE LET j == Len(Ins[t]) + 1 - k IN RestoreInput(restored[k - 1], Ins[t][j], u[j])
  IN restored[Len(Ins[t])]

\* The k-th transaction to go; the mutant goes forward.
Forward(b, k) == k
Backward(b, k) == Len(Body[b]) + 1 - k

DisconnectBlock(cs, b) ==
  LET undone[k \in 0 .. Len(Body[b])] ==
        IF k = 0 THEN [coins |-> cs, clean |-> TRUE]
        ELSE LET i == Backward(b, k) IN UndoTx(undone[k - 1], Body[b][i], undo[b][i], Height[b])
  IN undone[Len(Body[b])]

\* The coinstakes of which it restores a last output.
Restakes(b) ==
  {t \in Tx : /\ Kind[t] = "coinstake"
              /\ \E i \in DOMAIN Body[b] : \E j \in DOMAIN Ins[Body[b][i]] :
                   Ins[Body[b][i]][j][1] = t /\ undo[b][i][j].height # 0}

-----------------------------------------------------------------------------
NothingSpent == [t \in Tx |-> NoCoins]

Init ==
  /\ tip = Genesis
  /\ coins = NothingSpent
  /\ undo = [b \in Block |-> none]
  /\ dbTip = Genesis
  /\ dbCoins = NothingSpent
  /\ dbUndo = {}
  /\ spends = [s \in Serial |-> none]
  /\ txindex = [t \in Tx |-> none]
  /\ stage = "ready"
  /\ vcoins = NothingSpent /\ vtip = Genesis /\ vclean = TRUE /\ vstart = FALSE
  /\ verified = TRUE /\ stopping = FALSE
  /\ unmarked = {} /\ torn = {}
  /\ used = [op \in Operations |-> 0]

\* ConnectTip.  A block that is refused leaves no trace.
ConnectTip(b) ==
  LET r == ConnectBlock(coins, b, FALSE) IN
  /\ stage = "ready"
  /\ Parent[b] = tip
  /\ r.ok
  /\ tip' = b
  /\ coins' = r.coins
  /\ undo' = WrittenUndo(b, r.undo)
  /\ spends' = WithSpends(b)
  /\ txindex' = WithIndex(b)
  /\ torn' = torn \ {b}
  /\ UNCHANGED <<diskVars, stage, verifyVars, stopping, unmarked, used>>

\* DisconnectTip until the coins are to be flushed.  The serials are erased on
\* disk whatever comes of it; if something does not fit, that is all.
DisconnectTip ==
  LET r == DisconnectBlock(coins, tip) IN
  /\ stage = "ready"
  /\ tip # Genesis
  /\ Use("disconnect")
  /\ spends' = WithoutSpends(tip)
  /\ IF r.clean
     THEN /\ coins' = r.coins
          /\ stage' = "flush"
          /\ unmarked' = unmarked \cup Restakes(tip)
          /\ UNCHANGED torn
     ELSE torn' = torn \cup {tip} /\ UNCHANGED <<coins, stage, unmarked>>
  /\ UNCHANGED <<tip, undo, diskVars, txindex, verifyVars, stopping>>

\* FlushStateToDisk when the coins stand at block b.
Flushed(cs, b) ==
  /\ dbTip' = b
  /\ dbCoins' = cs
  /\ dbUndo' = {x \in Block : undo[x] # none}

\* DisconnectTip from FlushStateToDisk(FLUSH_STATE_ALWAYS) to UpdateTip.
DisconnectEnd ==
  /\ stage = "flush"
  /\ Flushed(coins, Parent[tip])
  /\ tip' = Parent[tip]
  /\ stage' = "ready"
  /\ UNCHANGED <<coins, undo, recordVars, verifyVars, stopping, historyVars, used>>

\* The other flushes: when it is time, when the cache is full.
FlushStateToDisk ==
  /\ stage = "ready"
  /\ Flushed(coins, tip)
  /\ UNCHANGED <<chainVars, recordVars, stage, verifyVars, stopping, historyVars, used>>

-----------------------------------------------------------------------------
(***************************************************************************)
(* CVerifyDB::VerifyDB at level 4, over a view of its own.                 *)
(***************************************************************************)
Verify(start, cs, b) ==
  /\ stage' = "down"
  /\ vcoins' = cs
  /\ vtip' = b
  /\ vclean' = TRUE
  /\ vstart' = start
  /\ verified' = TRUE

\* The verifychain RPC, which keeps cs_main until the end.
VerifyChain ==
  /\ stage = "ready"
  /\ Use("verify")
  /\ Verify(FALSE, coins, tip)
  /\ UNCHANGED <<chainVars, diskVars, recordVars, stopping, historyVars>>

\* A depth of 0 means the whole chain.
Depth == LET d == IF vstart THEN CheckDepth ELSE RpcDepth IN
         IF d = 0 THEN Height[tip] ELSE d

\* The loop breaks at pindex->nHeight < chainActive.Height() - nCheckDepth.
Deep(b) == Height[b] >= Height[tip] - Depth
Below == vtip # Genesis /\ Deep(vtip)

\* A request for shutdown is seen after every block, the first one included.
VerifyDisconnect ==
  LET r == DisconnectBlock(vcoins, vtip) IN
  /\ stage = "down"
  /\ Below
  /\ stopping => vtip = tip
  /\ vcoins' = r.coins
  /\ vclean' = (vclean /\ r.clean)
  /\ vtip' = Parent[vtip]
  /\ spends' = WithoutSpends(vtip)
  /\ unmarked' = unmarked \cup Restakes(vtip)
  /\ UNCHANGED <<chainVars, diskVars, txindex, stage, vstart, verified, stopping, torn, used>>

\* What verifychain has disconnected when it breaks off stays without its serials.
BrokenOff == Active \ Chain[vtip]

\* VerifyDB returns false: the node does not start, or the RPC says so.
Complain ==
  /\ stage' = IF vstart THEN "corrupt" ELSE "ready"
  /\ torn' = IF vstart THEN torn ELSE torn \cup BrokenOff
  /\ verified' = FALSE

\* The last block was disconnected; the mutant stops at level 3.
NoLevel4 == "ready"
Level4 == "up"

VerifyTurn ==
  /\ stage = "down"
  /\ ~Below
  /\ IF vclean THEN stage' = Level4 /\ UNCHANGED <<verified, torn>> ELSE Complain
  /\ UNCHANGED <<chainVars, diskVars, recordVars, vcoins, vtip, vclean, vstart, stopping, unmarked, used>>

\* "level 4: try reconnecting blocks".  ConnectBlock writes what it always writes.
VerifyConnect ==
  /\ stage = "up"
  /\ vtip # tip
  /\ \E b \in Active \ {Genesis} :
       LET r == ConnectBlock(vcoins, b, TRUE) IN
       /\ Parent[b] = vtip
       /\ IF r.ok
          THEN /\ vcoins' = r.coins
               /\ vtip' = b
               /\ undo' = WrittenUndo(b, r.undo)
               /\ spends' = WithSpends(b)
               /\ txindex' = WithIndex(b)
               /\ UNCHANGED <<stage, torn, verified>>
          ELSE /\ Complain
               /\ UNCHANGED <<vcoins, vtip, undo, recordVars>>
  /\ UNCHANGED <<tip, coins, diskVars, vclean, vstart, stopping, unmarked, used>>

\* The process ends in order, with a flush, and the next one verifies.
Restart ==
  /\ Flushed(coins, tip)
  /\ Verify(TRUE, coins, tip)
  /\ stopping' = FALSE

\* All is recorded again.  Before it does anything else, the start looks whether
\* it is to shut down.
VerifyEnd ==
  /\ stage = "up"
  /\ vtip = tip
  /\ torn' = torn \ {b \in Active : Deep(b)}
  /\ IF vstart /\ stopping
     THEN Restart
     ELSE stage' = "ready" /\ UNCHANGED <<diskVars, verifyVars, stopping>>
  /\ UNCHANGED <<chainVars, recordVars, unmarked, used>>

\* "if (ShutdownRequested()) return true;" in the first loop: all is well, says
\* verifychain, and cs_main is free; the start gives up.
VerifyStopped ==
  /\ stage = "down"
  /\ vtip # tip
  /\ stopping
  /\ IF vstart
     THEN Restart /\ UNCHANGED torn
     ELSE /\ stage' = "ready"
          /\ torn' = torn \cup BrokenOff
          /\ UNCHANGED <<diskVars, verifyVars, stopping>>
  /\ UNCHANGED <<chainVars, recordVars, unmarked, used>>

\* StartShutdown, at any time: a signal or the stop RPC.
StartShutdown ==
  /\ stage # "corrupt"
  /\ ~stopping
  /\ Use("stop")
  /\ stopping' = TRUE
  /\ UNCHANGED <<chainVars, diskVars, recordVars, stage, verifyVars, historyVars>>

\* The end of PrepareShutdown: blocks have come and gone until now.
Shutdown ==
  /\ stage = "ready"
  /\ stopping
  /\ Restart
  /\ UNCHANGED <<chainVars, recordVars, historyVars, used>>

\* A node that did not start is started once more.
StartAgain ==
  /\ stage = "corrupt"
  /\ Restart
  /\ UNCHANGED <<chainVars, recordVars, historyVars, used>>

\* The process dies anywhere and starts again: memory is what the databases
\* say, and what they say is verified.
Crash ==
  /\ Use("crash")
  /\ tip' = dbTip
  /\ coins' = dbCoins
  /\ undo' = [b \in Block |-> IF b \in dbUndo THEN undo[b] ELSE none]
  /\ Verify(TRUE, dbCoins, dbTip)
  /\ stopping' = FALSE
  /\ torn' = IF stage \in {"down", "up"} /\ ~vstart THEN torn \cup BrokenOff ELSE torn
  /\ UNCHANGED <<diskVars, recordVars, unmarked>>

Next ==
  \/ \E b \in Block \ {Genesis} : ConnectTip(b)
  \/ DisconnectTip \/ DisconnectEnd \/ FlushStateToDisk
  \/ VerifyChain \/ VerifyDisconnect \/ VerifyTurn \/ VerifyConnect \/ VerifyEnd
  \/ VerifyStopped \/ StartShutdown \/ Shutdown \/ StartAgain \/ Crash

Spec == Init /\ [][Next]_vars
-----------------------------------------------------------------------------
CCoins == [outs : SUBSET Nat, base : BOOLEAN, stake : BOOLEAN, height : Nat]

\* Every variable keeps its type: zerocoinDB names transactions, the index
\* names blocks, and coins are coins.
TypeOK ==
  /\ tip \in Block /\ dbTip \in Block /\ vtip \in Block
  /\ \A t \in Tx : coins[t] \in CCoins /\ dbCoins[t] \in CCoins /\ vcoins[t] \in CCoins
  /\ DOMAIN undo = Block
  /\ dbUndo \subseteq Block
  /\ spends \in [Serial -> Tx \cup {none}]
  /\ txindex \in [Tx -> Block \cup {none}]
  /\ stage \in {"ready", "flush", "down", "up", "corrupt"}
  /\ {vclean, vstart, verified, stopping} \subseteq BOOLEAN
  /\ unmarked \subseteq Tx /\ torn \subseteq Block
  /\ used \in [Operations -> Nat]

\* What is spent in the chain of b, and where t is in it.
SpentAt(b, t) ==
  {n \in Outs[t] : \E a \in Chain[b] \ {Genesis} : \E u \in Txs(a) :
                     \E i \in DOMAIN Ins[u] : Ins[u][i] = <<t, n>>}
BlocksOf(b, t) == {a \in Chain[b] \ {Genesis} : t \in Txs(a)}

\* The unspent outputs of a chain, from the blocks alone.
CoinsAt ==
  [b \in Block |-> [t \in Tx |->
     IF BlocksOf(b, t) = {} \/ Outs[t] = SpentAt(b, t) THEN NoCoins
     ELSE [FromTx(t, Height[Highest(BlocksOf(b, t))]) EXCEPT !.outs = @ \ SpentAt(b, t)]]]

\* Coins that are the same, but for the stake mark of what is in lost.
Unmarked(c) == [c EXCEPT !.stake = FALSE]
Same(lost, cs, ds) == \A t \in Tx : cs[t] = ds[t] \/ (t \in lost /\ cs[t] = Unmarked(ds[t]))

(***************************************************************************)
(* The coins are those of the chain, metadata included, whatever way the   *)
(* node came there: in memory, on disk, and in the view that verifies.     *)
(* Only a coinstake of which the undo data of a block restored the last    *)
(* output may have lost its mark.                                          *)
(***************************************************************************)
CoinsMatchChain ==
  /\ Same(unmarked, coins, CoinsAt[IF stage = "flush" THEN Parent[tip] ELSE tip])
  /\ Same(unmarked, dbCoins, CoinsAt[dbTip])
  /\ stage \in {"down", "up"} => Same(unmarked, vcoins, CoinsAt[vtip])

\* The active chain has a coinstake that may have lost its mark, and it spends a
\* serial twice.
MarkLost == \E b \in Active \ {Genesis} : Txs(b) \cap unmarked # {}
SerialTwice ==
  \E a, b \in Active \ {Genesis} : a # b /\
    \E t \in Txs(a), u \in Txs(b) : Serials[t] \cap Serials[u] # {}

(***************************************************************************)
(* CVerifyDB complains of nothing else: blocks that were connected can be  *)
(* taken back and connected again, though their serials and their index    *)
(* entries are on disk while that is done.                                 *)
(***************************************************************************)
VerifyPasses == [][verified /\ ~verified' => MarkLost \/ SerialTwice]_vars

(***************************************************************************)
(* When the node takes blocks, zerocoinDB names the spender of every       *)
(* serial that the active chain spends, but for the blocks that a          *)
(* verifychain was at when a shutdown, a crash or a complaint cut it short *)
(* (or that DisconnectBlock could not take back), until they are verified  *)
(* or connected again.  A verification at the start that is cut short has  *)
(* no such leave.                                                          *)
(***************************************************************************)
SerialsRecorded ==
  stage = "ready" =>
    \A b \in Active \ ({Genesis} \cup torn) : \A t \in Txs(b) : \A s \in Serials[t] : spends[s] = t

(***************************************************************************)
(* No output is spent twice on the active chain, and no serial that a      *)
(* block spent whose serials are not torn.                                 *)
(***************************************************************************)
SpentOnce ==
  \A b \in Active \ {Genesis} : \A a \in Chain[b] \ {Genesis} :
    \A i \in DOMAIN Body[a], j \in DOMAIN Body[b] :
      LET t == Body[a][i]
          u == Body[b][j]
      IN <<a, i>> # <<b, j>> =>
           /\ a \notin torn => Serials[t] \cap Serials[u] = {}
           /\ \A k \in DOMAIN Ins[t], l \in DOMAIN Ins[u] : Ins[t][k] # Ins[u][l]

(***************************************************************************)
(* Nobody spends the reward of a block before Maturity blocks are on it,   *)
(* counted in the chain and not by the coins' own word, unless it is a     *)
(* coinstake that may have lost its mark.                                  *)
(***************************************************************************)
MaturityKept ==
  \A b \in Active \ {Genesis} : \A t \in Txs(b) : \A i \in DOMAIN Ins[t] :
    LET p == Ins[t][i][1] IN
    Kind[p] = "coinbase" \/ (Kind[p] = "coinstake" /\ p \notin unmarked) =>
      Height[b] - Height[Highest(BlocksOf(b, p))] >= Maturity
=============================================================================
