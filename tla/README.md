# A verification development for Zenon

Zenon is a PIVX-derived node in C++ (`src/src/` below the repository root of
this development): proof-of-stake with a coins database, zerocoin spends,
masternodes (which it calls pillars), SwiftX transaction locks, a budget,
and sporks that switch features on by signed messages. This directory holds
TLA+ modules that model its core logic, TLC configurations that check them on
small instances, and proofs, checked by TLAPS, that hold for instances of any
size.

Contents

1. [Inventory](#1-inventory): the parts of the system, their state and what makes them correct
2. [Plan](#2-plan): modules, compositions, runs and theorems, in order
3. [Modules](#3-modules): how state and actions correspond to the code
4. [Runs](#4-runs): what each one checks, with which bounds, and what it shows
5. [Fairness](#5-fairness)
6. [Proofs](#6-proofs)
7. [Only model-checked](#7-only-model-checked) and [not modelled](#8-not-modelled)
8. [Disagreements found](#9-disagreements-between-the-code-and-what-it-says)

To repeat everything: `tlasany M.tla` parses a module, `tlc -config X.cfg M`
checks a run (section 4 names module and configuration), `tlapm M.tla` checks a
proof module. `PROJECT.json` maps every definition to the lines it stands for,
lists the hazards each property is aimed at, and for every property of a
passing run a *mutant*: a definition changed the way a plausible bug would
change the code (`NotifyNobody` for `NotifyMaster`, say), under which TLC finds
the property violated. The mutated forms stand in the modules, each before the
definition it would replace; nothing else uses them.

## 1. Inventory

### 1.1 Threads and locks

Most state is guarded by one recursive mutex, `cs_main`. It is held by the
message handler thread (`ThreadMessageHandler` -> `ProcessMessages`), the RPC
threads, the import thread, the staking thread, and — through
`ProcessNewBlock`, which any of them may call — whoever brings a block. But it
is *not* held throughout: `ProcessNewBlock` runs `CheckBlock` before taking it,
`ActivateBestChain` releases it after every step towards the best chain, and
several neighbours have locks of their own (`CCheckQueue::mutex`,
`mempool.cs`, `cs_vNodes`, `cs_vecPayments`, `cs_budget`, the masternode
list's `cs`). Those seams are where most of the hazards below are.

Four databases hold what survives: the block index (`CBlockTreeDB`, with the
transaction index), the coins (`CCoinsViewDB`), the spent serials and
accumulators (`CZerocoinDB`), and the sporks. They are separate LevelDB
instances: a batch is atomic, two batches are not.

### 1.2 Components

| Component | State | Operations | Interacts with | What is hard | Correct if |
|---|---|---|---|---|---|
| **Script check queue** `checkqueue.h` | `queue`, `nIdle`, `nTotal`, `fAllOk`, `nTodo`; locals of `Loop` | `Add`, `Wait`, `Thread`, `IsIdle`, the control object | `ConnectBlock` is the master | counters kept by hand around `cond.wait`; one worker must wake the master; interruption throws past the bookkeeping | the verdict is the conjunction of the checks; counters mean what they say; `Wait` returns |
| **Block index and active chain** `main.cpp`, `chain.h` | `mapBlockIndex`, `setBlockIndexCandidates`, `mapBlocksUnlinked`, `setDirtyBlockIndex`, `chainActive`, `mapRejectedBlocks` | `AcceptBlockHeader`, `AcceptBlock`, `ReceivedBlockTransactions`, `FindMostWorkChain`, `ActivateBestChain(Step)`, `ConnectTip`, `DisconnectTip`, `InvalidateBlock`, `ReconsiderBlock`, `ReprocessBlocks`, `FlushStateToDisk`, `LoadBlockIndexDB` | coins below, SwiftX and payments through `CheckBlock`, wallet and masternodes through signals | `cs_main` is released between steps; a reorganisation may fail half-way; two databases are written one after the other; blocks arrive before their parents; an answer of `CheckBlock` ages | the tip is the best chain known to be valid, or the node is still working on it; the candidates hold everything that may become the tip; what is on disk can be loaded |
| **Coins cache and database** `coins.{h,cpp}`, `txdb.cpp` | `cacheCoins` with DIRTY/FRESH at two levels, `hashBlock`, the database | `FetchCoins`, `ModifyCoins` and its modifier, `BatchWrite`, `Flush`, `SetBestBlock` | `ConnectTip`/`DisconnectTip` stack a view on `pcoinsTip`; RPC threads read `pcoinsTip` | flags decide what may be forgotten; an entry's absence is information | the stack shows what plain copies of the coins would |
| **Ledger**: `ConnectBlock`, `DisconnectBlock`, `undo.h`, `CVerifyDB`, `txdb.cpp`'s zerocoinDB | coins with metadata, undo data, spent serials, transaction index | connect, disconnect, verify at start and by RPC | coins cache; zerocoinDB and index are written at once, coins later | two records of one fact with different lifetimes; order of undo; verification disconnects blocks "memory-only" and writes to disk all the same | the coins are those of the chain; no output or serial is spent twice; rewards mature |
| **Mempool, orphans** `txmempool.cpp`, `main.cpp` | `mapTx`, `mapNextTx`, `mapOrphanTransactions(ByPrev)` | accept, `remove`, `removeConflicts`, `removeForBlock`, `removeCoinbaseSpends`, orphan eviction | reorganisations give transactions back | two maps in step through recursive removal | no two transactions spend one output; every input exists |
| **SwiftX** `swifttx.cpp` | `mapTxLockReq(Rejected)`, `mapTxLocks`, `mapLockedInputs`, `mapTxLockVote`, `mapUnknownVotes` | request, vote, complete, expire, resolve conflicts | `CheckBlock` refuses blocks against a lock; a completed lock may call `ReprocessBlocks` | votes before the request (`operator[]` at line 360 enters an empty request); expiry releases inputs of accepted requests only | one lock per input; every input is released in the end |
| **Sporks** `spork.cpp`, `sporkdb.cpp` | `mapSporks`, `mapSporksActive`, database | message, load, `ExecuteSpork` -> `ReprocessBlocks`, `ReconsiderBlocks` | everything that asks `IsSporkActive` | memory and database; reordered messages | the newest signed value wins, also after a restart |
| **Masternode sync** `masternode-sync.cpp` | asset, attempt, counters, per-peer "fulfilled" marks | `Process` every second, inventory callbacks | masternode list, payments, budget | timeouts against late answers; `ClearFulfilledRequest` gives up if `cs_vNodes` is busy | ends, and nobody is asked twice for one asset |
| **Masternode list, pillars** `masternodeman.cpp`, `masternode.cpp`, `pillar` code in `AcceptBlock` | list, seen broadcasts and pings, who asked | broadcast, ping, expiry, `CheckAndRemove`; registration at block acceptance | payments rank it; pillars change with *accepted*, not connected, blocks | pillar bookkeeping is never undone | list agrees with the chain |
| **Payments, budget** `masternode-payments.cpp`, `masternode-budget.cpp` | votes, winners per height, proposals, finalized budgets, orphan votes | vote, clean, choose payee | `CheckBlock` asks them | cleaning races synchronisation; votes before proposals | all nodes with one set of votes pay the same payee |
| **Block download** `main.cpp`, `limitedmap.h` | `mapBlocksInFlight`, `CNodeState`, `nQueuedValidatedHeaders`, `mapAlreadyAskedFor` | request, receive, stall, time out, `FinalizeNode` | peers | a counter not given back when a peer leaves | a block is in flight from at most one peer; counters match |
| **Scheduler** `scheduler.cpp` | `taskQueue`, `nThreadsServicingQueue`, stop flags | `serviceQueue`, `schedule`, `stop` | fee flush, address dump | `notify_one` with sleepers on different deadlines; drain | tasks run once, drain ends |
| **Address manager** `addrman.cpp` | tables new/tried, `mapInfo`, `mapAddr`, `vRandom` | `Add`, `Good`, `Attempt`, `Select` | network | reference counts over four structures | the structures agree |
| **Wallet** `wallet/`, `qt/walletmodel.cpp` | `mapWallet`, `mapTxSpends`, cached credits, the best block in wallet.dat | sync with chain and pool, create, commit, rescan, re-accept | `SyncTransaction` signals; `AcceptToMemoryPool` | three records written at three times; the wallet is told of some changes of the pool and not of others; creation and commitment in two critical sections | it knows what is in the chain; it offers exactly the coins that can be spent |
| **Zerocoin wallet** `zznn/` | mint pool, tracker | derive, mint, spend | the wallet | key derivation, database | – |
| **Network** `net.cpp`, **RPC/HTTP** `rpc/`, `http*.cpp`, **ZeroMQ**, **GUI** `qt/` | buffers, sockets, sessions | I/O and presentation | call the above | – | – |
| **PoS kernel** `kernel.cpp`, **scripts** `script/`, **zerocoin arithmetic** `libzerocoin/`, **vendored** `leveldb/`, `secp256k1/`, `univalue/` | none, or data only | pure functions | – | arithmetic | – |

### 1.3 How the modelled parts meet

```
                 headers, blocks        invalidateblock, reconsiderblock
                        |                           |
   SwiftX lock --> CheckBlock            +----------+
   (Contest,            |                |
    Settle)             v                v
              +---------------------------------------+
              |  ChainState   (BlockTree: the tree)   |---> block index db --+
              |  candidates, tip, marks, flushes      |                      | one after
              +---------------------------------------+                      | the other
                 ConnectTip | DisconnectTip       \                          |
                            v                      +------> coins db --------+
              +------------------------+   checks   +-------------------------+
              |  Ledger: ConnectBlock, |----------->|  CheckQueue             |
              |  DisconnectBlock, undo,|<-----------|  implements             |
              |  serials, verification |   verdict  |  VerdictService         |
              +------------------------+            +-------------------------+
                            | coins
                            v
              +------------------------+
              |  CoinsCache implements |
              |  CoinsStore            |
              +------------------------+
```

`ChainState` decides *which* block comes next and treats connecting as one
answer (`Invalid`). `Ledger` says what connecting *does* and lets the chain
move to any block. `Ledger` has the coins as one function, which is what
`CoinsCache` is shown to implement (`CoinsStore`), and the scripts as passed,
which is what `CheckQueue` is shown to answer (`VerdictService`). The interfaces
between the layers are thus stated, and each side is checked against its own.

Above the chain stands what is built on it. `Mempool` takes the coins for a
function of the chain — that is what `Ledger` shows — and lets any block the
pool's rules allow come and go. Two modules extend it, so that their actions
change the pool and the chain together:

```
      SwiftLocks                      Wallet
      requests, votes, locks          mapWallet, credits, locator, restart
            |  mapLockedInputs             |  SyncTransaction, coins on disk
            v                              v
      +--------------------------------------------+
      |  Mempool: pool, orphans, chain of blocks   |
      +--------------------------------------------+

      BlockDownload (BlockTree)    which block from which peer
      Scheduler                    periodic work: dumps of AddrMan, fee flush
      AddrMan                      which peers, through restarts
```

## 2. Plan

In the order of importance: first what decides whether the node has the right
chain and the right coins, then what feeds it, then what is built on it.

| | Module | Models | Composes / refines | Properties and theorems | State |
|---|---|---|---|---|---|
| 1 | `CheckQueue`, `VerdictService` | the script check pool | refines `VerdictService` | counters, verdict, `Wait` returns; all safety proved | done |
| 2 | `BlockTree`, `ChainState` | index, activation, operator, crash | instance of the tree | best chain, candidates, links, disk, termination | done; 12 |
| 3 | `CoinsCache`, `CoinsStore` | the stack of coins views | refines `CoinsStore` | flags, refinement; all proved | done |
| 4 | `Ledger` | connect, disconnect, undo, serials, verify | tree shared with 2 | coins of the chain, spent once, maturity, serials | done; 15 |
| 5 | `Mempool` | `mapTx`, `mapNextTx`, orphans, through reorganisations | the chain's coins as `Ledger` shows them | minable, nothing lost, orphans follow | done; 13 |
| 6 | `SwiftLocks` | requests, votes, locks, expiry, reprocessing | extends 5 | votes once, consensus, rivals kept out, expiry | done; 14 |
| 7 | `BlockDownload` | node states, blocks in flight, timeouts | tree shared with 2 | books agree, requests in order, requests end, synchronisation starts | done; 11 |
| 8 | `Scheduler` | service threads, stop, drain, interruption | – | counted, attended, drained, stops; all safety proved | done |
| 9 | `AddrMan` | both tables, index, random order, peers.dat | – | `Check_`, restart, eviction | done, proofs open |
| 10 | `Wallet` | `mapWallet`, credits, restart, send dialog | extends 5 | follows the chain, offers exact, credits | done; 16 |
| 11 | `BlockDownloadProofs` | – | `BlockTreeTheorems` | the books of the download and the order of requests, for any tree, peers and window | done |
| 12 | `ChainStateProofs` | – | `BlockTreeTheorems` | all safety properties of 2, for every tree and any number of threads; four of them under conditions that the code needs | done |
| 13 | `PoolProofs` | – | – | minable, nothing lost, orphans follow, for any transactions and peers | done |
| 14 | `PoolProofs` | – | follows 13 | all safety properties of 6, for any masternodes and requests | done |
| 15 | `LedgerProofs` | – | `BlockTreeTheorems` | all safety properties of 4, for any blocks and transactions | done |
| 16 | `PoolProofs` | – | follows 13 | all safety properties of 10, for any transactions; a condition on the second crash | done |
| 17 | proofs about `AddrMan` | – | – | `CheckPasses` | open (section 7) |

The masternode layer — synchronisation, list, payments, budget — and the sporks
were planned and are left out; section 8 says why for each.

Abstract specifications: `VerdictService` and `CoinsStore`, each implemented by
a detailed module. For the others the promise is a property of the detailed
module itself, because the abstract machine would have the same variables: a
`BestChain` variable that only ever moves to a best valid chain is not what
`ActivateBestChain` implements step by step (section 9, the gap inside a
reorganisation), only what it has reached when it is at rest.

A composition of `ChainState` and `Ledger` (one tree, `ConnectTip` shared)
multiplies two state spaces that are at their limit already; it is left out
because every property that would need both — coins of the tip, disk loadable —
is stated on the side that can break it. `Mempool` with `SwiftLocks` and with
`Wallet` *are* composed, since neither says anything without the pool.

## 3. Modules

### 3.1 `CheckQueue` — `checkqueue.h`

A step is one critical section of the queue's mutex, or the run of a batch
outside it; `cond.wait` cuts a critical section in two.

| Code | Model |
|---|---|
| `queue` (a vector "used as a LIFO") | a set: the order is not observable |
| `nIdle`, `nTotal`, `fAllOk`, `nTodo` | same names |
| where each thread is in `Loop` | `pc` (`enter`, `top`, `wait`, `woken`, `run`, `gone`, `out`, `ctl`) |
| `vChecks`, `fOk`, `nNow` | `vChecks[t]`, `fOk[t]`, `BatchFor` |
| first iteration: `nTotal++` | `Enter` |
| later iterations: `fAllOk &= fOk; nTodo -= nNow; notify` | `CleanUp` |
| after `cond.wait`: `nIdle--` | `Resume` |
| "logically, the do loop starts here" | `LoopBody` = `Take`, `Return` or `Park` |
| `BOOST_FOREACH (T& check, vChecks) if (fOk) fOk = check()` | `Execute` |
| `CCheckQueueControl` | `OpenControl`, `CallWait` |
| `Add` with `notify_one`/`notify_all` | `Add(S)` |
| `boost::thread_interrupted` out of `cond.wait` | `Interrupt`: `nIdle--`/`nTotal--` are skipped |

`bad`, chosen among `BadSets` when a session opens, says which checks are
false; the constant exists only to keep the instance small, and the proofs allow
every set of checks. A thread is interrupted once. `VerdictService`
is what `ConnectBlock` expects: open, hand over, be told whether all passed.

### 3.2 `BlockTree`, `ChainState` — `main.cpp`, `chain.h`, `spork.cpp`, `init.cpp`

The tree is a constant (`Parent`, `Work`, `Address`): every block that exists
anywhere; `nStatus[b] = {}` until the node hears of it. `SortsBefore` is
`CBlockIndexWorkComparator` with the pointer's address as last tie breaker.

| Code | Model |
|---|---|
| `nStatus` | a set of flags; `VALID_TRANSACTIONS` comes with `HAVE_DATA` |
| `nChainTx != 0` | `b \in chainTx` |
| `setBlockIndexCandidates`, `mapBlocksUnlinked`, `setDirtyBlockIndex` | `candidates`, `unlinked`, `dirty` |
| `chainActive.Tip()`, `pcoinsTip->GetBestBlock()` | `tip`, `coinsTip`: they differ inside a critical section |
| block index database, coins database | `diskStatus`, `diskTip` |
| `ProcessNewBlock` | `CheckNewBlock` (no lock), `AcceptBlock`, then activation by the same thread |
| `ActivateBestChain` | `Activate` (`FindMostWorkChain`), `ReorgDisconnect`, `ConnectTip`/`ConnectFails`, `WriteCoins`, `Released` (loop condition, lock free), `Finish` |
| `FlushStateToDisk` | `WriteIndex` then `WriteCoins`: a crash fits between |
| `InvalidateBlock`, `ReconsiderBlock` | `InvalidateBlock`, `InvalidateTip`, `InvalidateEnd`; `ReconsiderBlock` |
| `ReprocessBlocks`, `DisconnectBlocksAndReprocess` | `ReprocessBlocks`, `ReprocessReconsider`, `ReprocessStart`, `ReprocessDisconnect`, `ReprocessEnd` |
| a SwiftX lock or a payment vote changes what `CheckBlock` answers | `Contest`, `Settle`, `rejected` = `mapRejectedBlocks` |
| process death; `LoadBlockIndexDB`; import thread | `CrashAndRestart` |

Three abstractions deserve a word. *`FindMostWorkChain` in one step*: it holds
`cs_main` and its loop drops candidates best first; `Activate` computes the set
of candidates dropped before the first usable one. *Critical sections in
pieces*: a reorganisation holds `cs_main` through several disconnections, each
with a flush, so a crash may fall between them; the step ends there and
`Unlocked` keeps other threads out. *Ids*: `nSequenceId` is given in the order
of the queue in `ReceivedBlockTransactions`, of which only "parents first" is
certain (`Numberings`), because siblings come out of a multimap in insertion
order that the model does not record.

### 3.3 `CoinsCache`, `CoinsStore` — `coins.h`, `coins.cpp`, `txdb.cpp`

Two caches over a database. An entry is the set of unspent outputs of a
transaction with its flags; empty is `IsPruned()`.

| Code | Model |
|---|---|
| `FetchCoins` and its callers on `pcoinsTip` / on a block's view | `ReadTip(x)` / `ReadView(x)` |
| `CCoinsViewCache view(pcoinsTip)` | `OpenView` |
| `ModifyCoins`, use, `~CCoinsModifier` | `ModifyCoins(x)`, `Change(c)`, `EndModify` |
| `SetBestBlock` | `SetBestBlock(h)` |
| `view.Flush()`: `CCoinsViewCache::BatchWrite` | `FlushView`, with `Merged` per entry |
| a refused block's view goes out of scope | `DropView` |
| `pcoinsTip->Flush()`: `CCoinsViewDB::BatchWrite` | `FlushTip`; `none` as best block is `uint256(0)` and is not written |
| the batch fails after the entries were moved into it | `FlushFails` |
| crash, shutdown and start | `Restart` |

`CoinsStore` has three plain versions of the coins (stored, current, scratch)
each with its block, and no flags.

### 3.4 `Ledger` — `main.cpp`, `undo.h`, `txdb.cpp`, `zznnchain.cpp`

| Code | Model |
|---|---|
| `CCoins` with `fCoinBase`, `fCoinStake`, `nHeight` | record of `coins[t]`; pruned = `NoCoins` |
| `CTxInUndo` | `UndoOf`: metadata only with the last output |
| `UpdateCoins` | `SpendInputs`: `SpendInput` along the inputs, then `FromTx` |
| `ConnectBlock` | `ConnectTx` along `Body[b]`; `AcceptTx` per kind; BIP 30 in `NoOverwrite` |
| `CheckInputs`' maturity test | `Matured` |
| `IsSerialInBlockchain`, `GetTransaction` through the index | `SerialInChain`, `TransactionInChain` |
| `DisconnectBlock`, `ApplyTxInUndo` part | `Backward` with `RemoveTx`, `UndoTx`, `RestoreInput`, `Restored`, from the last |
| `zerocoinDB->EraseCoinSpend`, `WriteCoinSpendBatch`, `WriteTxIndex` | `WithoutSpends`, `WithSpends`, `WithIndex`: on disk at once |
| `ConnectTip`; `DisconnectTip` with its flush | `ConnectTip`; `DisconnectTip`, `DisconnectEnd` |
| `CVerifyDB::VerifyDB` level 3, 4 | `VerifyDisconnect`, `VerifyTurn`, `VerifyConnect`, `VerifyEnd`; `Complain` where it returns false |
| `fRequestShutdown`; the end of `PrepareShutdown`, and the next start | `stopping`, set by `StartShutdown`; `Shutdown` |
| `if (ShutdownRequested()) return true` on the way down | `VerifyStopped`: a `verifychain` gives `cs_main` back and the node goes on until `Shutdown`; a start gives up |
| a node whose start complained is started again | `StartAgain` |

Two history variables name what the code loses: `unmarked` has the coinstakes of
which undo data restored a last output (`DisconnectBlock` does not set
`fCoinStake` again), and `torn` the blocks whose serials stayed erased when an
operation broke off, until the blocks are verified or connected again. No
action reads them; the properties say by them where the code does not keep
what it should, and of all else that it does.


What the model takes for granted: `CheckBlock`, scripts and amounts are in
order; one serial appears at most once in a block (`CheckBlock` sees to that);
`-txindex` is on (its default here); transactions of the chain are not in the
mempool, so that `GetTransaction` answers from the index; the cache limit that
lets `VerifyDB` skip blocks at level 3 is not reached; a crash is the process's,
not the machine's, so that unsynced LevelDB writes survive it.

### 3.5 `Scheduler` — `scheduler.{h,cpp}`

A step is what a thread does between taking `newTaskMutex` and releasing it.
`schedule` and `stop` notify after they have released it, so the notification
is a step of its own, and so is the moment a deadline passes: from then on the
thread takes no part in notifications, although it does not have the mutex yet.

| Code | Model |
|---|---|
| `taskQueue` (a multimap by time) | a set of tasks with times; the order among equal times is open |
| `nThreadsServicingQueue`, `stopRequested`, `stopWhenEmpty` | same names |
| where each thread is in `serviceQueue` | `pc`; `until` is its deadline |
| `++nThreadsServicingQueue` and the loop | `Enter`, with `LoopBody` up to the next wait |
| the wait of line 44 or 60 ends by notification, or spuriously | `Resume`, `SpuriousWake` |
| `wait_until` ends by time | `Expire`, then `Relock`: `Take` of whatever task is first now |
| the task runs, returns, schedules (`Repeat`) | `Return`, `ScheduleFromTask`, `NotifyFromTask` |
| `schedule`, `stop`, their `notify_one`/`notify_all` | `Schedule`, `Stop`, `OwnerNotifies` |
| `threadGroup.interrupt_all()`, `catch (...)` | `Interrupt`, `Throw` |
| the clock | `Tick` |

### 3.6 `Mempool` — `txmempool.cpp`, `main.cpp`

An outpoint is a transaction and an output number. `pool` has the two maps of
`CTxMemPool`, `chain` the transactions of each block, from which the coins
follow. A step is what happens between two calls of `mempool.check`.

| Code | Model |
|---|---|
| "tx": `AcceptToMemoryPool`, or into the orphans with `LimitOrphanTxSize` | `ReceiveTx` |
| the loops over `vWorkQueue` and `mapOrphanTransactionsByPrev` | `TryOrphan`, `NextParent` (`todo` is the iterator's rest) |
| `vEraseQueue`, erased at the end | `vEraseQueue`, in `NextParent` |
| `AcceptToMemoryPool` from wallet or RPC | `Submit` |
| `FinalizeNode` -> `EraseOrphansFor` | `PeerGone` |
| `CheckBlock`'s filter for locks; `ConnectTip`: `removeForBlock` with `removeConflicts` | `CheckBlock`, `ConnectChecked`; `ConnectTip` is both in one step, for a thread beside which nothing is locked |
| `DisconnectTip`: resurrection, `removeCoinbaseSpends` | `DisconnectTip`: `Resurrect` along the block (`Resurrected`), `RemoveCoinbaseSpends`; `DisconnectRefusing` where the locks are asked for in steps of their own |
| `remove(tx, ..., true)` | `Descendants`, `RemoveRecursively` |

### 3.7 `SwiftLocks` — `swifttx.cpp`, with `Mempool`

| Code | Model |
|---|---|
| `mapTxLockReq`, `...Rejected`, `mapTxLocks`, `mapTxLockVote`, `mapLockedInputs` | same names; a request is the inputs of the transaction stored for it |
| "ix" up to `AcceptToMemoryPool`; then, without `cs_main`, as accepted or as refused | `ReceiveRequest`; `FinishRequest` = `RequestAccepted` or `RequestRejected` |
| `sendrawtransaction` with SwiftX | `SendRequest`, then `EndAccept` |
| "txlvote": `ProcessConsensusVote` | `ReceiveVote`, for a valid vote or one that is not ranked or signed |
| `CheckForConflictingLocks` | `Rivals`, `Cancelled`: the first rival found, whichever that is |
| `LockTransactionInputs` | `LockFree` |
| `ReprocessBlocks(15)` after a rejected request is locked all the same | `Replay`, one `DisconnectTip` per step |
| `CleanTransactionLocksList` | the action of that name |
| `nExpiration` against `GetTime()` | counts down from now, by `Tick` |
| the message thread on transactions and blocks | `PoolMessage`, with `LockConflict` reading `mapLockedInputs` |
| `AcceptToMemoryPool` of another thread (line 1379, then up to 1618) | `StartAccept`, `EndAccept` |
| `ProcessNewBlock` of another thread: `CheckBlock` (line 4852), then under `cs_main` (4858) | `StartConnect`, `EndConnect` |
| `DisconnectTip` of another thread, which asks for the locks of one transaction after the other | `TestNext`, `EndDisconnect` |
| who has `cs_main` | `task`, the handler of "tx", `replay`: `CsMainFree` |

`swifttx.cpp` holds no lock for its maps, and only the message thread adds to
`mapLockedInputs`. So a vote (`ReceiveVote`) or the rest of a rejected request
(`FinishRequest`) may come at any moment of another thread that asked for the
locks and has not acted yet, whether that thread has `cs_main` or not. What
the message thread does to the pool and the chain itself stays one step: it
cannot lock anything meanwhile. The history variable `early` has the inputs
that were locked in that window, each with the transaction that had been tested.

### 3.8 `BlockDownload` — `main.cpp`

`mapNodeState` maps the nodes that exist to those fields of `CNodeState` that
decide about downloads. Times are left out: a timeout is a choice of
`SendMessages`, possible whenever its clock runs. No network of this program
activates headers-first synchronisation, so that a block is known without its
data only if `AcceptBlock` refused it after its header had been entered.
`FindNextBlocksToDownload` walks up the chain of the peer's best block; the
model says in sets what that walk meets: `path` is the window, `ends` where the
walk would stop, `seen` what comes before that, and the first `count` missing
blocks of it are asked for. They are on one chain, so that their order, which
`vBlocksInFlight` keeps, is that of their heights (`Upwards`).

| Code | Model |
|---|---|
| `InitializeNode`, `FinalizeNode` | same names |
| "version": `UpdatePreferredDownload` | `Version` |
| "inv" of a block: `UpdateBlockAvailability` | `Inv` |
| "block", `submitblock`: `MarkBlockAsReceived`, `AcceptBlock` refusing early, late or not | `ReceiveBlock`, `SubmitBlock` = `ProcessNewBlock` |
| `SendMessages`: `nSyncStarted`, stalling and download timeouts, `FindNextBlocksToDownload`, `MarkBlockAsInFlight` | `SendMessages` |

### 3.9 `AddrMan` — `addrman.{h,cpp}`, `net.cpp`

`addrman` is a record of the members of `CAddrMan`. Every helper (`Create`,
`SwapRandom`, `Delete`, `ClearNew`, `MakeTried`) is an operator from one such
record to the next, so that an action is the composition the code is. The slots
follow from hashes; which slot belongs to whom is a constant.

| Code | Model |
|---|---|
| `Add_` of an unknown / a known address | `AddUnknown`, `AddKnown`; what clock and dice decide is open |
| `Good_`, `MakeTried` with its eviction | `Good`, `MakeTried`, `Evict` |
| `GetAddr_` (swaps) | `GetAddr`: any order may come out |
| `DumpAddresses`, `Serialize` | the action and the operator of that name |
| a shutdown, or a crash, perhaps inside a dump | `Stop`: the file is the new one, the old one, torn or too short |
| `StartNode`: `CAddrDB::Read`, `Unserialize` | `Start`, `StartThrows` |

A start without a readable peers.dat draws a new `nKey` and with it other slots;
in the model the slots stay, which makes no difference to an empty manager.

### 3.10 `Wallet` — `wallet/wallet.cpp`, `qt/walletmodel.cpp`, with `Mempool`

A block is identified by the chain that ends with it. `wallet.dat` is
`mapWallet` without the cached credits, since `AddToWallet` writes at once
(`wallet.cpp:705`–`710`); the coins database and the locator follow later.

| Code | Model |
|---|---|
| `SyncTransaction`, `AddToWalletIfInvolvingMe`, `AddToWallet` | same names, as operators on `mapWallet` |
| the loops over a block, over blocks to rescan and over `mapWallet` | `SyncAll`, `ScanBlock` and `Scan`, `Reaccepted`: functions along a sequence, recursive and not folds, so that they can be proved about |
| `AcceptToMemoryPool`, from a peer or by RPC | `AcceptToMemoryPool` |
| `ConnectTip` with its two rounds of notifications and its flush | `Connect` |
| `DisconnectTip`, which always saves the coins | `Disconnect` |
| `FlushStateToDisk`, periodic or at shutdown | the action of that name |
| `GetBalance`: `GetAvailableCredit` and its cache | `GetBalance` |
| `prepareTransaction`, `sendCoins` of the dialog | `CreateTransaction`, `CommitTransaction` |
| `IsTrusted`, `IsSpent`, `AvailableCoins` | same names |
| process death; `AppInit2`: `FindForkInGlobalIndex`, rescan | `Crash`, `Start`; a crash in the middle of a flush is an outcome of `Crash` |
| `ReacceptWalletTransactions` at the end of `AppInit2` | the action of that name, other threads running already |

The fork of the locator is the longest common prefix, exact because the first
ten entries of a `CBlockLocator` are dense and the chains are shorter.

## 4. Runs

State counts are of distinct states. The `MC*` modules hold trees, transactions
and slots as definitions over model values; the other modules are small enough
to be configured directly. The type invariants (`TypeOK`) document the types;
seven of them are proved (section 6) and no run spends its time on them.

| Run | Module, configuration | States | Question |
|---|---|---|---|
| `checkqueue` | `CheckQueue`, `CheckQueue.cfg` | 0.38 M | Do counters and verdict survive every interleaving, spurious wake-up and interruption, and does `Wait` return? |
| `chain_reorg` | `MCChainState`, `ChainReorg.cfg` | 3.3 M | Two threads reorganise between two branches, SwiftX locks come and go, an operator invalidates: is any chain forgotten, is anything unchecked active, is every mark explained? |
| `chain_crash` | `MCChainState`, `ChainCrash.cfg` | 97 k | Two crashes anywhere, while a reorganisation fails and is undone; does activation end although two threads compete? |
| `chain_operator` | `MCChainState`, `ChainOperator.cfg` | 2.1 M | Each of invalidate, reconsider, reprocess, lock, late refusal and crash once, in any order: links, candidates and databases. |
| `coins_cache` | `CoinsCache`, `CoinsCache.cfg` | 0.72 M | Do DIRTY and FRESH keep their meaning, and does the stack implement three plain versions of the coins? |
| `ledger` | `MCLedger`, `Ledger.cfg` | 0.33 M | Three disconnections, a crash, a verifychain and a shutdown at any moment, over branches with double spends, early spends and a coinstake spent whole: what is lost, and is it all that is lost? |
| `mempool` | `MCMempool`, `Mempool.cfg` | 46 k | Conflicts, chains, orphans in any order, blocks that come and go: does `mempool.check` pass, is anything lost? |
| `swift_locks` | `MCSwiftLocks`, `SwiftLocks.cfg` | 0.77 M | Two rival requests, votes before, between and after them, around the expiry and between the two steps of other threads, over pool and chain. |
| `block_download` | `MCBlockDownload`, `BlockDownload.cfg` | 0.20 M | Two peers that come, offer branches, stall and go, and blocks by RPC: do the books agree, does every request end? |
| `scheduler` | `Scheduler`, `Scheduler.cfg` | 0.25 M | Two threads, tasks that schedule tasks, and the three ways to stop: is a notification lost, a task left behind, a thread miscounted? |
| `addrman` | `MCAddrMan`, `AddrMan.cfg` | 0.52 M | Hosts that collide in both tables, evictions, dumps and restarts: does `Check_` pass, does the file restore what was there? |
| `wallet` | `MCWallet`, `Wallet.cfg` | 0.19 M | Blocks and rival transactions that come and go, a crash at rest or within a flush: does the wallet know what is in the chain, are its coins and credits right? |

The `Find*.cfg` configurations are not among the runs; each reproduces a
disagreement of section 9.

### 4.1 What the properties say

**Check queue.** `CountersExact` ties the three hand-kept counters to what the
threads are doing, interrupted ones included. `ImplementsService` is the
refinement of `VerdictService`: no failure lost, none carried over. `WaitReturns`
is liveness. The assertion of the control's constructor, `ControlAssert`, is
proved (section 6.1).

**Chain.** `CandidatesCompleteAtRest` and `CandidatesSound` are the two
directions of `CheckBlockIndex`'s assertions about `setBlockIndexCandidates`,
`LinksExact` those about `nChainTx`, `mapBlocksUnlinked` and the sequence ids,
`FailuresExplained` the one about failure marks. `BestChainActive`: when all
threads are done no known, valid chain sorts above the tip.
`ActiveChainValid`: every active block has data, no failure mark and checked
scripts, and the coins are the tip's. The assertion of
`PruneBlockIndexCandidates` does *not* hold (`PruneLeavesSomething`,
section 9). `DiskLoadable` looks at the databases in *every* state, between the two writes too: the chain of the stored
coins is in the stored index with data and checked scripts, and the index is
closed under parents. `ActivationEnds` is liveness.

**Coins.** `FlagsSound` gives the flags the meaning `coins.h` documents, and
adds what `BatchWrite` silently relies on: what a view holds and `pcoinsTip`
does not is fresh. `ImplementsStore` is the refinement. The assertion in `BatchWrite`, `FreshAssert`, is proved (section 6.2).

**Ledger.** `CoinsMatchChain`: coins in memory, on disk and in the verifying
view equal what is computed from the blocks alone (`CoinsAt`), metadata
included, but for the mark of a coinstake in `unmarked`. `VerifyPasses`, an action
property: `CVerifyDB` complains only of a chain that has such a coinstake
(whose coins then differ from `FromTx`) or that spends a serial twice.
`SerialsRecorded`: whenever blocks are taken, zerocoinDB names the spender of
every serial of the active chain whose block is not torn. `SpentOnce`: no output
twice, and no serial of an untorn block again. `MaturityKept` is
stated on the chain's blocks and not on the coins' own word. Each exception is
as narrow as the code allows: without it the property is violated
(`FindStakeUndo.cfg`, `FindVerifySerials.cfg`, `FindVerifyStop.cfg`, section 9),
and a verification at the *start* that is cut short has none.

**Pool.** `PoolMinable` is `CTxMemPool::check`: every input of a member is an
output of another or unspent and mature, and `mapNextTx` says exactly who spends
what. `NothingLost`: a transaction of a disconnected block is in the pool
afterwards or has an excuse (of a kind only blocks may hold, locked against, an
input gone or immature). `OrphansFollowParents`: when the handler of "tx" is
done, no orphan of a parent it accepted is left that could be accepted.

**SwiftX.** `VotesCountedOnce`: `CountSignatures` counts entries, and only
`mapTxLockVote`, cleaned at another time, keeps a second one out.
`LockedByConsensus`: what is locked for a request never rejected is locked by
enough masternodes, and lock, request and inputs are all still there, so that
the expiry finds them. `RivalsKeptOut`: while an input is locked no rival enters
pool or chain, by message, as an orphan, out of a disconnected block, in a new one
or from another thread, unless the rival had passed its test before the
input was locked (`early`). That exception is what the code fails to exclude:
`RivalsNeverIn`, without it, is violated (`FindSwiftRace.cfg`, section 9).
`LocksExpire` is liveness.

**Download.** `BooksAgree`: what is in flight, the lists and flags of the nodes
and three counters say the same. `RequestsInOrder`: nothing is asked for above a
gap or an invalid block. `EveryRequestEnds`, `SyncStarts`: liveness.

**Scheduler.** `ThreadsCounted` is the destructor's assertion and more.
`FirstTaskAttended`: no notification is lost on a thread that waits for something
later. `DrainLeavesNothing` is what `stop(true)` promises. `StopEnds` is
liveness.

**Addresses.** `CheckPasses` is `CAddrMan::Check_`, compiled in debug builds
only. `RestoredAsDumped`: from ids alone the file restores the slots of both
tables. `ForgottenForAnother`: an address is dropped only for one that has its
slots afterwards, at most one at a time, and no tried one.

**Wallet.** `WalletFollowsChain`: each of the wallet's transactions in the active
chain is in `mapWallet` with the right block, whatever was last written of the
coins, the locator and wallet.dat. `OffersExact`: `AvailableCoins` offers what
the pool would let it spend, and all of it. `CreditNeverTooHigh`: no cached
credit counts a coin that is spent. All three are theorems (6.10), for any number
of crashes of which only the first may be a `Relapse`.

### 4.2 Bounds, and why they are enough

- *Check queue*: two workers, one master, four checks, batches of two, two
  sessions. Two workers are needed for "the last one wakes the master while the
  other sleeps". A batch is the queue's size divided by the threads plus one,
  so that four checks are the fewest of which some thread takes two. A failure
  can only leak into the *next* session. `BadSets` names the sets of failing
  checks a session may have: none, one, all; the checks differ in nothing else. The proofs of section 6 hold for any numbers (except liveness).
- *Chain*: the Fork tree (two branches of two blocks; equal first blocks, the
  second branch heavier) has reorganisations that must disconnect, that fail
  at the first or the second block, and ties decided by sequence id and by
  address. The Over tree is the fork without a2: the shortest one in which the
  tip is left for a branch that fails.
  Every bounded operation (`MaxInvalidate`, `MaxReconsider`, `MaxReprocess`,
  `MaxContest`, `MaxCrash`) is a counter in `used`; accepting headers and
  blocks, activation and flushing are not bounded. Two threads suffice for one
  to move the tip between two steps of the other; a third only repeats that.
  `chain_operator` has one thread and every operation; `chain_reorg` has two and
  no crash, reconsideration or reprocessing; `chain_crash` has two and only the
  crash, and the Over tree, since it looks for liveness.
- *Coins*: two transactions (a read of one must not disturb the other), two
  outputs (partly spent is neither empty nor full), two blocks, one refused
  batch. Restarts and flushes are unbounded. The proofs hold for any numbers.
- *Ledger*: maturity 2 and verification depth 2, so that a spend may be one
  block early and a stopped check leaves one or two blocks behind; three
  disconnections reach from the end of one branch into the other; ten blocks
  hold a transaction of two inputs, a spend within a block, one transaction on
  two branches, one serial on two branches and twice on one, an early spend and a
  coinstake spent whole; one verifychain, one shutdown and one crash meet in any order.
  Both depths are 2 here; `FindVerifySerials.cfg` has the RPC go deeper than
  the start, as the defaults do, and the proofs hold for any two depths.
- `ReprocessDepth = 0` in the chain and SwiftX runs:
  `DisconnectBlocksAndReprocess` then disconnects one block, since its loop runs
  while `i <= blocks`.
- *Pool*: a funding transaction, a coinstake, two rivals, a child, a grandchild
  of two parents, another one, a nonstandard transaction; two peers, room for
  two orphans (a third evicts), maturity 2, four blocks of at most two
  transactions, connected and disconnected without bound.
- *SwiftX*: two rival requests over one outpoint; two masternodes, of which both
  must vote; a lock lives one tick. `Self` is empty: a vote of this
  node's own never counts here. Requests, votes, expiry and reprocessing
  repeat without bound; one block at a time. The masternodes vote for one of the
  two requests (`Ballots`), since the other locks its input when it is rejected:
  rivals, complete or not, meet. One block may wait between its check and its
  connection (`MaxChecked`). The proofs hold for any ballots and any number of
  blocks that wait.
- *Download*: two branches (one of two blocks), a window of one and two requests
  in transit, so that both limits are reached; one peer preferred; an id is
  used once, as in the code.
- *Scheduler*: two threads (one to be woken in vain), three tasks, delays up to
  2 and a clock up to 3: three different deadlines. The proofs hold for any
  numbers.
- *Addresses*: four services on three hosts (one with two ports), two sources,
  2 x 2 slots in each table laid out so that two hosts collide in the tried table and
  in each new bucket; at most two references (eight in the code), half of the
  table per `getaddr`, three ids between two starts.
- *Wallet*: a funding transaction of two outputs, a coinstake, two rivals, and a
  transaction that spends an output of each but the second rival; two blocks of one
  transaction each, one disconnection, one crash: a second one in the wrong place
  is too many for the code (section 9, `FindRescan.cfg`), and section 6.10 says
  which place that is. `bSpendZeroConfChange` is true
  (false is the program's default): trust in unconfirmed coins is where
  the wallet may err.

No symmetry reduction is used: blocks differ by work and address, transactions by
their inputs, and runs with liveness could not use it.

`chain_operator` does not list `BestChainActive`, and the other two chain runs
do not reprocess: the combinations that break these properties in the code are
known (section 9). Each passing run says which operations a property survives;
the `Find*.cfg` configurations say which one it does not.

## 5. Fairness

Nothing that a peer, an operator, a user or a crash does is ever fair.

*`WaitReturns`* holds in `CheckQueue!Spec` under weak fairness of each thread's
own step (`Enter`, `CleanUp`, `Resume`, `Execute`) and of the master's call of
`Wait`: a runnable thread is run, a mutex that stays free or keeps being
released is obtained. Weak fairness of `Resume` is for *woken* threads; nothing
says a sleeping one wakes, so a missing `notify_one` is not hidden by spurious
wake-ups (the mutant `NotifyNobody` is found). Opening sessions is not fair.

*`ActivationEnds`* holds in `ChainState!FairSpec` under strong fairness of each
thread's step: `cs_main` is contended, a thread's step is enabled again and
again but not continuously. `cs_main` is released after each step of
`ActivateBestChain` and at the end of each call; `TRY_LOCK` loops retry every 50
ms. Lock changes and the arrival of blocks are not fair; the arrival of blocks
runs out because the tree is finite.

*`StopEnds`* holds in `Scheduler!FairSpec`: the clock runs, the owner ends the
calls it began (it is not made to begin any), and each thread's step is weakly
fair — tasks return, woken threads get the mutex. Sleeping threads need not wake.
A passed deadline is *strongly* fair, because spurious wake-ups may disable it
for a moment, over and over.

*`LocksExpire`* holds in `FairSwiftSpec`: time passes and
`ThreadCheckObfuScationPool` calls `CleanTransactionLocksList` every minute.
Neither waits for a lock or a handler, hence weak fairness of both, and of nothing
else.

*`EveryRequestEnds`, `SyncStarts`* hold in `BlockDownload!FairSpec`: the message
thread comes round to every node, so that one with which the synchronisation
would be started is not passed over for ever (`Started`) and a download timeout
is noticed (`TimedOut`); the socket thread deletes what is to be disconnected.
No peer is assumed to answer.

## 6. Proofs

The proof modules are about the *same* definitions the runs check, for every
value of the constants that satisfies the named assumption. TLC evaluates each
assumption in a run. 30 of the 33 safety
properties of the runs are theorems.

### 6.1 `CheckQueueProofs` (assumes `CQAssumption`: finitely many workers and checks, batch size at least one)

| Theorem | Statement |
|---|---|
| `PoolInvariant` | `Spec => []IInv` |
| `CountersAlwaysExact` | `Spec => [](TypeOK /\ CountersExact)` |
| `ControlNeverAsserts` | `Spec => []ControlAssert` |
| `PoolImplementsService` | `Spec => ImplementsService` |

`CountersExact` alone is not inductive: that `nTodo -= nNow` keeps `nTodo`
exact needs to know that batches are disjoint from each other and the queue
(`BatchesDisjoint`); that `nTotal - nIdle` is the number of busy threads needs
that exactly they own batches (`BatchesOwned`); and the verdict needs
`FailuresRecorded`: a false check handed over is still outstanding or already
in `fAllOk`. `IInv` is the conjunction. The three ways into the loop's head —
first entry, after a batch, after sleeping — change the counters differently
and then run the same code. `MidState` says what is common to them: the thread's
old batch is accounted for and the thread counts as busy. `EnterMid`,
`CleanUpMid`, `ResumeMid` lead there; `LoopStep` shows that `Take`, `Return` and
`Park` lead from there back to `IInv`, once. The refinement has the same shape:
only `Return` is visible to the master.

### 6.2 `CoinsCacheProofs` (assumes `CoinsAssumption`: `none` is none of the other values)

| Theorem | Statement |
|---|---|
| `CacheInvariant` | `Spec => []IInv` |
| `FlagsAlwaysSound` | `Spec => [](TypeOK /\ FlagsSound)` |
| `BatchWriteNeverAsserts` | `Spec => []FreshAssert` |
| `CachesImplementStore` | `Spec => ImplementsStore` |

`FlagsSound` needs `ViewScoped` (a closed view is empty; the modified entry
exists) and `ModifiedDirty` (a modified entry is dirty, or changing it would
make a clean one differ from below). The heart is `MergedFacts`: for one
transaction, what `BatchWrite` leaves in the parent shows exactly what the
child showed, in each of its four cases; `FetchTipFacts` says reading changes
nothing that is seen. With these each step of the stack is a step or a
stutter of `CoinsStore`.

### 6.3 `SchedulerProofs` (assumes `SchedulerAssumption`: finitely many threads, natural bounds)

| Theorem | Statement |
|---|---|
| `ServiceInvariant` | `Spec => []SInv` |
| `ThreadsAlwaysCounted` | `Spec => [](TypeOK /\ ThreadsCounted)` |
| `FirstTaskAlwaysAttended` | `Spec => []FirstTaskAttended` |
| `DrainAlwaysLeavesNothing` | `Spec => []DrainLeavesNothing` |
| `OneThreadNeverEarly` | `OneThread` implies `Spec => NeverEarly` |

`SInv` adds to the three properties what they rest on. `FirstTaskAttended` needs
`NobodyWaits`: a thread that is thrown out notifies nobody, and that is harmless
only because an interruption leaves no thread waiting. `DrainLeavesNothing`
needs `OwnerFinished` (the owner schedules nothing once it has stopped the
threads; a task may) and `LeftWithReason` (a thread that is gone saw a reason
to go). Three ways lead to the head of the service loop, as in the check queue;
`LoopStep` says once what happens there, `LoopServes` that it keeps the
invariant, and `NotifyKeeps` does the same for every notification.
`OneThreadNeverEarly` has an invariant of its own, `WaitedFor`: with nobody else
to take tasks, the one a thread waited for, or an earlier one, is still there.
With two threads it is false (section 9).

### 6.4 `BlockTreeTheorems` (assumes `TreeAssumption`: finitely many blocks, work grows along `pprev`, addresses differ)

No theorem about a behaviour, but what 6.5 and 6.8 need of the tree: a chain is
the block and its parent's chain, it contains the genesis block, two blocks on
one chain are comparable, `Height` is injective on a chain and grows by one along
it, a non-empty set of blocks of a chain has one `Highest`, and `SortsBefore` is
a strict total order with a greatest element in every finite set. `Chain` is defined as the least
parent-closed set around a block, so that these facts are proved without
recursion; where an induction is needed, it is on the least chain work
(`LeastNatural`, from the well-foundedness of the natural numbers).

### 6.5 `ChainStateProofs` (assumes `TreeAssumption`, `ChainAssumption`: invalid and contested blocks are not the genesis block, natural bounds)

| Theorem | Statement |
|---|---|
| `Invariance` | `Spec => []IInv` |
| `TypeCorrect` | `Spec => []TypeOK` |
| `LinksCorrect` | `Spec => []LinksExact` |
| `CandidatesCorrect` | `Spec => []CandidatesSound` |
| `DiskCorrect` | `Spec => []DiskLoadable` |
| `FailuresCorrect` | `Spec => [](NothingReconsidered => FailuresExplained)` |
| `ActiveCorrect` | `Spec => [](NotCutShort => ActiveChainValid)` |
| `BestChainCorrect` | `Spec /\ []Undisturbed => []BestChainActive` |
| `CandidatesAllThere` | `Spec /\ []Undisturbed => []CandidatesCompleteAtRest` |

The properties lean on each other. That a block is connected only with its data
needs the candidates to be linked (`CandInv`); that nothing below the tip is a
candidate needs the tip to sort above what a reorganisation leaves, hence where
the two tips stand to each other and to `mostWork` while one is under way
(`TipsInv`); that a crash loses nothing needs to know of every flag that memory
has and the disk lacks that it is in `setDirtyBlockIndex` or about to be written
(`DiskInv`); and all of it that one thread at most is inside `cs_main`
(`ThreadsInv`). These parts, `LinksInv` and `IndexInv` are inductive together
(`State`); the failure marks are an invariant on top of them. There is one lemma
for each action and part.

*No block is forgotten.* `BestChainActive` is about moments when nothing is left to
do; what a thread does in between makes the candidates incomplete (section 9, the gap
inside a reorganisation). The invariant on top of `IInv` is `BestInv`. It says that
the candidates hold an *anchor*: a block whose chain was connected before and has no
mark, which the tip does not beat, and above which no eligible block is missing. At
rest the anchor is the tip. `Activate` drops no candidate with a clean chain
(`ActivateChooses`), so that the anchor is among those it may choose: it ends only
at the anchor, and only if nothing beats it, or it sets out for a block that nothing
beats (`ActivateBest`). A block that is connected on the way becomes the anchor if it
beats the old one (`ConnectedBest`); a block that fails was never connected, so that
it is not below the anchor (`FailsBest`); the end of an `InvalidateBlock` makes the
tip the anchor, and a restart the tip of the coins on disk. `Busy` carries the second
half: as long as the tip is not the best block, some thread is on its way to another
round of the loop, even though it reads the loop condition without the lock.

The conditions are not for convenience. `BestChainActive` needs three
(`Undisturbed`), and TLC shows each to be needed: no reprocessing
or reconsidering (`FindReprocess.cfg`, and section 9 on ancestors), no contested
block that was connected before (`FindRefusedTip.cfg`: the anchor could then fail),
and no crash together with an `InvalidateBlock`, after which the tip may be marked
and is no anchor (section 9, a marked tip). New locks, invalid blocks, invalidations, or any number of
crashes do no harm. `FailuresExplained` is false once a
block was reconsidered: a descendant on another branch keeps the mark that it
inherited (section 9), and a reprocessing reconsiders. `ActiveChainValid` is false
after a crash within `InvalidateBlock`: the marks are on disk and the coins
still above them (`FindInvalidateCrash.cfg`). The run `chain_reorg` satisfies
both; the theorems say that nothing else can break them, for any numbers of
threads, crashes (the first) and reconsiderations (the second).

### 6.6 `PoolProofs`, the pool (assumes `MempoolAssumption`: inputs are outputs that exist; what has no inputs is funding or a coinbase)

| Theorem | Statement |
|---|---|
| `Invariance` | `PoolSpec => []IInv` |
| `TypesCorrect` | `PoolSpec => []TypeOK` |
| `PoolCorrect` | `PoolSpec => []PoolMinable` |
| `DisconnectCorrect` | `PoolSpec => NothingLost` |
| `OrphansCorrect` | `PoolSpec => OrphansFollowParents` |

`PoolInv` adds to `PoolMinable` that the chain below it is valid and that no
transaction is in it twice. Its hard step is `DisconnectTip`: while the block's
transactions come back one by one, the pool contains children whose parents are
gone or whose coins are immature. The proof follows the pool along the block
(`Resurrected` is a function along a sequence; the first position at which a
claim fails is a least natural number) with the claim that after i transactions
an input of a member is an output of a member, of one of the block still to come
back, or of the chain that is left (`ReturnedFirst`, `ReturnedStep`), and shows that `remove(tx, ..., true)` and
`removeCoinbaseSpends` take away all that leans on what did not come back. `Descendants`, the
least closed set, is exact. `OrphansInv` says that both orphan maps are inverse to
each other. `HandlerInv` is what the loop over `vWorkQueue` knows half-way: an
orphan already passed by lacks an input still, or waits for a parent the loop
has yet to come to. Under `PoolSpec` no input is locked (`mapLockedInputs = <<>>`);
the steps are proved for any locks, and 6.7 uses them so.

A failing proof showed that the model took a funding transaction once more when
all its outputs were spent, because it has no inputs there. In the code its
inputs are spent too; `Considered` leaves it out now.

### 6.7 `PoolProofs`, the locks (assumes `SwiftAssumption`: requests have inputs, finitely many masternodes)

| Theorem | Statement |
|---|---|
| `SwiftInvariance` | `SwiftSpec => []SwiftInv` |
| `SwiftTypesCorrect` | `SwiftSpec => []SwiftTypeOK` |
| `VotesCorrect` | `SwiftSpec => []VotesCountedOnce` |
| `ConsensusCorrect` | `SwiftSpec => []LockedByConsensus` |
| `RivalsCorrect` | `SwiftSpec => RivalsKeptOut` |
| `PoolStaysMinable` | `SwiftSpec => []PoolMinable` |

`VotesSound`: every vote that counts in a lock is in `mapTxLockVote`, which is
what keeps the same one out when it comes again. `InputsHeld` is the reason why
`LockedByConsensus` survives rivals: a complete lock's inputs are held by its own
request, because `LockFree` refused them to anybody else, and
`CheckForConflictingLocks` lets both expire. `TestedInv` is behind `RivalsCorrect`:
what has passed its test and is not in yet spends nothing that is locked to
another, or the lock is in `early`; `ThreadsInv` says that a thread that has
`cs_main` finds pool and chain as it left them, so that its transaction still
fits. The theorems hold through votes before the request, votes inside every
window, replays and expiries in any order. `PoolStaysMinable` takes over the
proof of 6.6 step by step.

### 6.8 `BlockDownloadProofs` (assumes `TreeAssumption`, `DownloadAssumption`: a window and a limit of at least one, no peer is both preferred and a client)

| Theorem | Statement |
|---|---|
| `Invariance` | `Spec => []IInv` |
| `TypesCorrect` | `Spec => []TypeOK` |
| `BooksCorrect` | `Spec => []BooksAgree` |
| `OrderCorrect` | `Spec => RequestsInOrder` |

`ListsAgree` is inductive only with what keeps a block from being asked for
twice and a list from growing beyond its limit. `NodesInv` says of each node that
its best known block is in the index and its last common block has its data
with all its ancestors, hence is on the way to nothing missing; a node is
preferred only after its "version", or `FinalizeNode` would subtract what was
never added. `BlocksInv` says that the index is closed under parents.
`FindNextFacts` proves of `FindNextBlocksToDownload` that it finds at most
`count` blocks, neither here nor in flight, each with all of its chain here, in
flight or asked for together with it, none of it invalid, and names as staller
only a node that something is in flight from. The counters are exact because each
action moves them by what it adds to or takes from the nodes they count
(`Counted`).

### 6.9 `LedgerProofs` (assumes `TreeAssumption`, `LedgerAssumption`: what `CheckBlock` and `CheckTransaction` see to)

| Theorem | Statement |
|---|---|
| `CoinsKept` | `CoinbaseOnce: Spec => []CoinInv` |
| `LedgerTypesCorrect` | … `Spec => []TypeOK` |
| `CoinsCorrect` | … `Spec => []CoinsMatchChain` |
| `MaturityCorrect` | … `Spec => []MaturityKept` |
| `RecordsKept` | … `Spec => [](CoinInv /\ RecordInv)` |
| `VerifyCorrect` | … `Spec => VerifyPasses` |
| `SerialsCorrect` | … `Spec => []SerialsRecorded` |
| `SpendsCorrect` | … `Spec => []SpentOnce` |

`LedgerAssumption` takes from the code that a transaction has inputs, no two of
them the same (`main.cpp:1178`, `1219`), that one coinbase is in a block
(`main.cpp:4130`) and that no serial is twice in it (`main.cpp:4231`).

*One hypothesis.* `CoinbaseOnce`: a chain has no coinbase
twice; `ContextualCheckBlock` asks for the height in it (`main.cpp:4380`), once
the version has its supermajority. Without it a coinbase could overwrite one that
is spent, which BIP 30 allows and undo data cannot take back. Of other
transactions it is *proved* that they are in a chain once (`Joins`): their inputs
are gone. `MCLedger` has TLC evaluate it. Nothing is supposed of coinstakes, of
the two depths of verification or of when a shutdown comes: where the code loses
something, the history variables say what, and the theorems are about the rest.

*The coins.* `Joins(b, i)` says of the i-th transaction of a block, in terms of
the blocks below it alone, that it is new and that its inputs are there, unspent
and mature; `BlockCoins(b, i)` is what the coins then are. `ConnectBlock` that
succeeds has found `Joins` for every transaction, goes through
`BlockCoins(b, 0)`, ..., `BlockCoins(b, n)` and leaves undo data that fit
(`UndoFits`); `DisconnectBlock` goes the same way back, input by input, with any
undo data that fit. Both walks are recursive functions along a sequence, and the
first position at which they part from `BlockCoins` is a least natural number.
`CoinInv` says that each of the three sets of coins — in memory, on disk, in the
view of `CVerifyDB` — belongs to a block of the active chain (`Places`), up to lost
marks (`Same`), that
every block which may have to go has undo data, those on disk after a crash
included (`UndoKept`), and that all of the active chain did join (`Sound`).
`DisconnectBlock` restores what a coinstake had but its mark, and puts nothing into
`unmarked` that it did not restore (`Restakes`); that is all by which the way back
differs. `MaturityKept` needs a step of its own (`RewardsKept`), because maturity is asked
of the coins, and coins that lost their mark are not asked for it. The theorem is
thus about every interleaving of connections, disconnections, flushes, crashes,
shutdowns and verifications.

*The serials.* zerocoinDB is written at once and the coins are not, so that after
a crash or within a verification they differ. `SpendsKept` says by how much:
a serial of the active chain has its spender, unless its block is torn or
`Erased` — being taken back, above `CVerifyDB`'s view, or among those that the check at
the start has yet to come by. `InView` is about a verification in progress: above
its view nothing is recorded but what the view itself spends, and on its way up
every block it has passed is `Sure` — as good as untorn, because level 4 has just
refused it if it spent anything again. Hence a verification that comes to its end
mends what an earlier one tore, as far down as it went. `VerifyPasses` follows
for the converse reason: a block that level 4 refuses spends a serial that a block
below it spends (`SerialTwice`), or its coins are those of a lost mark. That no serial of
an untorn block is spent again (`SerialsNew`) follows when a block is connected.

Failed proofs made `LedgerAssumption` stronger: as it was, a transaction that is
not a coinbase might have had no inputs or one of them twice, and a block two
coinbases or one serial twice, all of which `CheckBlock` refuses.

### 6.10 `PoolProofs`, the wallet (assumes `MempoolAssumption`, `WalletAssumption`)

For any transactions, any set of outpoints that are the wallet's, any number of
blocks and disconnections, beside the pool of 6.6.

| Theorem | States |
|---|---|
| `WalletFollows` | `WalletFollowsChain` |
| `WalletOffers` | `OffersExact` |
| `WalletCredits` | `CreditNeverTooHigh` |
| `WalletTypesCorrect` | `WalletTypeOK` |
| `WalletCorrect` | the four of them, if `MaxCrash <= 1` |

*The condition.* The first four assume `[][FirstCrash]_allWalletVars`: no crash but
the first is a `Relapse`. A relapse is a crash in `ConnectTip` after the coins of a
block were written and before the wallet heard of it, while the locator in
wallet.dat names that block from an earlier time (it was connected, flushed and
disconnected). The start then finds the tip on the locator's chain and rescans
nothing. In the first crash this does no harm, since the wallet still has
the block's transactions with that block; that is `LocatorHeard`. After another
crash it need not: the wallet may have heard of the same transactions in a rival
block since. The proof of the step failed there, and TLC found the behaviour
(`FindRescan.cfg`). `WalletCorrect` needs no condition on the steps, because with
one crash there is no second one.

*Hearing.* `HeardAll(w, u, ts, i, block)` says what may become of `mapWallet` when
it hears of the first i of `ts`: whose hash of a block is set and whose is kept,
which credits are forgotten, and that a transaction is recorded if it pays the
wallet or spends an output of one recorded before it, in `ts` or not. `SyncAll` and `ScanBlock`
both come down to it (`SyncAllHeard`, `ScanBlockHeard`). The order matters: a block
holds a parent before its child (`ValidBlockIs`), so that the wallet that did not know
the parent knows it in time (`FollowsBlock`).

*The invariant.* `Right(w, c, p)` is about any chain c and pool p: the wallet
`Follows` c, has heard of every member of p that concerns it, has for each
transaction no block that does not hold it (`RecordsSound`), and caches no coin
that is spent in c or p. A rescan from where the locator's chain leaves the tip's
makes a wallet that follows all but the last block right again (`ScanFollows`).
`WalletIInv` adds that the coins on disk are those of a part of the active chain
(`DiskInv`), and `LocatorHeard` until the first crash. From `Right` follows
what `AvailableCoins` says of each coin of the wallet, in both directions
(`OffersSound`, `OffersComplete`); its depth in the chain decides, which `RecordsSound` and
`Follows` tie to the chain.

Proofs that failed made `WalletAssumption` stronger: every outpoint of `Mine` is of
an output that exists, and `none` is neither a transaction nor a chain.

## 7. Only model-checked

- Liveness: `WaitReturns`, `ActivationEnds`, `StopEnds`, `LocksExpire`,
  `EveryRequestEnds`, `SyncStarts`. Reasoning with `ENABLED` under fairness is
  out of the prover's reach.
- `CandidatesCompleteAtRest` and `BestChainActive` after a lock turned against a block
  that was connected: `chain_reorg` checks them for one such block (b2), where they
  hold; in general they do not (section 6.5).
- All of `AddrMan`. It is built from the folds of the community modules, over which
  no induction theorem can be cited here. What worked for the pool, the ledger and
  the wallet would work for it: a recursive function along a sequence in place of
  the fold, and the first position at which a claim fails in place of the
  induction.
- What the wallet shows of a chain after a second crash that is a `Relapse`: it may
  be wrong (section 6.10, `FindRescan.cfg`).

## 8. Not modelled

*In modelled parts.* Chain: `pindexBestHeader`, `pindexBestInvalid` and fork
warnings (they only report); the checkpoint rescue branches of `AcceptBlock`;
`-reindex`, `UnloadBlockIndex`; sizes and pruning of block files; disk errors
other than a crash. Coins: `GetStats`, compression. Ledger: scripts, signatures,
amounts and fees, zerocoin mints and accumulator checkpoints, `-txindex=0`. Pool:
fees, priorities and the estimator, lock times, zerocoin spends (they have no
entry in `mapNextTx`), the punishment of peers. SwiftX: relaying and
`mapUnknownVotes`, the two sporks that switch it off, votes for another height
than the lock's. Download: `mapBlockSource`, `mapAlreadyAskedFor`, misbehaviour, a
block that fails to connect. Addresses: `Select_` (it changes nothing), times
and attempts (their outcome is open), files with another number of buckets.
Wallet: keys, encryption and imports, coin selection, watch-only and locked
coins, zerocoins, accounts, `-zapwallettxes`, the calls of `rpcwallet.cpp`; SwiftX
locks (`OffersExact` says nothing of a coin that a rejected request has locked);
`GetUnconfirmedBalance` (`wallet.cpp:1562`), which fills the credit cache as
`GetBalance` does and would find it dropped by the same steps.

*Components.*

- *Sporks* (`spork.cpp`): a map from names to the newest signed value; each
  message is handled on its own and no property relates two of them.
  `ReprocessBlocks`, in the same file, is part of `ChainState` and `SwiftLocks`.
- *Masternode synchronisation*: a counter of assets and attempts whose every
  transition depends on lists of masternodes, winners and budgets; without
  those a model of it has no environment.
- *Masternode list, payments, budget*: independent entries with signatures,
  clock times and ranks that are hashes of blocks; proposals and payments over
  budget cycles of a month. The largest state left out.
- *Network threads*: buffers and sockets; what the message thread does with a peer
  is in `BlockDownload` and `Mempool`.
- *Stake kernel, miner*: hash targets of which no small instance is
  representative; a block meets the rest through `ProcessNewBlock`, which any
  thread of `ChainState` may call.
- *Zerocoin wallet, accumulators, scripts, consensus encoding*: functions on
  large numbers and byte strings.
- *Obfuscation pool*: this code never starts a mixing session.
- *Initialisation*: an order of calls; what matters to the state on disk is in
  `ChainState`, `CoinsCache`, `Ledger`, `AddrMan` and `Wallet`.
- *RPC, REST, ZeroMQ, GUI, vendored libraries*: marshalling, output, presentation,
  third-party code.

*Hazards that belong to what is left out*, noted here and not in
`PROJECT.json`:

- `mapRejectedBlocks` is iterated without a lock (`spork.cpp:150`) while
  `CheckBlock` inserts into it; the lists of `swifttx.cpp` are cleaned
  (`CleanTransactionLocksList`, line 431) by a thread that shares no lock with the
  message handler; a payee is added outside the lock of its map
  (`masternode-payments.cpp:497`).
- Disk errors: `FlushStateToDisk` empties `setDirtyBlockIndex` before
  `WriteBatchSync` (`main.cpp:3304`), and returns for want of disk space before
  it writes (`main.cpp:3290`); `DisconnectTip` may fail after serials were
  erased (`main.cpp:2452`).
- The pillar bookkeeping of `AcceptBlock` (`main.cpp:4745`) happens on whatever
  branch and is never undone.
- `UpdateSpork` (`spork.cpp:218`), by which the holder of the key sets a spork,
  writes the maps and not the database; only a message does (line 96).
- `nLastBlockHeight` and `mapMasternodesLastVote` of the payments are not
  written to mnpayments.dat, so that a restarted masternode may vote again;
  `CanVote` records a vote before its signature is checked (line 387).
- `CMasternodeSync::Process` waits for ever if every peer has been asked already
  and `ClearFulfilledRequest` found `cs_vNodes` busy (`masternode-sync.cpp:212`).
- `limitedmap` evicts when its size reaches the limit, one entry early
  (`limitedmap.h:44`).

## 9. Disagreements between the code and what it says

Each row of the table is a configuration with which TLC finds the behaviour
(`tlc -config FindX.cfg M`, with the module named); the list below it can be seen by
changing a configuration as described, or by reading. In every case the text on
the right is a comment or an assertion of the repository.

| Configuration, property | Behaviour | Contradicts |
|---|---|---|
| `FindReprocess.cfg` (`MCChainState`, `BestChainActive`) | `ReprocessBlocks` disconnects blocks whose chain `PruneBlockIndexCandidates` had removed from the candidates; nothing puts it back, and the node stays on a shorter chain than it has. | `main.cpp:3735`: "The result is either failure or an activated best chain." |
| `FindRefusedTip.cfg` (`MCChainState`, `BestChainActive`) | a1 is active, its equal b1 was dropped from the candidates, b2 comes on top of b1 and fails. Meanwhile a SwiftX lock turned against a1: it cannot be connected again, b1 is not put back, and the node rests on their parent. | `main.cpp:3735`, as above |
| `FindInvalidateCrash.cfg` (`MCChainState`, `PruneLeavesSomething`) | `InvalidateBlock` writes the failure marks with its first `DisconnectTip` while the coins still stand above the block. After a crash there, `LoadBlockIndexDB` finds no candidate. | `main.cpp:3659`: the assertion in `PruneBlockIndexCandidates` |
| `FindStakeUndo.cfg` (`MCLedger`, `CoinsExact`) | `DisconnectBlock` (line 2521) restores `fCoinBase`, `nHeight` and `nVersion` of coins spent whole, but not `fCoinStake`. It takes a block that spends the last output of a coinstake, the empty first one included, and goes. | `main.h:463`: "Undo the effects of this block (with given index) on the UTXO set" |
| `FindVerifySerials.cfg` (`MCLedger`, `NothingTorn`) | `VerifyDB`'s disconnection erases serials on disk. If a `verifychain` goes deeper than the check at the start does (288 and 100 by default) and the process dies meanwhile, nothing writes them again. | `main.cpp:5187`: "memory-only disconnect of tip blocks" |
| `FindVerifyStop.cfg` (`MCLedger`, `NoSerialTwice`) | A `verifychain` sees the shutdown request on its way down, says that all is well and releases `cs_main` (`main.cpp:5199`); the serials of the blocks it took back are erased. A block that comes before `PrepareShutdown` has stopped the threads (`init.cpp:218`) spends one of them again. | `main.cpp:5187`, as above |
| `FindSwiftFilter.cfg` (`MCSwiftLocks`, `FilterByConsensus`) | A request that the pool refuses locks its inputs at once (`swifttx.cpp:107`), and blocks against it are refused. | `main.cpp:4150`: "only reject blocks when it's based on complete consensus" |
| `FindSwiftRace.cfg` (`MCSwiftLocks`, `RivalsNeverIn`) | Another thread asks for the locks, votes or a rejected request lock an input, and then what that thread had tested comes in: `CheckBlock` runs before `cs_main` is taken (`main.cpp:4852`) and is not repeated (line 2903), and `swifttx.cpp` locks without `cs_main` between lines 1380 and 1618, too. TLC's shortest way is a disconnection whose transaction comes back into the pool. | `swifttx.cpp:36`: "waits for SWIFTTX_SIGNATURES_REQUIRED messages. Upon success, sends "txlock'" |
| `FindQueuedHeaders.cfg` (`MCBlockDownload`, `QueuedIsInFlight`) | `FinalizeNode` (line 387) drops a node's blocks in flight and leaves them in `nQueuedValidatedHeaders`, which only lengthens the download timeout. | `main.cpp:179`: "Number of blocks in flight with validated headers." |
| `FindPeersDat.cfg` (`MCAddrMan`, `StartSucceeds`) | A dump truncates peers.dat (`net.cpp:1962`); after a crash there, `CAddrDB::Read` subtracts the size of a checksum from an unsigned smaller size and throws while resizing. `CBanDB::Read` (line 2243) has a signed size. | `net.cpp:1990`: "Don't try to resize to a negative number if file is small" |
| `FindWalletCredit.cfg` (`MCWallet`, `CreditNeverTooLow`) | A disconnection throws transactions out of the pool without telling the wallet; the coins they spent are offered again and the cached credit still lacks them. | `wallet.cpp:757`: "If a transaction changes 'conflicted' state, that changes the balance available of the outputs it spends. So force those to be recomputed" |
| `FindReaccept.cfg` (`MCWallet`, `ReacceptComplete`) | `ReacceptWalletTransactions` walks `mapWallet` by hash and tries a child before its parent. The child stays out, and the parent's output counts as unspent again. | `init.cpp:1971`: "Add wallet transactions that aren't already in a block to mapTransactions" |
| `FindRescan.cfg` (`MCWallet`, `WalletFollowsChain`) | A block is connected and disconnected, the locator names it, and a rival with the same transaction is connected; a crash undoes the rival. Now the block comes again, and a second crash strikes after its coins were written (line 3477) and before the wallet hears of it. The start compares tip and locator, rescans nothing, and for the wallet the transaction stays in the rival. | `main.cpp:3315`: "Update best block in wallet (so we can detect restored wallets)" |
| `FindCommit.cfg` (`MCWallet`, `CommitSucceeds`) | The send dialog chooses coins and commits in two critical sections (`qt/walletmodel.cpp`); what comes in between may spend the coins. The transaction stays in the wallet. | `wallet.cpp:2531`: "This must not fail. The transaction has already been signed and recorded." |

Without a configuration of their own:

- *The gap inside a reorganisation.* While a reorganisation is under way and
  `cs_main` is released, blocks of the old chain that are better than the
  present tip are not candidates (they were pruned when they were connected, and
  `main.cpp:3676` disconnects them): `CandidatesComplete` (the unrestricted form
  of `CandidatesCompleteAtRest`) fails with the Fork tree, one thread,
  `Invalid = {b2}`. `CheckBlockIndex` asserts it (`main.cpp:5474`). Hence the restriction to
  moments at rest, and `BestChainActive` to show that nothing is lost by it. With
  two threads, `Invalid = {b1}`, `Contestable = {a2}` and a crash, the gap can
  persist past the calls.
- *A marked tip.* After a crash within `InvalidateBlock` the tip is marked and is no
  candidate (`FindInvalidateCrash.cfg`). A reorganisation that then fails half-way
  has nothing to return to: with g below a1 (work 2), b1 and c1 (work 1, c1 the
  better), b2 on top of b1 (work 3), `Invalid = {b2}`, one invalidation and one
  crash, the node rests on b1 although it has c1 (`BestChainActive`).
- *`ReconsiderBlock` and ancestors.* It clears the marks of ancestors but inserts
  only the block and its descendants into the candidates (`main.cpp:3863`–`3870`);
  an ancestor that is as good as the tip stays out. `MaxReconsider = 1`,
  Fork, one thread, `Invalid = {b1}`: `CandidatesCompleteAtRest` fails after b2
  is reconsidered.
- *`ReconsiderBlock` and siblings.* A block marked `FAILED_CHILD` because of an
  ancestor keeps the mark when the ancestor's is cleared from another branch:
  `FailuresExplained` fails with two siblings on top of one block,
  `MaxInvalidate = 1` and `MaxReconsider = 1` (`main.cpp:5471`).
- *A refused batch.* After the coins database refused a batch
  (`main.cpp:3313`) `pcoinsTip` has lost its entries and kept its `hashBlock`;
  the flush at shutdown (`init.cpp:234`) then stores that hash over older coins.
  `StoredTogether` in `CoinsCache` fails with `MaxWriteErrors = 1`; `CoinsStore`
  therefore has an action `Lose`, which is what the stack really promises
  (`coins.h:346`).
- *Without the transaction index* (`-txindex=0`, not modelled) a serial is
  looked up through its spender's unspent outputs; once those are spent the
  spender is no longer found and `IsSerialInBlockchain` says no.
- *SwiftX, expiry.* `swifttx.cpp:248` says that locks expire after an hour. The
  inputs that a *rejected* request locked are released only if the request is
  also in `mapTxLockReq` (`swifttx.cpp:436`): `LocksExpire` holds for requests
  never rejected. And the cleaning of one lock erases every input of its request
  from `mapLockedInputs`, those a conflicting lock holds included.
- *SwiftX, votes first.* If the votes complete a lock before the request
  arrives, `mapTxLockReq[...]` (`swifttx.cpp:360`) enters a transaction without
  inputs, none is locked, and the request then locks none either until another
  vote comes.
- *SwiftX, votes lost.* A vote is marked as seen before it is ranked and checked:
  one that came too early never counts. A masternode's own votes are marked when
  it makes them and never count in its own lock. A rival already in the pool
  stays there when a lock is taken.
- *"block" after a header.* The handler skips a block whose hash is in
  `mapBlockIndex` (`main.cpp:6508`), so that one requested by header is not
  processed when it comes; the timeout then disconnects the peer. This is why
  `EveryRequestEnds` needs `TimedOut`.
- *Early tasks.* `scheduler.h:42` says "Call func at/after time t"; with two
  threads one that timed out for a task another took starts the next one before
  its time (`NeverEarly` with `Servers` of two). The program starts one thread.
- *`ClearNew`* says it is "the only place where entries are actually deleted"
  (`addrman.h`); `Add_` and `Unserialize` delete as well.
- *Immature coinstakes.* `GetAvailableCredit` asks `IsCoinBase`, so that
  `GetBalance` counts coinstakes before they mature; `AvailableCoins` does not
  offer them.
