----------------------------- MODULE SwiftLocks ------------------------------
(***************************************************************************)
(* The transaction locks of src/src/swifttx.cpp together with the memory   *)
(* pool and the chain they act on: requests that are accepted or rejected, *)
(* votes that come before or after them, or twice, locks that are complete *)
(* or cancel each other, their expiry, and the reprocessing of blocks.     *)
(*                                                                         *)
(* swifttx.cpp holds no lock for its maps.  The message thread, and it     *)
(* alone, locks inputs: so it may between the two steps of another thread  *)
(* that first asks for the locks and then brings something in, whether     *)
(* that thread has cs_main (AcceptToMemoryPool, DisconnectTip) or not      *)
(* (CheckBlock of ProcessNewBlock).  Each function of swifttx.cpp is one   *)
(* step: what two threads do to one map at the same moment, which C++      *)
(* leaves undefined, is left out.                                          *)
(*                                                                         *)
(* Left out, too: the relaying, mapUnknownVotes (which only stops a        *)
(* relay), the notifications, SPORK_2 and SPORK_3 being off, and votes for *)
(* another height than the lock's.                                         *)
(***************************************************************************)
EXTENDS Mempool

CONSTANTS
  Requests,            \* transactions somebody wants locked (IsIXTXValid)
  Masternodes, Self,   \* Self: the masternode this node is, or {}
  SignaturesRequired,  \* SWIFTTX_SIGNATURES_REQUIRED
  Life,                \* of a lock, in ticks (60 minutes)
  ReprocessDepth,      \* the 15 of ReprocessBlocks(15)
  \* bounds: the votes that come, blocks that threads have checked and not connected
  Ballots, MaxChecked

ASSUME SwiftAssumption ==
  /\ Requests \subseteq Tx \ (Funding \cup Generated)
  /\ Self \subseteq Masternodes /\ IsFiniteSet(Masternodes)
  /\ Ballots \subseteq (Masternodes \ Self) \X Requests
  /\ {SignaturesRequired, Life, ReprocessDepth, MaxChecked} \subseteq Nat

VARIABLES
  mapTxLockReq,          \* request -> the inputs of the transaction stored for it
  mapTxLockReqRejected,
  mapTxLockVote,         \* votes seen: <<masternode, transaction>>
  mapTxLocks,            \* transaction -> lock; its nExpiration counts from now
  request,               \* local of "ix": the request, and whether the pool took it
  replay,                \* blocks ReprocessBlocks has yet to disconnect
  checked,               \* blocks that CheckBlock passed in other threads
  task,                  \* what another thread is at that holds cs_main
  everRejected,          \* history: requests that were rejected at some time
  early                  \* history: <<o, t>>, o was locked after t had been tested

requestVars == <<mapTxLockReq, mapTxLockReqRejected, mapTxLockVote, mapTxLocks, everRejected>>
lockVars == <<requestVars, request, replay>>
allVars == <<vars, lockVars, checked, task, early>>

\* Of another thread with cs_main: its kind, and the transactions that have
\* passed the test for locks, or not.
NoTask == [kind |-> "none", passed |-> {}, refused |-> {}]
Accept(t) == [kind |-> "accept", passed |-> {t}, refused |-> {}]
Undo(S, R) == [kind |-> "disconnect", passed |-> S, refused |-> R]

\* f, where the elements of S now have the value v.
With(f, S, v) == [x \in DOMAIN f \cup S |-> IF x \in S THEN v ELSE f[x]]

\* CountSignatures() >= SWIFTTX_SIGNATURES_REQUIRED: a lock without a height,
\* because only votes for it came so far, counts none.
Complete(lock) == lock.hasHeight /\ Len(lock.vecConsensusVotes) >= SignaturesRequired

NewLock(hasHeight) ==
  [hasHeight |-> hasHeight, vecConsensusVotes |-> <<>>, nExpiration |-> Life]

\* CreateNewLock: nothing happens if an input is too young; of the model's
\* outputs only those of Funding are old enough.
OldInputs(t) == \A o \in Inputs[t] : o[1] \in Funding
CreateNewLock(t) ==
  IF ~OldInputs(t) THEN mapTxLocks
  ELSE IF t \in DOMAIN mapTxLocks THEN [mapTxLocks EXCEPT ![t].hasHeight = TRUE]
  ELSE With(mapTxLocks, {t}, NewLock(TRUE))

\* Inputs that nobody has locked are locked to t.
LockFree(ins, t) == With(mapLockedInputs, ins \ DOMAIN mapLockedInputs, t)

\* CheckForConflictingLocks of a transaction t with the given inputs.  The first
\* rival it finds, whichever input that is, and t cancel each other out.
Rivals(ins, t, locked) == {locked[o] : o \in ins \cap DOMAIN locked} \ {t}
Cancelled(locks, t, rivals) ==
  {[x \in DOMAIN locks |->
      IF x \in {t, r} THEN [locks[x] EXCEPT !.nExpiration = 0] ELSE locks[x]] : r \in rivals}

SwiftInit ==
  /\ Init
  /\ mapTxLockReq = <<>> /\ mapTxLockReqRejected = {}
  /\ mapTxLockVote = {} /\ mapTxLocks = <<>>
  /\ request = <<>> /\ replay = 0
  /\ checked = {} /\ task = NoTask
  /\ everRejected = {} /\ early = {}

\* The message thread is not in the handler of a message.
HandlerDone == MainFree /\ replay = 0 /\ request = <<>>

\* Nobody has cs_main: a reprocessing takes it with its first block.
CsMainFree == MainFree /\ replay \notin 1 .. ReprocessDepth /\ task = NoTask

\* "ix" as far as AcceptToMemoryPool.
ReceiveRequest(t) ==
  /\ HandlerDone /\ CsMainFree
  /\ t \notin DOMAIN mapTxLockReq \cup mapTxLockReqRejected
  /\ mapTxLocks' = CreateNewLock(t)
  /\ request' = <<t, Acceptable(chain, pool, t)>>
  /\ pool' = IF Acceptable(chain, pool, t) THEN AddUnchecked(pool, t) ELSE pool
  /\ UNCHANGED <<chain, orphans, workVars, mapLockedInputs, mapTxLockReq, mapTxLockReqRejected,
                 mapTxLockVote, everRejected, replay, checked, task>>

\* The rest of it, which has not cs_main, if the pool took the transaction.
RequestAccepted(t) ==
  /\ mapTxLockVote' = mapTxLockVote \cup (Self \X {t})
  /\ mapTxLockReq' = With(mapTxLockReq, {t} \ DOMAIN mapTxLockReq, Inputs[t])
  /\ UNCHANGED <<mapLockedInputs, mapTxLockReqRejected, mapTxLocks, everRejected, replay>>

\* If the pool refused it, though only because it was there already: its inputs
\* are locked at once, and a complete lock reprocesses the chain.
RequestRejected(t) ==
  LET locked == LockFree(Inputs[t], t)
      complete == t \in DOMAIN mapTxLocks /\ Complete(mapTxLocks[t])
      rivals == Rivals(Inputs[t], t, locked) IN
  /\ mapTxLockReqRejected' = mapTxLockReqRejected \cup {t}
  /\ everRejected' = everRejected \cup {t}
  /\ mapLockedInputs' = locked
  /\ IF complete /\ rivals # {}
     THEN mapTxLocks' \in Cancelled(mapTxLocks, t, rivals) ELSE UNCHANGED mapTxLocks
  /\ IF complete /\ rivals = {}
     THEN replay' = ReprocessDepth + 1 ELSE UNCHANGED replay
  /\ UNCHANGED <<mapTxLockReq, mapTxLockVote>>

FinishRequest ==
  /\ request # <<>> /\ replay = 0
  /\ IF request[2] THEN RequestAccepted(request[1]) ELSE RequestRejected(request[1])
  /\ request' = IF replay' = 0 THEN <<>> ELSE request
  /\ UNCHANGED <<poolVars, checked, task>>

\* sendrawtransaction with SwiftX: the request is noted before it is accepted.
SendRequest(t) ==
  /\ CsMainFree
  /\ t \notin pool.mapTx
  /\ ~HaveCoins(chain, EmptyPool, t)
  /\ mapTxLockReq' = With(mapTxLockReq, {t} \ DOMAIN mapTxLockReq, Inputs[t])
  /\ mapTxLocks' = CreateNewLock(t)
  /\ task' = IF Acceptable(chain, pool, t) THEN Accept(t) ELSE NoTask
  /\ UNCHANGED <<vars, mapTxLockReqRejected, mapTxLockVote, request, replay, everRejected, checked>>

\* The votes of a lock after another one; the mutant counts it twice.
CountedTwice(votes, m) == votes \o <<m, m>>
AddSignature(votes, m) == Append(votes, m)

\* When the votes suffice; the mutant forgets to compare them.
AnyVote(lock) == lock.hasHeight
Suffices(lock) == Complete(lock)

\* ProcessConsensusVote of a vote that is ranked and signed well.
ProcessConsensusVote(m, t) ==
  LET known == IF t \in DOMAIN mapTxLocks THEN mapTxLocks[t] ELSE NewLock(FALSE)
      lock == [known EXCEPT !.vecConsensusVotes = AddSignature(@, m)]
      locks == With(mapTxLocks, {t}, lock)
      \* operator[] stores a transaction without inputs for an unknown request
      requests == With(mapTxLockReq, {t} \ DOMAIN mapTxLockReq, {})
      rivals == Rivals(requests[t], t, mapLockedInputs) IN
  IF ~Suffices(lock)
  THEN mapTxLocks' = locks /\ UNCHANGED <<mapTxLockReq, mapLockedInputs, replay>>
  ELSE /\ mapTxLockReq' = requests
       /\ \/ /\ rivals # {}
             /\ mapTxLocks' \in Cancelled(locks, t, rivals)
             /\ UNCHANGED <<mapLockedInputs, replay>>
          \/ /\ rivals = {}
             /\ mapTxLocks' = locks
             /\ mapLockedInputs' = LockFree(requests[t], t)
             /\ replay' = IF t \in mapTxLockReqRejected THEN ReprocessDepth + 1 ELSE 0

\* "txlvote".  A vote is noted as seen whether it is valid or not (the
\* masternode may not be known or ranked yet).  Its own votes this node has noted
\* when it made them: they never count here.
ReceiveVote(m, t, valid) ==
  /\ HandlerDone
  /\ <<m, t>> \notin mapTxLockVote
  /\ mapTxLockVote' = mapTxLockVote \cup {<<m, t>>}
  /\ \/ valid /\ ProcessConsensusVote(m, t)
     \/ ~valid /\ UNCHANGED <<mapTxLockReq, mapTxLocks, mapLockedInputs, replay>>
  /\ UNCHANGED <<poolVars, mapTxLockReqRejected, everRejected, request, checked, task>>

\* DisconnectBlocksAndReprocess.  It has cs_main from its first block on, and the
\* chain of the model is only the end of the real one.  A request that reprocessed
\* the chain is noted after it.
Replay ==
  /\ replay > 0 /\ MainFree /\ task = NoTask
  /\ \/ DisconnectTip /\ replay' = replay - 1
     \/ chain = <<>> /\ replay' = 0 /\ UNCHANGED vars
  /\ IF replay' = 0 /\ request # <<>>
     THEN /\ request' = <<>>
          /\ mapTxLockReq' =
               With(mapTxLockReq, {request[1]} \ DOMAIN mapTxLockReq, Inputs[request[1]])
     ELSE UNCHANGED <<request, mapTxLockReq>>
  /\ UNCHANGED <<mapTxLockReqRejected, mapTxLockVote, mapTxLocks, everRejected, checked, task>>

\* What CleanTransactionLocksList releases with the request of t; the mutant
\* leaves the inputs locked.
Nothing(t) == {}
Released(t) == IF t \in DOMAIN mapTxLockReq THEN mapTxLockReq[t] ELSE {}

\* ThreadCheckObfuScationPool calls it, with no lock at all.
CleanTransactionLocksList ==
  LET expired == {t \in DOMAIN mapTxLocks : mapTxLocks[t].nExpiration < 0}
      known == expired \cap DOMAIN mapTxLockReq IN
  /\ expired # {}
  /\ mapTxLocks' = Restricted(mapTxLocks, DOMAIN mapTxLocks \ expired)
  /\ mapLockedInputs' =
       Restricted(mapLockedInputs, DOMAIN mapLockedInputs \ UNION {Released(t) : t \in expired})
  /\ mapTxLockReq' = Restricted(mapTxLockReq, DOMAIN mapTxLockReq \ known)
  /\ mapTxLockReqRejected' = mapTxLockReqRejected \ known
  /\ mapTxLockVote' =
       mapTxLockVote \ UNION {Range(mapTxLocks[t].vecConsensusVotes) \X {t} : t \in known}
  /\ UNCHANGED <<poolVars, request, replay, everRejected, checked, task>>

\* Time passes.
Tick ==
  /\ mapTxLocks' = [t \in DOMAIN mapTxLocks |->
                      [mapTxLocks[t] EXCEPT !.nExpiration = Max({-1, @ - 1})]]
  /\ UNCHANGED <<vars, mapTxLockReq, mapTxLockReqRejected, mapTxLockVote, everRejected,
                 request, replay, checked, task>>

-----------------------------------------------------------------------------
(***************************************************************************)
(* The other threads: RPC, wallet, staking.  Each asks for the locks in    *)
(* one step and acts on the answer in a later one.                         *)
(***************************************************************************)

\* AcceptToMemoryPool as far as the test for locks; the rest of what it asks
\* cannot change until it is done.
StartAccept(t) ==
  /\ CsMainFree
  /\ Acceptable(chain, pool, t)
  /\ task' = Accept(t)
  /\ UNCHANGED <<vars, lockVars, checked>>

EndAccept ==
  /\ task.kind = "accept"
  /\ \E t \in task.passed : pool' = AddUnchecked(pool, t)
  /\ task' = NoTask
  /\ UNCHANGED <<chain, orphans, workVars, mapLockedInputs, lockVars, checked>>

\* CheckBlock, of ProcessNewBlock without cs_main or of ConnectBlock with it.  It
\* finds nothing to ask about in an empty block.
StartConnect(vtx) ==
  /\ vtx # <<>> /\ CheckBlock(vtx)
  /\ Cardinality(checked) < MaxChecked
  /\ checked' = checked \cup {vtx}
  /\ UNCHANGED <<vars, lockVars, task>>

\* The block is connected, or it does not fit or is not needed: the next time
\* it is read from disk, and checked again.
EndConnect(vtx) ==
  /\ checked' = checked \ {vtx}
  /\ \/ CsMainFree /\ ConnectChecked(vtx)
     \/ UNCHANGED vars
  /\ UNCHANGED <<lockVars, task>>

\* DisconnectTip, whose thread has cs_main until it is done.
Disconnecting == task.kind = "disconnect" \/ (CsMainFree /\ chain # <<>>)

\* AcceptToMemoryPool asks for the locks of the next transaction of the block.
TestNext ==
  /\ Disconnecting
  /\ \E i \in DOMAIN Last(chain) :
       LET t == InOrder(Last(chain))[i] IN
       /\ i = Cardinality(task.passed \cup task.refused) + 1
       /\ task' = IF LockConflict(t) THEN Undo(task.passed, task.refused \cup {t})
                  ELSE Undo(task.passed \cup {t}, task.refused)
  /\ UNCHANGED <<vars, lockVars, checked>>

\* All were tested, and those of the block that met no lock may be back.
EndDisconnect ==
  /\ Disconnecting
  /\ Range(Last(chain)) = task.passed \cup task.refused
  /\ DisconnectRefusing(task.refused)
  /\ task' = NoTask
  /\ UNCHANGED <<lockVars, checked>>

OtherThreads ==
  \/ \E t \in Tx : StartAccept(t)
  \/ \E vtx \in Blocks : StartConnect(vtx)
  \/ \E vtx \in checked \cup {<<>>} : EndConnect(vtx)
  \/ EndAccept \/ TestNext \/ EndDisconnect

\* What has passed the test and is not in yet.
Tested(who, blocks) == who.passed \cup UNION {Range(vtx) : vtx \in blocks}

\* The locks that come after the test.
Early ==
  {e \in (DOMAIN mapLockedInputs') \X Tested(task', checked') :
     /\ e[1] \in Inputs[e[2]]
     /\ e \in early \/ (e[1] \notin DOMAIN mapLockedInputs /\ e[2] \in Tested(task, checked))}

-----------------------------------------------------------------------------
\* Messages about transactions and blocks; nothing is locked during one.
PoolMessage ==
  /\ replay = 0 /\ request = <<>> /\ task = NoTask
  /\ \/ \E t \in Tx, peer \in Peers : ReceiveTx(t, peer)
     \/ \E t \in todo : TryOrphan(t)
     \/ NextParent
     \/ \E vtx \in Blocks : ConnectTip(vtx)
     \/ DisconnectTip
  /\ UNCHANGED <<lockVars, checked, task>>

NodeGone ==
  /\ CsMainFree
  /\ \E peer \in Peers : PeerGone(peer)
  /\ UNCHANGED <<lockVars, checked, task>>

SwiftNext ==
  /\ \/ PoolMessage \/ NodeGone \/ OtherThreads
     \/ \E t \in Requests : ReceiveRequest(t) \/ SendRequest(t)
     \/ FinishRequest
     \/ \E vote \in Ballots, valid \in BOOLEAN : ReceiveVote(vote[1], vote[2], valid)
     \/ Replay \/ CleanTransactionLocksList \/ Tick
  /\ early' = Early

SwiftSpec == SwiftInit /\ [][SwiftNext]_allVars

\* Time passes, and ThreadCheckObfuScationPool calls CleanTransactionLocksList
\* every minute, whatever the other threads hold.
FairSwiftSpec ==
  /\ SwiftSpec
  /\ WF_allVars(Tick /\ early' = Early)
  /\ WF_allVars(CleanTransactionLocksList /\ early' = Early)

-----------------------------------------------------------------------------
Locks ==
  [hasHeight : BOOLEAN, vecConsensusVotes : SeqOf(Masternodes, Cardinality(Masternodes)), nExpiration : -1 .. Life]

SwiftTypeOK ==
  /\ TypeOK
  /\ DOMAIN mapTxLockReq \cup mapTxLockReqRejected \cup everRejected \subseteq Requests
  /\ mapTxLockVote \subseteq Masternodes \X Requests
  /\ \A t \in DOMAIN mapTxLocks : t \in Requests /\ mapTxLocks[t] \in Locks
  /\ request = <<>> \/ request \in Requests \X BOOLEAN
  /\ replay \in 0 .. ReprocessDepth + 1
  /\ checked \subseteq Blocks
  /\ task \in [kind : {"none", "accept", "disconnect"}, passed : SUBSET Tx, refused : SUBSET Tx]

(***************************************************************************)
(* A masternode has one vote for a lock, however often, in whatever order  *)
(* and around whatever expiry its vote arrives: CountSignatures counts     *)
(* entries, only mapTxLockVote keeps the second one out.                   *)
(***************************************************************************)
VotesCountedOnce ==
  \A t \in DOMAIN mapTxLocks :
    LET votes == mapTxLocks[t].vecConsensusVotes IN
    IsInjective(votes) /\ \A i \in DOMAIN votes : <<votes[i], t>> \in mapTxLockVote

(***************************************************************************)
(* What is locked for a request that was never rejected is locked by the   *)
(* votes of SignaturesRequired masternodes, and the lock, the request and  *)
(* its inputs are all still there, so that the expiry of the lock releases *)
(* the inputs.                                                             *)
(***************************************************************************)
LockedByConsensus ==
  \A o \in DOMAIN mapLockedInputs :
    LET t == mapLockedInputs[o] IN
    t \notin everRejected =>
      /\ t \in DOMAIN mapTxLocks /\ Complete(mapTxLocks[t])
      /\ t \in DOMAIN mapTxLockReq /\ o \in mapTxLockReq[t]

(***************************************************************************)
(* As long as an input is locked, no other transaction that spends it      *)
(* comes into the pool or the chain, by message, as an orphan, out of a    *)
(* disconnected block, in a new one or from a thread that does not wait    *)
(* for the votes, unless it had passed its test before the input was       *)
(* locked and was not yet in.                                              *)
(***************************************************************************)
Entered == (pool'.mapTx \ pool.mapTx) \cup (Mined(chain') \ Mined(chain))
RivalsKeptOut ==
  [][\A o \in DOMAIN mapLockedInputs \cap DOMAIN mapLockedInputs' :
       \A t \in Entered \ {mapLockedInputs[o]} : o \in Inputs[t] => <<o, t>> \in early]_allVars

(***************************************************************************)
(* The same without the exception, "Upon success, sends txlock" of         *)
(* swifttx.cpp:36 and the filter of main.cpp:4148.  It fails: votes        *)
(* complete a lock between the test of another thread and its effect.      *)
(***************************************************************************)
RivalsNeverIn ==
  [][\A o \in DOMAIN mapLockedInputs \cap DOMAIN mapLockedInputs' :
       \A t \in Entered \ {mapLockedInputs[o]} : o \notin Inputs[t]]_allVars

\* "locks expire after 60 minutes" (swifttx.cpp:248): those of requests that
\* were not rejected do.
LocksExpire ==
  \A o \in UNION {Inputs[t] : t \in Requests} :
    LET locked == o \in DOMAIN mapLockedInputs /\ mapLockedInputs[o] \notin everRejected IN
    locked ~> ~locked

(***************************************************************************)
(* main.cpp:4150 says of the filter that refuses blocks in conflict with   *)
(* mapLockedInputs: "only reject blocks when it's based on complete        *)
(* consensus".  It fails: a rejected request locks its inputs at once.     *)
(***************************************************************************)
FilterByConsensus ==
  \A o \in DOMAIN mapLockedInputs :
    LET t == mapLockedInputs[o] IN t \in DOMAIN mapTxLocks /\ Complete(mapTxLocks[t])
=============================================================================
