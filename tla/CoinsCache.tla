----------------------------- MODULE CoinsCache -----------------------------
(***************************************************************************)
(* The stack of coins views (src/src/coins.cpp): the coins database, the   *)
(* cache pcoinsTip over it, and the CCoinsViewCache that ConnectTip and    *)
(* DisconnectTip put on top while they work on one block.                  *)
(*                                                                         *)
(* An entry holds the unspent outputs of one transaction; an entry without *)
(* any is pruned.  The metadata of the coins travels with them and is left *)
(* to Ledger.  Everything happens under cs_main, so a step is one call.    *)
(***************************************************************************)
EXTENDS Naturals

CONSTANTS
  Txid,    \* transactions
  Output,  \* positions in vout
  BlockId, \* hashes of blocks
  none,    \* no entry, no modifier, and the hash uint256(0)
  MaxWriteErrors  \* bound: how often the database refuses a batch

ASSUME CoinsAssumption ==
  /\ none \notin BlockId
  /\ none \notin Txid
  /\ none \notin [coins : SUBSET Output, dirty : BOOLEAN, fresh : BOOLEAN]
  /\ MaxWriteErrors \in Nat

Coins == SUBSET Output
Entry == [coins : Coins, dirty : BOOLEAN, fresh : BOOLEAN]
Cache == [Txid -> Entry \cup {none}]

VARIABLES
  db, dbBlock,          \* CCoinsViewDB
  tip, tipBlock,        \* cacheCoins and hashBlock of pcoinsTip
  view, viewBlock,      \* the same of the view on top
  viewOpen,             \* the view on top exists
  modifying,            \* the entry of the CCoinsModifier that is alive
  aborting, errors      \* AbortNode was called; write errors so far

dbVars   == <<db, dbBlock>>
tipVars  == <<tip, tipBlock>>
viewVars == <<view, viewBlock, viewOpen, modifying>>
failVars == <<aborting, errors>>
vars == <<dbVars, tipVars, viewVars, failVars>>

Empty == [x \in Txid |-> none]

Init ==
  /\ db = [x \in Txid |-> {}]
  /\ dbBlock \in BlockId
  /\ tip = Empty /\ tipBlock = none
  /\ view = Empty /\ viewBlock = none
  /\ viewOpen = FALSE
  /\ modifying = none
  /\ aborting = FALSE /\ errors = 0

-----------------------------------------------------------------------------
(***************************************************************************)
(* Reading.  FetchCoins keeps what the view below has; the database has no *)
(* entry for pruned coins.                                                 *)
(***************************************************************************)
Clean(c) == [coins |-> c, dirty |-> FALSE, fresh |-> c = {}]

\* pcoinsTip after FetchCoins(x), and the view after it.
FetchTip(x) ==
  IF tip[x] = none /\ db[x] # {} THEN [tip EXCEPT ![x] = Clean(db[x])] ELSE tip

FetchView(x) ==
  IF view[x] = none /\ FetchTip(x)[x] # none
  THEN [view EXCEPT ![x] = Clean(FetchTip(x)[x].coins)] ELSE view

\* GetBestBlock of pcoinsTip: asked once, then remembered.
BestOfTip == IF tipBlock = none THEN dbBlock ELSE tipBlock

\* GetCoins, HaveCoins, GetBestBlock of pcoinsTip: the RPC threads.
ReadTip(x) ==
  /\ tip' = FetchTip(x)
  /\ tipBlock' = BestOfTip
  /\ UNCHANGED <<dbVars, viewVars, failVars>>

\* The view is made, and asked for the block it stands at.
OpenView ==
  /\ ~viewOpen
  /\ viewOpen' = TRUE
  /\ viewBlock' = BestOfTip
  /\ tipBlock' = BestOfTip
  /\ UNCHANGED <<dbVars, tip, view, modifying, failVars>>

\* AccessCoins, HaveCoins, HaveInputs, GetValueIn.
ReadView(x) ==
  /\ viewOpen
  /\ tip' = FetchTip(x)
  /\ view' = FetchView(x)
  /\ UNCHANGED <<dbVars, tipBlock, viewBlock, viewOpen, modifying, failVars>>

-----------------------------------------------------------------------------
(***************************************************************************)
(* Writing.                                                                *)
(***************************************************************************)

\* The entry ModifyCoins makes when the view has none, and the mutant that
\* takes every new entry for fresh.
AlwaysFresh(below) ==
  [coins |-> IF below = none THEN {} ELSE below.coins, dirty |-> TRUE, fresh |-> TRUE]
NewEntry(below) ==
  [coins |-> IF below = none THEN {} ELSE below.coins,
   dirty |-> TRUE,
   fresh |-> below = none \/ below.coins = {}]

ModifyCoins(x) ==
  /\ viewOpen
  /\ modifying = none
  /\ modifying' = x
  /\ tip' = IF view[x] = none THEN FetchTip(x) ELSE tip
  /\ view' = [view EXCEPT ![x] = IF @ = none THEN NewEntry(FetchTip(x)[x])
                                 ELSE [@ EXCEPT !.dirty = TRUE]]
  /\ UNCHANGED <<dbVars, tipBlock, viewBlock, viewOpen, failVars>>

\* Spend, FromTx, Clear, or the restored output of an undo record.
Change(c) ==
  /\ modifying # none
  /\ view' = [view EXCEPT ![modifying].coins = c]
  /\ UNCHANGED <<dbVars, tipVars, viewBlock, viewOpen, modifying, failVars>>

\* The modifier is destroyed.  The entry is dropped if it is fresh and pruned;
\* the mutant drops it if it is pruned.
DropPruned(e) == e.coins = {}
Droppable(e) == e.fresh /\ e.coins = {}

EndModify ==
  /\ modifying # none
  /\ view' = [view EXCEPT ![modifying] = IF Droppable(@) THEN none ELSE @]
  /\ modifying' = none
  /\ UNCHANGED <<dbVars, tipVars, viewBlock, viewOpen, failVars>>

SetBestBlock(h) ==
  /\ viewOpen
  /\ viewBlock' = h
  /\ UNCHANGED <<dbVars, tipVars, view, viewOpen, modifying, failVars>>

-----------------------------------------------------------------------------
(***************************************************************************)
(* Flushing.                                                               *)
(***************************************************************************)

\* What CCoinsViewCache::BatchWrite makes of one entry of its own and one of
\* the child's.
Merged(own, e) ==
  IF e = none \/ ~e.dirty THEN own
  ELSE IF own = none
       THEN IF e.coins = {} THEN none ELSE [coins |-> e.coins, dirty |-> TRUE, fresh |-> TRUE]
       ELSE IF own.fresh /\ e.coins = {} THEN none
            ELSE [own EXCEPT !.coins = e.coins, !.dirty = TRUE]

\* view.Flush(), at the end of ConnectTip and DisconnectTip.
FlushView ==
  /\ viewOpen
  /\ modifying = none
  /\ tip' = [x \in Txid |-> Merged(tip[x], view[x])]
  /\ tipBlock' = viewBlock
  /\ view' = Empty
  /\ viewBlock' = none
  /\ viewOpen' = FALSE
  /\ UNCHANGED <<dbVars, modifying, failVars>>

\* The view goes out of scope unflushed: the block was refused.
DropView ==
  /\ viewOpen
  /\ modifying = none
  /\ view' = Empty
  /\ viewBlock' = none
  /\ viewOpen' = FALSE
  /\ UNCHANGED <<dbVars, tipVars, modifying, failVars>>

\* The coins after CCoinsViewDB::BatchWrite: only dirty entries count.
Written == [x \in Txid |-> IF tip[x] # none /\ tip[x].dirty THEN tip[x].coins ELSE db[x]]

\* The best block after it; uint256(0) is not written.
BlockWritten == IF tipBlock # none THEN tipBlock ELSE dbBlock

\* pcoinsTip->Flush() in FlushStateToDisk.
FlushTip ==
  /\ ~viewOpen
  /\ db' = Written
  /\ dbBlock' = BlockWritten
  /\ tip' = Empty
  /\ UNCHANGED <<tipBlock, viewVars, failVars>>

\* The database refuses the batch: the entries were moved into it already, the
\* best block stays, and the node begins to shut down.
FlushFails ==
  /\ ~viewOpen
  /\ errors < MaxWriteErrors
  /\ errors' = errors + 1
  /\ aborting' = TRUE
  /\ tip' = Empty
  /\ UNCHANGED <<dbVars, tipBlock, viewVars>>

\* The process dies, or ends its shutdown, and starts again.
Restart ==
  /\ tip' = Empty /\ tipBlock' = none
  /\ view' = Empty /\ viewBlock' = none
  /\ viewOpen' = FALSE
  /\ modifying' = none
  /\ aborting' = FALSE
  /\ UNCHANGED <<dbVars, errors>>

Next ==
  \/ \E x \in Txid : ReadTip(x) \/ ReadView(x) \/ ModifyCoins(x)
  \/ \E c \in Coins : Change(c)
  \/ \E h \in BlockId : SetBestBlock(h)
  \/ OpenView \/ EndModify
  \/ FlushView \/ DropView \/ FlushTip \/ FlushFails \/ Restart

Spec == Init /\ [][Next]_vars
-----------------------------------------------------------------------------
\* The coins that a reader of each level sees.
TipCoins  == [x \in Txid |-> IF tip[x] # none THEN tip[x].coins ELSE db[x]]
ViewCoins == [x \in Txid |-> IF view[x] # none THEN view[x].coins ELSE TipCoins[x]]
ViewBest  == IF viewBlock = none THEN BestOfTip ELSE viewBlock

\* Every variable keeps its type; the database's best block is never the
\* zero hash, whatever pcoinsTip stood for when it was flushed.
TypeOK ==
  /\ db \in [Txid -> Coins]
  /\ dbBlock \in BlockId
  /\ tip \in Cache
  /\ tipBlock \in BlockId \cup {none}
  /\ view \in Cache
  /\ viewBlock \in BlockId \cup {none}
  /\ viewOpen \in BOOLEAN
  /\ modifying \in Txid \cup {none}
  /\ aborting \in BOOLEAN
  /\ errors \in Nat

(***************************************************************************)
(* DIRTY and FRESH mean what coins.h says of them, at both levels: an      *)
(* entry that is not dirty equals what the level below shows, and below a  *)
(* fresh entry there is nothing.  And whatever the view took from below    *)
(* and is not fresh is an entry of pcoinsTip, so that a flush that finds   *)
(* none there may take the entry for new.                                  *)
(***************************************************************************)
TipFlags ==
  \A x \in Txid : tip[x] # none =>
    /\ ~tip[x].dirty => tip[x].coins = db[x]
    /\ tip[x].fresh => db[x] = {}

ViewFlags ==
  \A x \in Txid : view[x] # none =>
    /\ ~view[x].dirty => view[x].coins = TipCoins[x]
    /\ view[x].fresh => TipCoins[x] = {}
    /\ tip[x] = none => view[x].fresh

FlagsSound == TipFlags /\ ViewFlags

\* Only an open view has contents, and only its entries are modified.
ViewScoped ==
  /\ ~viewOpen => view = Empty /\ viewBlock = none /\ modifying = none
  /\ viewOpen => viewBlock # none
  /\ modifying # none => view[modifying] # none

\* "Whenever ModifyCoins is called, the entry will be modified."
ModifiedDirty == modifying # none => view[modifying].dirty

IInv == TypeOK /\ FlagsSound /\ ViewScoped /\ ModifiedDirty

(***************************************************************************)
(* The assertion in CCoinsViewCache::BatchWrite: an entry that pcoinsTip   *)
(* does not have comes from a view where it is fresh.                      *)
(***************************************************************************)
FreshAssert ==
  \A x \in Txid :
    tip[x] = none /\ view[x] # none /\ view[x].dirty /\ view[x].coins # {} => view[x].fresh

(***************************************************************************)
(* The stack of caches shows what three plain copies of the coins would:   *)
(* reading changes nothing, a flush of the view changes what a reader of   *)
(* pcoinsTip sees to exactly what a reader of the view saw, a flush of     *)
(* pcoinsTip does the same to the database, and neither changes what is    *)
(* seen above it.  Only a batch the database refuses shows: the coins fall *)
(* back to the stored ones, while their block stays.                       *)
(***************************************************************************)
Store == INSTANCE CoinsStore WITH
  stored <- db, storedBlock <- dbBlock,
  current <- TipCoins, currentBlock <- BestOfTip,
  scratch <- ViewCoins, scratchBlock <- ViewBest,
  editing <- modifying

ImplementsStore == Store!Spec

(***************************************************************************)
(* "Retrieve the block hash whose state this CCoinsView currently          *)
(* represents": the best block of the database never moves to a block      *)
(* whose coins were lost with a batch that the database refused.           *)
(***************************************************************************)
StoredTogether == [][dbBlock' # dbBlock => ~aborting]_vars
=============================================================================
