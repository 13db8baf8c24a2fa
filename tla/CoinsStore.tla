----------------------------- MODULE CoinsStore -----------------------------
(***************************************************************************)
(* What the stack of coins views promises its users: three versions of the *)
(* set of unspent outputs, each with the block it belongs to.  A scratch   *)
(* version is opened on the current one, edited, and committed or thrown   *)
(* away; the current version is persisted, or lost if the disk refuses it; *)
(* a crash falls back to what was persisted.  No caches, no flags:         *)
(* CoinsCache is shown to implement this.                                  *)
(***************************************************************************)
CONSTANTS
  Txid,    \* transactions
  Output,  \* positions in vout
  BlockId, \* hashes of blocks
  none     \* nothing is edited

VARIABLES
  stored, storedBlock,    \* on disk
  current, currentBlock,  \* in memory
  scratch, scratchBlock,  \* while a block is connected or disconnected
  editing                 \* the transaction whose coins are being edited

onDisk   == <<stored, storedBlock>>
inMemory == <<current, currentBlock>>
onTop    == <<scratch, scratchBlock, editing>>
vars == <<onDisk, inMemory, onTop>>

Coins == SUBSET Output   \* the unspent outputs of a transaction

Init ==
  /\ stored = [x \in Txid |-> {}]
  /\ storedBlock \in BlockId
  /\ current = stored /\ currentBlock = storedBlock
  /\ scratch = stored /\ scratchBlock = storedBlock
  /\ editing = none

\* One transaction is edited at a time, and nothing else changes meanwhile.
Begin ==
  /\ editing = none
  /\ editing' \in Txid
  /\ UNCHANGED <<onDisk, inMemory, scratch, scratchBlock>>

Edit ==
  /\ editing # none
  /\ \E c \in Coins : scratch' = [scratch EXCEPT ![editing] = c]
  /\ UNCHANGED <<onDisk, inMemory, scratchBlock, editing>>

End ==
  /\ editing' = none
  /\ UNCHANGED <<onDisk, inMemory, scratch, scratchBlock>>

\* The scratch version belongs to another block from now on.
Move ==
  /\ scratchBlock' \in BlockId
  /\ UNCHANGED <<onDisk, inMemory, scratch, editing>>

Commit ==
  /\ editing = none
  /\ current' = scratch /\ currentBlock' = scratchBlock
  /\ UNCHANGED <<onDisk, onTop>>

Discard ==
  /\ editing = none
  /\ scratch' = current /\ scratchBlock' = currentBlock
  /\ UNCHANGED <<onDisk, inMemory, editing>>

Persist ==
  /\ stored' = current /\ storedBlock' = currentBlock
  /\ UNCHANGED <<inMemory, onTop>>

\* A batch that the store refuses takes the current version with it, but not
\* the claim which block it belongs to.
Lose ==
  /\ editing = none
  /\ current' = stored
  /\ scratch' = stored
  /\ UNCHANGED <<onDisk, currentBlock, scratchBlock, editing>>

Crash ==
  /\ current' = stored /\ currentBlock' = storedBlock
  /\ scratch' = stored /\ scratchBlock' = storedBlock
  /\ editing' = none
  /\ UNCHANGED onDisk

Next == Begin \/ Edit \/ End \/ Move \/ Commit \/ Discard \/ Persist \/ Lose \/ Crash

Spec == Init /\ [][Next]_vars
=============================================================================
