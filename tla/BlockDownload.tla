---------------------------- MODULE BlockDownload ----------------------------
(***************************************************************************)
(* From whom src/src/main.cpp downloads which block: the node states, the  *)
(* blocks in flight, and the counters that are kept beside them.           *)
(*                                                                         *)
(* No network activates headers-first syncing, so that a block is known    *)
(* without its data only if AcceptBlock refused it after AcceptBlockHeader *)
(* had entered it (its stake input is not there yet, its parent is not on  *)
(* disk).  Times are left out: a timeout may come whenever its clock runs. *)
(*                                                                         *)
(* Left out: mapBlockSource, punishments (a peer may go at any time), the  *)
(* failure of a block in ConnectBlock, InvalidateBlock and ReconsiderBlock *)
(* (see ChainState), and what the peers are sent besides.                  *)
(***************************************************************************)
EXTENDS BlockTree, SequencesExt

CONSTANTS
  NULL,          \* no block
  Peer,          \* NodeIds; an id is never given twice
  Preferable,    \* (outbound or whitelisted) and neither one-shot nor client
  Client,        \* peers that have no blocks (fClient), or one-shot ones
  Window,        \* BLOCK_DOWNLOAD_WINDOW
  MaxInTransit   \* MAX_BLOCKS_IN_TRANSIT_PER_PEER

ASSUME DownloadAssumption ==
  /\ NULL \notin Block
  /\ Preferable \cup Client \subseteq Peer
  /\ Preferable \cap Client = {}
  /\ {Window, MaxInTransit} \subseteq Nat \ {0}

VARIABLES
  mapBlockIndex, haveData, failed, tip,   \* what is known of the blocks
  mapNodeState,              \* the nodes that exist -> CNodeState
  closed,                    \* the ids of nodes that are gone
  mapBlocksInFlight,         \* block -> node
  nQueuedValidatedHeaders, nSyncStarted, nPreferredDownload

blockVars == <<mapBlockIndex, haveData, failed, tip>>
countVars == <<nQueuedValidatedHeaders, nSyncStarted, nPreferredDownload>>
vars == <<blockVars, mapNodeState, closed, mapBlocksInFlight, countVars>>

NodeState ==
  [fVersion : BOOLEAN, fDisconnect : BOOLEAN, fPreferredDownload : BOOLEAN,
   fSyncStarted : BOOLEAN, fStalling : BOOLEAN,
   pindexBestKnownBlock : Block \cup {NULL}, hashLastUnknownBlock : Block \cup {NULL},
   pindexLastCommonBlock : Block \cup {NULL}, vBlocksInFlight : SeqOf(Block, MaxInTransit)]

NewNode ==
  [fVersion |-> FALSE, fDisconnect |-> FALSE, fPreferredDownload |-> FALSE,
   fSyncStarted |-> FALSE, fStalling |-> FALSE,
   pindexBestKnownBlock |-> NULL, hashLastUnknownBlock |-> NULL,
   pindexLastCommonBlock |-> NULL, vBlocksInFlight |-> <<>>]

Nodes == DOMAIN mapNodeState
Indicator(P) == IF P THEN 1 ELSE 0

\* nChainTx # 0
Linked(data) == {b \in data : Chain[b] \subseteq data}

-----------------------------------------------------------------------------
(***************************************************************************)
(* What a peer is known to have.                                           *)
(***************************************************************************)
Improved(s, b) ==
  IF s.pindexBestKnownBlock = NULL \/ Work[b] >= Work[s.pindexBestKnownBlock]
  THEN [s EXCEPT !.pindexBestKnownBlock = b] ELSE s

ProcessBlockAvailability(s) ==
  IF s.hashLastUnknownBlock \in mapBlockIndex
  THEN [Improved(s, s.hashLastUnknownBlock) EXCEPT !.hashLastUnknownBlock = NULL]
  ELSE s

UpdateBlockAvailability(s, b) ==
  LET known == ProcessBlockAvailability(s) IN
  IF b \in mapBlockIndex THEN Improved(known, b) ELSE [known EXCEPT !.hashLastUnknownBlock = b]

Ancestor(b, h) == CHOOSE a \in Chain[b] : Height[a] = h
LastCommonAncestor(a, b) == Highest(Chain[a] \cap Chain[b])
Lesser(i, j) == IF i < j THEN i ELSE j

\* The blocks above a up to height h on the way to b.
PathUp(a, b, h) == {x \in Chain[b] : Height[a] < Height[x] /\ Height[x] <= h}

\* The first block of a non-empty set of blocks on one chain.
Lowest(S) == CHOOSE b \in S : Chain[b] \cap S = {b}

(***************************************************************************)
(* FindNextBlocksToDownload for the node p in state s (with its best known *)
(* block up to date): the new pindexLastCommonBlock, the blocks to fetch   *)
(* and the node that stalls, if one does.                                  *)
(***************************************************************************)
Interesting(s) ==
  s.pindexBestKnownBlock # NULL /\ Work[s.pindexBestKnownBlock] >= Work[tip]

CommonBlock(s) ==
  LET best == s.pindexBestKnownBlock IN
  LastCommonAncestor(best,
    IF s.pindexLastCommonBlock # NULL THEN s.pindexLastCommonBlock
    ELSE Ancestor(tip, Lesser(Height[best], Height[tip])))

Missing(b) == b \notin haveData /\ b \notin DOMAIN mapBlocksInFlight

\* ~IsValid(BLOCK_VALID_TREE); the mutant goes on.
GoOn(b) == FALSE
Invalid(b) == b \in failed

FindNextBlocksToDownload(p, s, count) ==
  LET from == CommonBlock(s)
      nWindowEnd == Height[from] + Window
      path == PathUp(from, s.pindexBestKnownBlock, nWindowEnd + 1)
      Beyond(b) == Missing(b) /\ Height[b] > nWindowEnd
      ends == {b \in path : Invalid(b) \/ Beyond(b)}
      seen == {b \in path : Chain[b] \cap ends = {}}
      missing == {b \in seen : Missing(b)}
      common == seen \cap Linked(haveData)
      busy == seen \cap DOMAIN mapBlocksInFlight
      waitingfor == IF busy = {} THEN {} ELSE {mapBlocksInFlight[Lowest(busy)]}
      stalled == ends # {} /\ ~Invalid(Lowest(ends)) /\ missing = {} IN
  [common |-> IF common = {} THEN from ELSE Highest(common),
   vBlocks |-> {b \in missing : Cardinality(Chain[b] \cap missing) <= count},
   staller |-> IF stalled THEN waitingfor \ {p} ELSE {}]

-----------------------------------------------------------------------------
(***************************************************************************)
(* MarkBlockAsReceived, of the block b, wherever it is in flight.          *)
(***************************************************************************)
Received(s, b) ==
  [s EXCEPT !.vBlocksInFlight = RemoveAt(@, CHOOSE i \in DOMAIN @ : @[i] = b),
            !.fStalling = FALSE]

MarkBlockAsReceived(b) ==
  \/ /\ b \in DOMAIN mapBlocksInFlight
     /\ mapNodeState' = [mapNodeState EXCEPT ![mapBlocksInFlight[b]] = Received(@, b)]
     /\ mapBlocksInFlight' = Restrict(mapBlocksInFlight, DOMAIN mapBlocksInFlight \ {b})
     /\ nQueuedValidatedHeaders' = nQueuedValidatedHeaders - 1
  \/ /\ b \notin DOMAIN mapBlocksInFlight
     /\ UNCHANGED <<mapNodeState, mapBlocksInFlight, nQueuedValidatedHeaders>>

Init ==
  /\ mapBlockIndex = {Genesis} /\ haveData = {Genesis} /\ failed = {} /\ tip = Genesis
  /\ mapNodeState = <<>> /\ closed = {}
  /\ mapBlocksInFlight = <<>>
  /\ nQueuedValidatedHeaders = 0 /\ nSyncStarted = 0 /\ nPreferredDownload = 0

InitializeNode(p) ==
  /\ p \notin Nodes \cup closed
  /\ mapNodeState' = [q \in Nodes \cup {p} |-> IF q = p THEN NewNode ELSE mapNodeState[q]]
  /\ UNCHANGED <<blockVars, closed, mapBlocksInFlight, countVars>>

\* "version", with UpdatePreferredDownload
Version(p) ==
  /\ p \in Nodes /\ ~mapNodeState[p].fVersion
  /\ mapNodeState' = [mapNodeState EXCEPT ![p].fVersion = TRUE,
                                          ![p].fPreferredDownload = p \in Preferable]
  /\ nPreferredDownload' = nPreferredDownload + Indicator(p \in Preferable)
  /\ UNCHANGED <<blockVars, closed, mapBlocksInFlight, nQueuedValidatedHeaders, nSyncStarted>>

\* "inv".  An unknown block is asked for, but not entered as in flight.
Inv(p, b) ==
  /\ p \in Nodes /\ mapNodeState[p].fVersion
  /\ mapNodeState' = [mapNodeState EXCEPT ![p] = UpdateBlockAvailability(@, b)]
  /\ UNCHANGED <<blockVars, closed, mapBlocksInFlight, countVars>>

\* AcceptBlock refuses b before it has a header, or enters the header and
\* refuses it then, maybe for good, or takes it; and ActivateBestChain.
Entered(b) ==
  /\ Parent[b] \in mapBlockIndex \ failed
  /\ b \notin failed
  /\ mapBlockIndex' = mapBlockIndex \cup {b}
RefusedLate(b) ==
  /\ Entered(b) /\ b \notin haveData
  /\ failed' \in {failed, failed \cup {b}}
  /\ UNCHANGED <<haveData, tip>>
Taken(b) ==
  LET better == {a \in Linked(haveData \cup {b}) : Work[a] > Work[tip] /\ Chain[a] \cap failed = {}} IN
  /\ Entered(b)
  /\ haveData' = haveData \cup {b}
  /\ IF better = {} THEN tip' = tip
     ELSE tip' \in {a \in better : \A x \in better : Work[x] <= Work[a]}
  /\ UNCHANGED failed

ProcessNewBlock(b) ==
  /\ MarkBlockAsReceived(b)
  /\ UNCHANGED blockVars \/ RefusedLate(b) \/ Taken(b)
  /\ UNCHANGED <<closed, nSyncStarted, nPreferredDownload>>

\* "block": what is in the index already is skipped.
ReceiveBlock(p, b) ==
  /\ p \in Nodes /\ mapNodeState[p].fVersion
  /\ b \notin mapBlockIndex /\ Parent[b] \in mapBlockIndex
  /\ ProcessNewBlock(b)

\* submitblock, which takes a block of which only the header is known
SubmitBlock(b) ==
  /\ b \notin Chain[tip] \cup failed
  /\ ProcessNewBlock(b)

(***************************************************************************)
(* SendMessages to p: the start of the synchronisation, the two timeouts   *)
(* (when they have run out) and the next requests.                         *)
(***************************************************************************)
\* Whom to download from.
Fetch(p) ==
  mapNodeState[p].fPreferredDownload \/ (nPreferredDownload = 0 /\ p \notin Client)

\* How much more p may be asked for.
Room(s) == MaxInTransit - Len(s.vBlocksInFlight)

\* MarkBlockAsInFlight of each block, from the lowest on: the lists of S.
Upwards(S) ==
  {q \in [1 .. Cardinality(S) -> S] :
     \A i, j \in DOMAIN q : i < j => Height[q[i]] < Height[q[j]]}

\* With s the state of p, next what there is to download, list the order of it,
\* and nodes the state of all nodes.
Requested(s, next, list) ==
  [s EXCEPT !.pindexLastCommonBlock = next.common,
            !.vBlocksInFlight = @ \o list]
Stalls(nodes, p, next) ==
  IF nodes[p].vBlocksInFlight = <<>>
  THEN [q \in DOMAIN nodes |-> [nodes[q] EXCEPT !.fStalling = @ \/ q \in next.staller]]
  ELSE nodes

SendMessages(p, fRecent, fStalled, fTimeout) ==
  LET s == mapNodeState[p]
      start == ~s.fSyncStarted /\ p \notin Client /\ Fetch(p) /\ (nSyncStarted = 0 \/ fRecent)
      drop == (s.fStalling /\ fStalled) \/ (s.vBlocksInFlight # <<>> /\ fTimeout)
      now == [s EXCEPT !.fSyncStarted = @ \/ start, !.fDisconnect = @ \/ drop]
      up == ProcessBlockAvailability(now)
      get == ~now.fDisconnect /\ p \notin Client /\ Fetch(p) /\ Room(s) > 0 IN
  /\ p \in Nodes /\ s.fVersion
  /\ nSyncStarted' = nSyncStarted + Indicator(start)
  /\ \/ /\ ~get
        /\ mapNodeState' = [mapNodeState EXCEPT ![p] = now]
        /\ UNCHANGED <<mapBlocksInFlight, nQueuedValidatedHeaders>>
     \/ /\ get /\ ~Interesting(up)
        /\ mapNodeState' = [mapNodeState EXCEPT ![p] = up]
        /\ UNCHANGED <<mapBlocksInFlight, nQueuedValidatedHeaders>>
     \/ /\ get /\ Interesting(up)
        /\ \E next \in {FindNextBlocksToDownload(p, up, Room(s))} :
             /\ \E list \in Upwards(next.vBlocks) :
                  mapNodeState' =
                    Stalls([mapNodeState EXCEPT ![p] = Requested(up, next, list)], p, next)
             /\ mapBlocksInFlight' =
                  [b \in DOMAIN mapBlocksInFlight \cup next.vBlocks |->
                     IF b \in next.vBlocks THEN p ELSE mapBlocksInFlight[b]]
             /\ nQueuedValidatedHeaders' = nQueuedValidatedHeaders + Cardinality(next.vBlocks)
  /\ UNCHANGED <<blockVars, closed, nPreferredDownload>>

\* What FinalizeNode leaves of the counters; the mutants forget to count down.
Kept(n, P) == n
Reduced(n, P) == n - Indicator(P)
StillPreferred(n, P) == n
LessPreferred(n, P) == n - Indicator(P)
\* The blocks in flight from p are dropped; the mutant keeps one entry of them.
DroppedButFirst(s) == IF s.vBlocksInFlight = <<>> THEN {} ELSE Range(Tail(s.vBlocksInFlight))
Dropped(s) == Range(s.vBlocksInFlight)

FinalizeNode(p) ==
  /\ p \in Nodes
  /\ mapNodeState' = Restrict(mapNodeState, Nodes \ {p})
  /\ closed' = closed \cup {p}
  /\ mapBlocksInFlight' =
       Restrict(mapBlocksInFlight, DOMAIN mapBlocksInFlight \ Dropped(mapNodeState[p]))
  /\ nSyncStarted' = Reduced(nSyncStarted, mapNodeState[p].fSyncStarted)
  /\ nPreferredDownload' = LessPreferred(nPreferredDownload, mapNodeState[p].fPreferredDownload)
  /\ UNCHANGED <<blockVars, nQueuedValidatedHeaders>>

\* Whether a clock has run out matters only while it runs, and a recent tip only
\* to a node that is not the first to be synchronised from.
Maybe(P) == IF P THEN BOOLEAN ELSE {FALSE}
SendAny(p) ==
  /\ p \in Nodes
  /\ \E r \in Maybe(nSyncStarted # 0 /\ ~mapNodeState[p].fSyncStarted),
        s \in Maybe(mapNodeState[p].fStalling),
        t \in Maybe(mapNodeState[p].vBlocksInFlight # <<>>) : SendMessages(p, r, s, t)

Next ==
  \/ \E p \in Peer : InitializeNode(p) \/ Version(p) \/ SendAny(p) \/ FinalizeNode(p)
  \/ \E p \in Peer, b \in Block \ {Genesis} : Inv(p, b) \/ ReceiveBlock(p, b)
  \/ \E b \in Block \ {Genesis} : SubmitBlock(b)

Spec == Init /\ [][Next]_vars

\* ThreadMessageHandler comes round to every node: a node that SendMessages
\* would start the synchronisation with is not passed over for ever, and a clock
\* that runs runs out.  ThreadSocketHandler deletes what is to be disconnected.
CanServe(p) == p \in Nodes /\ mapNodeState[p].fVersion /\ Fetch(p)
Started(p) == nSyncStarted = 0 /\ CanServe(p) /\ nSyncStarted' = 1
TimedOut(p) ==
  /\ p \in Nodes /\ mapNodeState[p].vBlocksInFlight # <<>>
  /\ SendMessages(p, FALSE, FALSE, TRUE)

FairSpec ==
  /\ Spec
  /\ \A p \in Peer : /\ WF_nSyncStarted(Started(p)) /\ WF_vars(TimedOut(p))
                     /\ WF_vars(FinalizeNode(p) /\ mapNodeState[p].fDisconnect)

-----------------------------------------------------------------------------
TypeOK ==
  /\ haveData \cup failed \subseteq mapBlockIndex /\ mapBlockIndex \subseteq Block
  /\ Chain[tip] \subseteq haveData \ failed
  /\ Nodes \cup closed \subseteq Peer
  /\ \A p \in Nodes : mapNodeState[p] \in NodeState
  /\ DOMAIN mapBlocksInFlight \subseteq Block

\* A block is in flight from one node, which exists.
ListsAgree ==
  /\ \A p \in Nodes :
       /\ IsInjective(mapNodeState[p].vBlocksInFlight)
       /\ Range(mapNodeState[p].vBlocksInFlight)
            = {b \in DOMAIN mapBlocksInFlight : mapBlocksInFlight[b] = p}
  /\ Range(mapBlocksInFlight) \subseteq Nodes

\* The counters follow the nodes (main.cpp:146, 182).  nQueuedValidatedHeaders,
\* which the download timeout is computed from, is at least what is in flight.
CountsAgree ==
  /\ nSyncStarted = Cardinality({p \in Nodes : mapNodeState[p].fSyncStarted})
  /\ nPreferredDownload = Cardinality({p \in Nodes : mapNodeState[p].fPreferredDownload})
  /\ nQueuedValidatedHeaders >= Cardinality(DOMAIN mapBlocksInFlight)

\* Only a node from which something is in flight stalls the download (and is
\* disconnected for it soon).
StallerIsBusy == \A p \in Nodes : mapNodeState[p].fStalling => mapNodeState[p].vBlocksInFlight # <<>>

(***************************************************************************)
(* mapBlocksInFlight, the lists and flags of the nodes and the counters    *)
(* say the same, and what is in flight is known and not here yet: whatever *)
(* comes between "version", SendMessages and the end of a node, and        *)
(* although blocks come from other peers and by RPC too.                   *)
(***************************************************************************)
BooksAgree ==
  /\ ListsAgree /\ CountsAgree /\ StallerIsBusy
  /\ DOMAIN mapBlocksInFlight \subseteq mapBlockIndex \ haveData

\* The blocks a step asks for.
Asked == DOMAIN mapBlocksInFlight' \ DOMAIN mapBlocksInFlight

(***************************************************************************)
(* A block is asked for when everything below it is here or in flight and  *)
(* nothing of it is known to be invalid: after a reorganisation of the     *)
(* peer, with gaps in what has arrived and after nodes are gone.           *)
(***************************************************************************)
RequestsInOrder ==
  [][\A b \in Asked : /\ Chain[b] \subseteq haveData \cup DOMAIN mapBlocksInFlight'
                      /\ Chain[b] \cap failed = {}]_vars

(***************************************************************************)
(* Nothing stays in flight from one node for ever: it comes, or the node   *)
(* is disconnected and the block can be asked for elsewhere.               *)
(***************************************************************************)
EveryRequestEnds ==
  \A b \in Block \ {Genesis} : b \in DOMAIN mapBlocksInFlight ~> b \notin DOMAIN mapBlocksInFlight

(***************************************************************************)
(* While there is a node to synchronise from, the synchronisation starts   *)
(* with some node: the count of those that have started must go down with  *)
(* the nodes (main.cpp:380), or nobody is asked any more.                  *)
(***************************************************************************)
SyncStarts ==
  \A p \in Peer :
    CanServe(p) ~> (~CanServe(p) \/ \E q \in Nodes : mapNodeState[q].fSyncStarted)

(***************************************************************************)
(* main.cpp:179 says of nQueuedValidatedHeaders: "Number of blocks in      *)
(* flight with validated headers."  It fails: FinalizeNode drops the       *)
(* blocks and does not subtract them.                                      *)
(***************************************************************************)
QueuedIsInFlight == nQueuedValidatedHeaders = Cardinality(DOMAIN mapBlocksInFlight)
=============================================================================
