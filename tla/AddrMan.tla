------------------------------ MODULE AddrMan ------------------------------
(***************************************************************************)
(* The address manager of src/src/addrman.{h,cpp}: what the node knows of  *)
(* its peers, in a table of "new" and a table of "tried" addresses over    *)
(* one index.  An entry has an id; mapInfo describes it, mapAddr finds it  *)
(* by its network address (without the port), vRandom lists the ids in a   *)
(* random order and each entry knows its place there.  A new entry is in   *)
(* one or more slots of vvNew and counts them; a tried one is in exactly   *)
(* one slot of vvTried.  The slots follow from hashes: which, is constant. *)
(*                                                                         *)
(* The clock decides whether an announcement is news and whether an entry  *)
(* is terrible, chance whether an entry gets a further slot: the model     *)
(* takes every outcome.  CAddrMan::cs is held for each operation, so each  *)
(* is one action.  A dump truncates peers.dat and writes it anew, so that   *)
(* a crash may leave it torn, or too short for its checksum.                *)
(***************************************************************************)
EXTENDS Integers, Sequences, FiniteSets, SequencesExt, Functions, TLC

CONSTANTS
  Service,           \* [ip, port] of peers
  Source,            \* peers who announce addresses
  NewBuckets,        \* 0..ADDRMAN_NEW_BUCKET_COUNT - 1
  TriedBuckets,      \* 0..ADDRMAN_TRIED_BUCKET_COUNT - 1
  Positions,         \* 0..ADDRMAN_BUCKET_SIZE - 1
  GetNewBucket(_, _),      \* of an address and its source
  GetTriedBucket(_),       \* of a service
  GetBucketPosition(_, _, _), \* of a service, in new or tried, in a bucket
  MaxRefs,           \* ADDRMAN_NEW_BUCKETS_PER_ADDRESS
  MaxPct,            \* ADDRMAN_GETADDR_MAX_PCT
  MaxId              \* bound: ids handed out between two starts

VARIABLES
  addrman,           \* the members of CAddrMan
  peersDat,          \* what peers.dat holds
  running            \* the node is up

vars == <<addrman, peersDat, running>>

Ip == {addr.ip : addr \in Service}
Free == -1
NewSlots == NewBuckets \X Positions
TriedSlots == TriedBuckets \X Positions

NewSlot(addr, source) ==
  LET bucket == GetNewBucket(addr.ip, source)
  IN  <<bucket, GetBucketPosition(addr, TRUE, bucket)>>
TriedSlot(addr) ==
  LET bucket == GetTriedBucket(addr)
  IN  <<bucket, GetBucketPosition(addr, FALSE, bucket)>>

Clear ==
  [nIdCount |-> 0, mapInfo |-> <<>>, mapAddr |-> <<>>, vRandom |-> <<>>,
   nTried |-> 0, vvTried |-> [s \in TriedSlots |-> Free],
   nNew |-> 0, vvNew |-> [s \in NewSlots |-> Free]]

Without(f, x) == Restrict(f, DOMAIN f \ {x})
Entry(m, slot) == m.mapInfo[m.vvNew[slot]]
-----------------------------------------------------------------------------
(* The helpers of CAddrMan, from one state of its members to the next.      *)
(* Places in vRandom count from 1 here, from 0 in the code.                 *)

Info(addr, source, place) ==
  [addr |-> addr, source |-> source, nRefCount |-> 0, fInTried |-> FALSE,
   nLastSuccess |-> FALSE, nRandomPos |-> place]

Create(m, addr, source) ==
  LET nId == m.nIdCount
  IN  [m EXCEPT !.nIdCount = @ + 1,
                !.mapInfo = nId :> Info(addr, source, Len(m.vRandom) + 1) @@ @,
                !.mapAddr = addr.ip :> nId @@ @,
                !.vRandom = Append(@, nId)]

\* A slip: the last id takes the place and does not learn of it.
SwapForgets(m, i, j) ==
  [m EXCEPT !.vRandom = [@ EXCEPT ![i] = m.vRandom[j], ![j] = m.vRandom[i]]]

SwapRandom(m, i, j) ==
  [m EXCEPT !.mapInfo[m.vRandom[i]].nRandomPos = j,
            !.mapInfo[m.vRandom[j]].nRandomPos = i,
            !.vRandom = [@ EXCEPT ![i] = m.vRandom[j], ![j] = m.vRandom[i]]]

Delete(m, nId) ==
  LET last == SwapRandom(m, m.mapInfo[nId].nRandomPos, Len(m.vRandom))
  IN  [last EXCEPT !.vRandom = Front(@),
                   !.mapAddr = Without(@, m.mapInfo[nId].addr.ip),
                   !.mapInfo = Without(@, nId),
                   !.nNew = @ - 1]

ClearNew(m, slot) ==
  LET nId == m.vvNew[slot]
      less == [m EXCEPT !.vvNew[slot] = Free, !.mapInfo[nId].nRefCount = @ - 1]
  IN  IF nId = Free THEN m
      ELSE IF Entry(m, slot).nRefCount = 1 THEN Delete(less, nId) ELSE less

\* A slip: the evicted address is dropped where its slot is taken.
EvictIfRoom(m, slot) ==
  LET nId == m.vvTried[slot]
      old == m.mapInfo[nId]
      to == NewSlot(old.addr, old.source)
      out == [m EXCEPT !.mapInfo[nId].fInTried = FALSE,
                       !.vvTried[slot] = Free, !.nTried = @ - 1, !.nNew = @ + 1]
  IN  IF m.vvNew[to] # Free THEN Delete(out, nId)
      ELSE [out EXCEPT !.mapInfo[nId].nRefCount = 1, !.vvNew[to] = nId]

(* A tried entry goes back to the new table, whoever has its slot there     *)
(* loses it.                                                                *)
Evict(m, slot) ==
  LET nId == m.vvTried[slot]
      old == m.mapInfo[nId]
      to == NewSlot(old.addr, old.source)
      out == [m EXCEPT !.mapInfo[nId].fInTried = FALSE,
                       !.vvTried[slot] = Free, !.nTried = @ - 1]
  IN  [ClearNew(out, to) EXCEPT !.mapInfo[nId].nRefCount = 1,
                                !.vvNew[to] = nId, !.nNew = @ + 1]

MakeTried(m, nId) ==
  LET addr == m.mapInfo[nId].addr
      held == {s \in NewSlots : /\ m.vvNew[s] = nId
                                /\ GetBucketPosition(addr, TRUE, s[1]) = s[2]}
      out == [m EXCEPT !.vvNew = [s \in NewSlots |-> IF s \in held THEN Free ELSE @[s]],
                       !.mapInfo[nId].nRefCount = @ - Cardinality(held),
                       !.nNew = @ - 1]
      slot == TriedSlot(addr)
      room == IF out.vvTried[slot] = Free THEN out ELSE Evict(out, slot)
  IN  [room EXCEPT !.vvTried[slot] = nId, !.nTried = @ + 1,
                   !.mapInfo[nId].fInTried = TRUE]

Insert(m, nId, slot) ==
  [ClearNew(m, slot) EXCEPT !.mapInfo[nId].nRefCount = @ + 1, !.vvNew[slot] = nId]

(* The second half of Add_: an entry gets the slot for this source if it is *)
(* free, its owner terrible, or its owner has others and the entry none.    *)
Place(m, nId, slot, terrible) ==
  LET refs == m.mapInfo[nId].nRefCount
  IN  CASE m.vvNew[slot] = nId -> m
        [] m.vvNew[slot] = Free -> Insert(m, nId, slot)
        [] m.vvNew[slot] \notin {nId, Free} ->
             IF terrible \/ (Entry(m, slot).nRefCount > 1 /\ refs = 0)
             THEN Insert(m, nId, slot)
             ELSE IF refs = 0 THEN Delete(m, nId) ELSE m
-----------------------------------------------------------------------------
(* peers.dat: the entries of both tables and, by bucket, the new table      *)
(* as numbers of entries.  Ids and places are not written.                  *)

\* A slip: the entries are numbered through, tried ones included.
NumberedThrough(m, nId) == Cardinality({n \in DOMAIN m.mapInfo : n < nId})

UnkId(m, nId) ==
  Cardinality({n \in DOMAIN m.mapInfo : n < nId /\ m.mapInfo[n].nRefCount > 0})

Serialize(m) ==
  LET Written(ids) ==
        LET order == SetToSortSeq(ids, <)
        IN  [i \in 1..Len(order) |->
               [addr |-> m.mapInfo[order[i]].addr, source |-> m.mapInfo[order[i]].source,
                nLastSuccess |-> m.mapInfo[order[i]].nLastSuccess]]
  IN  [state |-> "whole",
       new |-> Written({n \in DOMAIN m.mapInfo : m.mapInfo[n].nRefCount > 0}),
       tried |-> Written({n \in DOMAIN m.mapInfo : m.mapInfo[n].fInTried}),
       buckets |-> {<<s[1], UnkId(m, m.vvNew[s])>> :
                      s \in {t \in NewSlots : m.vvNew[t] # Free}}]

Read(m, e) ==
  LET created == Create(m, e.addr, e.source)
  IN  [created EXCEPT !.mapInfo[m.nIdCount].nLastSuccess = e.nLastSuccess]

(* A tried entry whose slot is taken already is lost.                       *)
ReadTried(m, e) ==
  LET slot == TriedSlot(e.addr)
  IN  IF m.vvTried[slot] # Free THEN m
      ELSE [Read(m, e) EXCEPT !.vvTried[slot] = m.nIdCount, !.nTried = @ + 1,
                              !.mapInfo[m.nIdCount].fInTried = TRUE]

ReadSlot(m, bucket, n) ==
  LET slot == <<bucket, GetBucketPosition(m.mapInfo[n].addr, TRUE, bucket)>>
  IN  IF /\ n < m.nNew
         /\ m.vvNew[slot] = Free
         /\ m.mapInfo[n].nRefCount < MaxRefs
      THEN [m EXCEPT !.mapInfo[n].nRefCount = @ + 1, !.vvNew[slot] = n]
      ELSE m

Unserialize(file) ==
  LET new == [FoldLeft(Read, Clear, file.new) EXCEPT !.nNew = Len(file.new)]
      both == FoldLeft(ReadTried, new, file.tried)
      placed == FoldLeft(LAMBDA m, p : ReadSlot(m, p[1], p[2]), both,
                         SetToSeq(file.buckets))
      unplaced == {n \in DOMAIN placed.mapInfo :
                     ~placed.mapInfo[n].fInTried /\ placed.mapInfo[n].nRefCount = 0}
  IN  FoldLeft(Delete, placed, SetToSortSeq(unplaced, <))
-----------------------------------------------------------------------------
Damaged(how) == [Serialize(Clear) EXCEPT !.state = how]
Torn == Damaged("torn")     \* the checksum does not match
Short == Damaged("short")   \* fewer bytes than a checksum has

Init == addrman = Clear /\ peersDat = Serialize(Clear) /\ running = TRUE

Known(m) == DOMAIN m.mapAddr
Found(addr) == addrman.mapInfo[addrman.mapAddr[addr.ip]]

(* Add_ of an address the node has under no port.                           *)
AddUnknown(addr, source) ==
  /\ addr.ip \notin Known(addrman)
  /\ addrman.nIdCount < MaxId
  /\ \E terrible \in BOOLEAN :
       LET m == [Create(addrman, addr, source) EXCEPT !.nNew = @ + 1]
       IN  addrman' = Place(m, addrman.nIdCount, NewSlot(addr, source), terrible)
  /\ UNCHANGED peersDat

MayRefer(info) == ~info.fInTried /\ info.nRefCount < MaxRefs

(* Add_ of one it has, when the announcement is news and the dice allow it: *)
(* the entry gets a further slot, whatever port was announced.              *)
AddKnown(addr, source) ==
  /\ addr.ip \in Known(addrman)
  /\ MayRefer(Found(addr))
  /\ \E terrible \in BOOLEAN :
       addrman' = Place(addrman, addrman.mapAddr[addr.ip],
                        NewSlot(Found(addr).addr, source), terrible)
  /\ UNCHANGED peersDat

Add(addr, source) == AddUnknown(addr, source) \/ AddKnown(addr, source)

(* Good_: a connection to this very service succeeded.                      *)
Good(addr) ==
  /\ addr.ip \in Known(addrman)
  /\ Found(addr).addr = addr
  /\ LET nId == addrman.mapAddr[addr.ip]
         m == [addrman EXCEPT !.mapInfo[nId].nLastSuccess = TRUE]
     IN  addrman' = IF \/ Found(addr).fInTried
                       \/ \A s \in NewSlots : \/ m.vvNew[s] # nId
                                              \/ GetBucketPosition(addr, TRUE, s[1]) # s[2]
                    THEN m ELSE MakeTried(m, nId)
  /\ UNCHANGED peersDat

(* GetAddr_ draws from the front of vRandom by swapping, past terrible      *)
(* entries without a limit: any order may come out.                         *)
GetAddr ==
  /\ (MaxPct * Len(addrman.vRandom)) \div 100 > 0
  /\ \E order \in SetToSeqs(ToSet(addrman.vRandom)) :
       addrman' = [addrman EXCEPT
         !.vRandom = order,
         !.mapInfo = [n \in DOMAIN @ |->
           IF \E i \in DOMAIN order : order[i] = n
           THEN [@[n] EXCEPT !.nRandomPos = CHOOSE i \in DOMAIN order : order[i] = n]
           ELSE @[n]]]
  /\ UNCHANGED peersDat

(* DumpAddresses, every now and then.                                      *)
DumpAddresses == peersDat' = Serialize(addrman) /\ UNCHANGED addrman

(* The node stops with a last dump or crashes, perhaps in a dump.           *)
Stop ==
  /\ running' = FALSE
  /\ addrman' = Clear
  /\ peersDat' \in {Serialize(addrman), peersDat, Torn, Short}

(* StartNode reads the file; one that does not match its checksum counts as *)
(* missing.  Of a short one CAddrDB::Read takes the size of the data to be  *)
(* negative, as an unsigned number: the exception ends the start.           *)
Start ==
  /\ peersDat # Short
  /\ running' = TRUE
  /\ addrman' = IF peersDat = Torn THEN Clear ELSE Unserialize(peersDat)
  /\ UNCHANGED peersDat

StartThrows == peersDat = Short /\ UNCHANGED vars

Operation ==
  \/ \E addr \in Service : Good(addr) \/ \E source \in Source : Add(addr, source)
  \/ GetAddr
  \/ DumpAddresses

Next ==
  \/ running /\ Operation /\ UNCHANGED running
  \/ running /\ Stop
  \/ ~running /\ (Start \/ StartThrows)

Spec == Init /\ [][Next]_vars
-----------------------------------------------------------------------------
Ids == 0..(MaxId - 1)
InfoType ==
  [addr : Service, source : Source, nRefCount : 0..MaxRefs, fInTried : BOOLEAN,
   nLastSuccess : BOOLEAN, nRandomPos : 1..MaxId]

(* Types, with the reference counts within ADDRMAN_NEW_BUCKETS_PER_ADDRESS. *)
TypeOK ==
  /\ running \in BOOLEAN
  /\ addrman.nIdCount \in 0..MaxId
  /\ DOMAIN addrman.mapInfo \subseteq Ids
  /\ \A n \in DOMAIN addrman.mapInfo : addrman.mapInfo[n] \in InfoType
  /\ Known(addrman) \subseteq Ip /\ Range(addrman.mapAddr) \subseteq Ids
  /\ addrman.vRandom \in BoundedSeq(Ids, MaxId)
  /\ addrman.vvNew \in [NewSlots -> Ids \cup {Free}]
  /\ addrman.vvTried \in [TriedSlots -> Ids \cup {Free}]
  /\ addrman.nNew \in 0..MaxId /\ addrman.nTried \in 0..MaxId

SlotsOf(m, n) == {s \in NewSlots : m.vvNew[s] = n}
TriedIds(m) == {n \in DOMAIN m.mapInfo : m.mapInfo[n].fInTried}

(* CAddrMan::Check_ (addrman.cpp:392), which only debug builds run: the two *)
(* tables, the index by address, the random order and the counters describe *)
(* the same entries after any sequence of operations and restarts.  Select_ *)
(* loops for ever, and Serialize asserts, where the counters are wrong.     *)
CheckPasses ==
  LET m == addrman
      ids == DOMAIN m.mapInfo
  IN  /\ Len(m.vRandom) = m.nTried + m.nNew
      /\ \A n \in ids :
           LET info == m.mapInfo[n]
           IN  /\ info.fInTried => info.nLastSuccess /\ info.nRefCount = 0
               /\ ~info.fInTried => info.nRefCount \in 1..MaxRefs
               /\ info.addr.ip \in Known(m) /\ m.mapAddr[info.addr.ip] = n
               /\ info.nRandomPos \in DOMAIN m.vRandom
               /\ m.vRandom[info.nRandomPos] = n
               /\ info.nRefCount = Cardinality(SlotsOf(m, n))
               /\ \A s \in SlotsOf(m, n) : GetBucketPosition(info.addr, TRUE, s[1]) = s[2]
      /\ m.nTried = Cardinality(TriedIds(m))
      /\ m.nNew = Cardinality(ids \ TriedIds(m))
      /\ \A s \in NewSlots : m.vvNew[s] \in ids \cup {Free}
      /\ \A n \in TriedIds(m) : m.vvTried[TriedSlot(m.mapInfo[n].addr)] = n
      /\ \A s \in TriedSlots : m.vvTried[s] # Free =>
           m.vvTried[s] \in TriedIds(m) /\ TriedSlot(m.mapInfo[m.vvTried[s]].addr) = s

(* Which address is in which slot, ids and order aside.                     *)
Shape(m) ==
  LET Filled(table) == {<<s, m.mapInfo[table[s]].addr>> :
                          s \in {t \in DOMAIN table : table[t] # Free}}
  IN  <<Filled(m.vvNew), Filled(m.vvTried)>>

(* What is dumped is what the next start finds, although ids, places and    *)
(* the tried table are not in the file: every address in its slots          *)
(* (addrman.h:262, "they are instead reconstructed from the other           *)
(* information").                                                           *)
RestoredAsDumped == Shape(Unserialize(Serialize(addrman))) = Shape(addrman)

(* While the node runs an address is forgotten only for another one, which  *)
(* has its slots afterwards; at most one at a time, and never one of the    *)
(* tried, which are moved back to the new table (MakeTried, ClearNew).      *)
ForgottenForAnother ==
  [][running' =>
       LET gone == Known(addrman) \ Known(addrman')
       IN  /\ Cardinality(gone) <= 1
           /\ \A ip \in gone :
                LET n == addrman.mapAddr[ip]
                IN  /\ ~addrman.mapInfo[n].fInTried
                    /\ \A s \in SlotsOf(addrman, n) : addrman'.vvNew[s] \notin {n, Free}
    ]_vars

(* The node comes up whatever a crash left of peers.dat (net.cpp:1990,      *)
(* "Don't try to resize to a negative number if file is small").  It does   *)
(* not.                                                                     *)
StartSucceeds == ~running => peersDat # Short
=============================================================================
