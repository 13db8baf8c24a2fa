-------------------------- MODULE CoinsCacheProofs --------------------------
(***************************************************************************)
(* For any transactions, outputs and blocks: the flags of the cache        *)
(* entries are sound, BatchWrite never asserts, and the caches implement   *)
(* CoinsStore, batches that the database refuses included.                 *)
(***************************************************************************)
EXTENDS CoinsCache, TLAPS

LEMMA NoneIsNoEntry == none \notin Entry
  BY CoinsAssumption DEF CoinsAssumption, Entry, Coins

LEMMA EntryFields ==
  ASSUME NEW e \in Entry
  PROVE  e.coins \in Coins /\ e.dirty \in BOOLEAN /\ e.fresh \in BOOLEAN
  BY DEF Entry

\* A fetched entry is clean, and fresh only if there is nothing below.
LEMMA CleanEntry ==
  ASSUME NEW c \in Coins
  PROVE  /\ Clean(c) \in Entry
         /\ Clean(c).coins = c
         /\ Clean(c).dirty = FALSE
         /\ Clean(c).fresh <=> c = {}
  BY DEF Clean, Entry

LEMMA CoinsTyped ==
  ASSUME TypeOK
  PROVE  TipCoins \in [Txid -> Coins] /\ ViewCoins \in [Txid -> Coins]
<1>1. TipCoins \in [Txid -> Coins]
  BY EntryFields DEF TypeOK, Cache, TipCoins
<1>2. QED
  BY <1>1, EntryFields DEF TypeOK, Cache, ViewCoins

-----------------------------------------------------------------------------
(***************************************************************************)
(* FetchCoins on pcoinsTip changes nothing that is seen, and finds an      *)
(* entry unless there are no coins.                                        *)
(***************************************************************************)
LEMMA FetchTipFacts ==
  ASSUME TypeOK, TipFlags, NEW x \in Txid
  PROVE  /\ FetchTip(x) \in Cache
         /\ \A y \in Txid :
              /\ FetchTip(x)[y] = none => tip[y] = none
              /\ FetchTip(x)[y] # none => FetchTip(x)[y].coins = TipCoins[y]
              /\ FetchTip(x)[y] = none => TipCoins[y] = db[y]
              /\ FetchTip(x)[y] # none =>
                   /\ ~FetchTip(x)[y].dirty => FetchTip(x)[y].coins = db[y]
                   /\ FetchTip(x)[y].fresh => db[y] = {}
         /\ FetchTip(x)[x] = none => TipCoins[x] = {}
<1>1. CASE tip[x] = none /\ db[x] # {}
  <2>1. FetchTip(x) = [tip EXCEPT ![x] = Clean(db[x])]
    BY <1>1 DEF FetchTip
  <2>2. db[x] \in Coins
    BY DEF TypeOK
  <2>3. Clean(db[x]) \in Entry /\ Clean(db[x]).coins = db[x]
        /\ Clean(db[x]).fresh = FALSE
    BY <1>1, <2>2, CleanEntry DEF Clean
  <2>4. FetchTip(x)[x] = Clean(db[x]) /\ FetchTip(x)[x] # none
    BY <2>1, <2>3, NoneIsNoEntry DEF TypeOK, Cache
  <2>5. \A y \in Txid : y # x => FetchTip(x)[y] = tip[y]
    BY <2>1 DEF TypeOK, Cache
  <2>6. FetchTip(x) \in Cache
    BY <2>1, <2>3 DEF TypeOK, Cache
  <2>7. TipCoins[x] = db[x]
    BY <1>1 DEF TipCoins
  <2>8. \A y \in Txid : TipCoins[y] = IF tip[y] # none THEN tip[y].coins ELSE db[y]
    BY DEF TipCoins
  <2>9. QED
    BY <1>1, <2>3, <2>4, <2>5, <2>6, <2>7, <2>8 DEF TipFlags
<1>2. CASE ~(tip[x] = none /\ db[x] # {})
  BY <1>2 DEF FetchTip, TypeOK, TipFlags, TipCoins
<1>3. QED
  BY <1>1, <1>2

\* The same as a step.
LEMMA FetchTipStep ==
  ASSUME TypeOK, TipFlags, NEW x \in Txid, tip' = FetchTip(x), UNCHANGED db
  PROVE  /\ tip' \in Cache
         /\ TipFlags'
         /\ TipCoins' = TipCoins
         /\ \A y \in Txid : tip'[y] = none => tip[y] = none
         /\ tip'[x] # none => tip'[x].coins = TipCoins[x]
         /\ tip'[x] = none => TipCoins[x] = {}
<1>1. \A y \in Txid : TipCoins'[y] = TipCoins[y]
  BY FetchTipFacts DEF TipCoins
<1>2. TipCoins' = TipCoins
  BY <1>1 DEF TipCoins
<1>3. QED
  BY <1>2, FetchTipFacts DEF TipFlags

(***************************************************************************)
(* Merged: what pcoinsTip shows after a flush is what the view showed, and *)
(* the flags of its entries still speak the truth about the database.      *)
(***************************************************************************)
LEMMA MergedFacts ==
  ASSUME TypeOK, FlagsSound, NEW x \in Txid
  PROVE  /\ Merged(tip[x], view[x]) \in Entry \cup {none}
         /\ Merged(tip[x], view[x]) # none => Merged(tip[x], view[x]).coins = ViewCoins[x]
         /\ Merged(tip[x], view[x]) = none => db[x] = ViewCoins[x]
         /\ Merged(tip[x], view[x]) # none =>
              /\ ~Merged(tip[x], view[x]).dirty => Merged(tip[x], view[x]).coins = db[x]
              /\ Merged(tip[x], view[x]).fresh => db[x] = {}
<1> DEFINE own == tip[x]
           e == view[x]
<1>1. own \in Entry \cup {none} /\ e \in Entry \cup {none} /\ db[x] \in Coins
  BY DEF TypeOK, Cache
<1>2. ViewCoins[x] = (IF e # none THEN e.coins ELSE TipCoins[x])
      /\ TipCoins[x] = (IF own # none THEN own.coins ELSE db[x])
  BY DEF ViewCoins, TipCoins
<1>3. own # none => (~own.dirty => own.coins = db[x]) /\ (own.fresh => db[x] = {})
  BY DEF FlagsSound, TipFlags
<1>4. e # none => /\ ~e.dirty => e.coins = TipCoins[x]
                  /\ e.fresh => TipCoins[x] = {}
                  /\ own = none => e.fresh
  BY DEF FlagsSound, ViewFlags
<1>5. CASE e = none \/ ~e.dirty
  BY <1>1, <1>2, <1>3, <1>4, <1>5 DEF Merged
<1>6. CASE e # none /\ e.dirty /\ own = none
  <2>1. db[x] = {}
    BY <1>2, <1>4, <1>6
  <2>2. CASE e.coins = {}
    BY <1>2, <1>6, <2>1, <2>2 DEF Merged
  <2>3. CASE e.coins # {}
    <3>1. Merged(own, e) = [coins |-> e.coins, dirty |-> TRUE, fresh |-> TRUE]
      BY <1>6, <2>3 DEF Merged
    <3>2. [coins |-> e.coins, dirty |-> TRUE, fresh |-> TRUE] \in Entry
      BY <1>1, <1>6, EntryFields DEF Entry
    <3>3. Merged(own, e).coins = e.coins /\ Merged(own, e).dirty = TRUE
      BY ONLY <3>1
    <3>4. Merged(own, e) \in Entry
      BY ONLY <3>1, <3>2
    <3>5. Merged(own, e) # none
      BY ONLY <3>4, NoneIsNoEntry
    <3>6. ViewCoins[x] = e.coins
      BY ONLY <1>2, <1>6
    <3>7. QED
      BY ONLY <2>1, <3>3, <3>4, <3>5, <3>6
  <2>4. QED
    BY <2>2, <2>3
<1>7. CASE e # none /\ e.dirty /\ own # none /\ own.fresh /\ e.coins = {}
  BY <1>2, <1>3, <1>7 DEF Merged
<1>8. CASE e # none /\ e.dirty /\ own # none /\ ~(own.fresh /\ e.coins = {})
  <2>1. Merged(own, e) = [own EXCEPT !.coins = e.coins, !.dirty = TRUE]
    BY <1>8 DEF Merged
  <2>2. own \in Entry /\ e.coins \in Coins
    BY <1>1, <1>8, EntryFields
  <2>3. /\ Merged(own, e) \in Entry
        /\ Merged(own, e).coins = e.coins
        /\ Merged(own, e).dirty = TRUE
        /\ Merged(own, e).fresh = own.fresh
    BY <2>1, <2>2 DEF Entry
  <2>4. QED
    BY <1>2, <1>3, <1>8, <2>3, NoneIsNoEntry
<1>9. QED
  BY <1>5, <1>6, <1>7, <1>8

LEMMA FlushViewStep ==
  ASSUME TypeOK, FlagsSound, FlushView
  PROVE  tip' \in Cache /\ TipFlags' /\ TipCoins' = ViewCoins
<1>1. tip' = [x \in Txid |-> Merged(tip[x], view[x])] /\ db' = db
  BY DEF FlushView, dbVars
<1>2. tip' \in Cache
  BY <1>1, MergedFacts DEF Cache
<1>3. \A x \in Txid : TipCoins'[x] = ViewCoins[x]
  BY <1>1, MergedFacts DEF TipCoins
<1>4. TipCoins' = ViewCoins
  BY <1>3 DEF TipCoins, ViewCoins
<1>5. TipFlags'
  BY <1>1, MergedFacts DEF TipFlags
<1>6. QED
  BY <1>2, <1>4, <1>5

-----------------------------------------------------------------------------
(***************************************************************************)
(* Steps of the view that leave what pcoinsTip shows.                      *)
(***************************************************************************)

\* An entry of the view that says what it should, pcoinsTip being t.
SoundEntry(e, t, below) ==
  e # none => /\ ~e.dirty => e.coins = below
              /\ e.fresh => below = {}
              /\ t = none => e.fresh

\* Entries stay sound when pcoinsTip fetches more.
LEMMA StillSound ==
  ASSUME FlagsSound, TipCoins' = TipCoins, \A y \in Txid : tip'[y] = none => tip[y] = none
  PROVE  \A y \in Txid : SoundEntry(view[y], tip'[y], TipCoins'[y])
  BY DEF FlagsSound, ViewFlags, SoundEntry

LEMMA ReadTipStep ==
  ASSUME IInv, NEW x \in Txid, ReadTip(x)
  PROVE  IInv' /\ TipCoins' = TipCoins /\ ViewCoins' = ViewCoins
<1> USE DEF IInv, ReadTip, dbVars, viewVars, failVars
<1>1. /\ tip' \in Cache
      /\ TipFlags'
      /\ TipCoins' = TipCoins
      /\ \A y \in Txid : tip'[y] = none => tip[y] = none
  BY FetchTipStep DEF FlagsSound
<1>2. \A y \in Txid : SoundEntry(view'[y], tip'[y], TipCoins'[y])
  BY <1>1, StillSound
<1>3. FlagsSound'
  BY <1>1, <1>2 DEF FlagsSound, ViewFlags, SoundEntry
<1>4. TypeOK'
  BY <1>1 DEF TypeOK, BestOfTip
<1>5. ViewScoped' /\ ModifiedDirty'
  BY DEF ViewScoped, ModifiedDirty
<1>6. QED
  BY <1>1, <1>3, <1>4, <1>5 DEF ViewCoins

LEMMA ReadViewStep ==
  ASSUME IInv, NEW x \in Txid, ReadView(x)
  PROVE  IInv' /\ TipCoins' = TipCoins /\ ViewCoins' = ViewCoins
<1> USE DEF IInv, ReadView, dbVars, failVars
<1>1. /\ tip' = FetchTip(x) /\ tip' \in Cache
      /\ TipFlags'
      /\ TipCoins' = TipCoins
      /\ \A y \in Txid : tip'[y] = none => tip[y] = none
      /\ tip'[x] # none => tip'[x].coins = TipCoins[x]
  BY FetchTipStep DEF FlagsSound
<1>2. \A y \in Txid : SoundEntry(view[y], tip'[y], TipCoins'[y])
  BY <1>1, StillSound
<1>3. CASE view[x] = none /\ tip'[x] # none
  <2>1. view' = [view EXCEPT ![x] = Clean(TipCoins[x])]
    BY <1>1, <1>3 DEF FetchView
  <2>2. TipCoins[x] \in Coins
    BY CoinsTyped
  <2>3. /\ Clean(TipCoins[x]) \in Entry
        /\ Clean(TipCoins[x]).coins = TipCoins[x]
        /\ Clean(TipCoins[x]).fresh => TipCoins[x] = {}
    BY <2>2, CleanEntry
  <2>4. view' \in Cache /\ view'[x] = Clean(TipCoins[x]) /\ view'[x] # none
        /\ \A y \in Txid : y # x => view'[y] = view[y]
    BY <2>1, <2>3, NoneIsNoEntry DEF TypeOK, Cache
  <2>5. \A y \in Txid : SoundEntry(view'[y], tip'[y], TipCoins'[y])
    BY <1>1, <1>2, <1>3, <2>3, <2>4 DEF SoundEntry
  <2>6. \A y \in Txid : ViewCoins'[y] = ViewCoins[y]
    BY <1>1, <1>3, <2>3, <2>4 DEF ViewCoins
  <2>7. ViewCoins' = ViewCoins
    BY <2>6 DEF ViewCoins
  <2>8. FlagsSound'
    BY <1>1, <2>5 DEF FlagsSound, ViewFlags, SoundEntry
  <2>9. TypeOK'
    BY <1>1, <2>4 DEF TypeOK
  <2>10. modifying # none => modifying \in Txid /\ modifying # x
    BY <1>3 DEF TypeOK, ViewScoped
  <2>11. ViewScoped' /\ ModifiedDirty'
    BY <2>4, <2>10 DEF ViewScoped, ModifiedDirty
  <2>12. QED
    BY <1>1, <2>7, <2>8, <2>9, <2>11
<1>4. CASE ~(view[x] = none /\ tip'[x] # none)
  <2>1. view' = view
    BY <1>1, <1>4 DEF FetchView
  <2>2. FlagsSound' /\ ViewCoins' = ViewCoins
    BY <1>1, <1>2, <2>1 DEF FlagsSound, ViewFlags, SoundEntry, ViewCoins
  <2>3. TypeOK' /\ ViewScoped' /\ ModifiedDirty'
    BY <1>1, <2>1 DEF TypeOK, ViewScoped, ModifiedDirty
  <2>4. QED
    BY <1>1, <2>2, <2>3
<1>5. QED
  BY <1>3, <1>4

LEMMA ModifyCoinsStep ==
  ASSUME IInv, NEW x \in Txid, ModifyCoins(x)
  PROVE  IInv' /\ TipCoins' = TipCoins /\ ViewCoins' = ViewCoins
<1> USE DEF IInv, ModifyCoins, dbVars, failVars
<1>1. CASE view[x] = none
  <2> DEFINE e == NewEntry(tip'[x])
  <2>1. /\ tip' = FetchTip(x) /\ tip' \in Cache
        /\ TipFlags'
        /\ TipCoins' = TipCoins
        /\ \A y \in Txid : tip'[y] = none => tip[y] = none
        /\ tip'[x] # none => tip'[x].coins = TipCoins[x]
        /\ tip'[x] = none => TipCoins[x] = {}
    BY <1>1, FetchTipStep DEF FlagsSound
  <2>2. \A y \in Txid : SoundEntry(view[y], tip'[y], TipCoins'[y])
    BY <2>1, StillSound
  <2>3. e \in Entry /\ e.coins = TipCoins[x] /\ e.dirty = TRUE
        /\ (e.fresh <=> tip'[x] = none \/ tip'[x].coins = {})
    BY <2>1, CoinsTyped DEF NewEntry, Entry
  <2>4. view' = [view EXCEPT ![x] = e]
    BY <1>1, <2>1
  <2>5. view' \in Cache /\ view'[x] = e /\ view'[x] # none
        /\ \A y \in Txid : y # x => view'[y] = view[y]
    <3>1. e \in Entry
      BY <2>3
    <3>2. view \in Cache
      BY DEF TypeOK
    <3> HIDE DEF e
    <3> QED BY ONLY <2>4, <3>1, <3>2, NoneIsNoEntry DEF Cache
  <2>6. \A y \in Txid : SoundEntry(view'[y], tip'[y], TipCoins'[y])
    BY <2>1, <2>2, <2>3, <2>5 DEF SoundEntry
  <2>7. \A y \in Txid : ViewCoins'[y] = ViewCoins[y]
    BY <1>1, <2>1, <2>3, <2>5 DEF ViewCoins
  <2>8. ViewCoins' = ViewCoins
    BY <2>7 DEF ViewCoins
  <2>9. FlagsSound'
    BY <2>1, <2>6 DEF FlagsSound, ViewFlags, SoundEntry
  <2>10. TypeOK' /\ ViewScoped' /\ ModifiedDirty'
    BY <2>1, <2>3, <2>5 DEF TypeOK, ViewScoped, ModifiedDirty
  <2>11. QED
    BY <2>1, <2>8, <2>9, <2>10
<1>2. CASE view[x] # none
  <2> DEFINE e == [view[x] EXCEPT !.dirty = TRUE]
  <2>1. view[x] \in Entry /\ tip' = tip /\ view' = [view EXCEPT ![x] = e]
    BY <1>2 DEF TypeOK, Cache
  <2>2. e \in Entry /\ e.coins = view[x].coins /\ e.dirty = TRUE /\ e.fresh = view[x].fresh
    BY <2>1 DEF Entry
  <2>3. view' \in Cache /\ view'[x] = e /\ view'[x] # none
        /\ \A y \in Txid : y # x => view'[y] = view[y]
    BY <2>1, <2>2, NoneIsNoEntry DEF TypeOK, Cache
  <2>4. TipCoins' = TipCoins
    BY <2>1 DEF TipCoins
  <2>5. \A y \in Txid : ViewCoins'[y] = ViewCoins[y]
    BY <1>2, <2>2, <2>3, <2>4 DEF ViewCoins
  <2>6. ViewCoins' = ViewCoins
    BY <2>5 DEF ViewCoins
  <2>7. FlagsSound'
    BY <1>2, <2>1, <2>2, <2>3, <2>4 DEF FlagsSound, TipFlags, ViewFlags
  <2>8. TypeOK' /\ ViewScoped' /\ ModifiedDirty'
    BY <2>1, <2>2, <2>3 DEF TypeOK, ViewScoped, ModifiedDirty
  <2>9. QED
    BY <2>4, <2>6, <2>7, <2>8
<1>3. QED
  BY <1>1, <1>2

LEMMA ChangeStep ==
  ASSUME IInv, NEW c \in Coins, Change(c)
  PROVE  IInv' /\ TipCoins' = TipCoins /\ ViewCoins' = [ViewCoins EXCEPT ![modifying] = c]
<1> USE DEF IInv, Change, dbVars, tipVars, failVars
<1> DEFINE x == modifying
           e == [view[x] EXCEPT !.coins = c]
<1>1. x \in Txid /\ view[x] \in Entry /\ view[x] # none
  BY DEF TypeOK, ViewScoped, Cache
<1>2. view' = [view EXCEPT ![x] = e]
  OBVIOUS
<1>3. e \in Entry /\ e.coins = c /\ e.dirty = view[x].dirty /\ e.fresh = view[x].fresh
  BY <1>1 DEF Entry
<1>4. view' \in Cache /\ view'[x] = e /\ view'[x] # none
      /\ \A y \in Txid : y # x => view'[y] = view[y]
  BY <1>1, <1>2, <1>3, NoneIsNoEntry DEF TypeOK, Cache
<1>5. TipCoins' = TipCoins
  BY DEF TipCoins
<1>6. ViewCoins'[x] = c /\ \A y \in Txid : y # x => ViewCoins'[y] = ViewCoins[y]
  <2>1. ViewCoins'[x] = view'[x].coins
    BY <1>1, <1>4 DEF ViewCoins
  <2>2. ASSUME NEW y \in Txid, y # x PROVE ViewCoins'[y] = ViewCoins[y]
    BY <2>2, <1>4, <1>5 DEF ViewCoins
  <2>3. QED
    BY <1>3, <1>4, <2>1, <2>2
<1>7. ViewCoins' = [ViewCoins EXCEPT ![x] = c]
  <2>1. ViewCoins' = [y \in Txid |-> ViewCoins'[y]]
    BY DEF ViewCoins
  <2>2. ViewCoins = [y \in Txid |-> ViewCoins[y]]
    BY DEF ViewCoins
  <2>3. QED
    BY ONLY <1>1, <1>6, <2>1, <2>2
<1>8. view[x].dirty
  BY <1>1 DEF ModifiedDirty
<1>9. FlagsSound'
  BY <1>1, <1>3, <1>4, <1>5, <1>8 DEF FlagsSound, TipFlags, ViewFlags
<1>10. TypeOK' /\ ViewScoped' /\ ModifiedDirty'
  BY <1>1, <1>3, <1>4, <1>8 DEF TypeOK, ViewScoped, ModifiedDirty
<1>11. QED
  BY <1>5, <1>7, <1>9, <1>10

LEMMA EndModifyStep ==
  ASSUME IInv, EndModify
  PROVE  IInv' /\ TipCoins' = TipCoins /\ ViewCoins' = ViewCoins
<1> USE DEF IInv, EndModify, dbVars, tipVars, failVars
<1> DEFINE x == modifying
<1>1. x \in Txid /\ view[x] \in Entry /\ view[x] # none
  BY DEF TypeOK, ViewScoped, Cache
<1>2. TipCoins' = TipCoins
  BY DEF TipCoins
<1>3. CASE Droppable(view[x])
  <2>1. view' \in Cache /\ view'[x] = none
        /\ \A y \in Txid : y # x => view'[y] = view[y]
    BY <1>1, <1>3 DEF TypeOK, Cache
  <2>2. TipCoins[x] = {} /\ view[x].coins = {}
    BY <1>1, <1>3 DEF Droppable, FlagsSound, ViewFlags
  <2>3. \A y \in Txid : ViewCoins'[y] = ViewCoins[y]
    BY <1>1, <1>2, <2>1, <2>2 DEF ViewCoins
  <2>4. ViewCoins' = ViewCoins
    BY <2>3 DEF ViewCoins
  <2>5. FlagsSound'
    BY <1>1, <1>2, <2>1 DEF FlagsSound, TipFlags, ViewFlags
  <2>6. TypeOK' /\ ViewScoped' /\ ModifiedDirty'
    BY <2>1 DEF TypeOK, ViewScoped, ModifiedDirty
  <2>7. QED
    BY <1>2, <2>4, <2>5, <2>6
<1>4. CASE ~Droppable(view[x])
  <2>1. view' = view
    BY <1>1, <1>4 DEF TypeOK, Cache
  <2>2. FlagsSound' /\ ViewCoins' = ViewCoins
    BY <1>2, <2>1 DEF FlagsSound, TipFlags, ViewFlags, ViewCoins
  <2>3. TypeOK' /\ ViewScoped' /\ ModifiedDirty'
    BY <2>1 DEF TypeOK, ViewScoped, ModifiedDirty
  <2>4. QED
    BY <1>2, <2>2, <2>3
<1>5. QED
  BY <1>3, <1>4

\* Without entries of its own the view shows what pcoinsTip shows.
LEMMA EmptyView ==
  ASSUME view = Empty
  PROVE  ViewFlags /\ ViewCoins = TipCoins
<1>1. \A x \in Txid : view[x] = none
  BY DEF Empty
<1>2. QED
  BY <1>1 DEF ViewFlags, ViewCoins, TipCoins

LEMMA EmptyIsCache == Empty \in Cache
  BY DEF Empty, Cache

\* What the database holds after a flush is what pcoinsTip showed.
LEMMA WrittenCoins ==
  ASSUME TypeOK, TipFlags
  PROVE  Written = TipCoins
<1>1. \A x \in Txid : Written[x] = TipCoins[x]
  BY DEF Written, TipCoins, TipFlags
<1>2. QED
  BY <1>1 DEF Written, TipCoins

-----------------------------------------------------------------------------
(***************************************************************************)
(* The invariant.                                                          *)
(***************************************************************************)
LEMMA NextInv == IInv /\ [Next]_vars => IInv'
<1> SUFFICES ASSUME IInv, [Next]_vars PROVE IInv'
  OBVIOUS
<1>1. CASE UNCHANGED vars
  <2>1. UNCHANGED <<db, dbBlock, tip, tipBlock, view, viewBlock, viewOpen, modifying,
                    aborting, errors>>
    BY <1>1 DEF vars, dbVars, tipVars, viewVars, failVars
  <2>2. QED
    BY <2>1 DEF IInv, TypeOK, FlagsSound, TipFlags, ViewFlags, ViewScoped, ModifiedDirty,
                TipCoins, Empty
<1>2. ASSUME NEW x \in Txid, ReadTip(x) \/ ReadView(x) \/ ModifyCoins(x) PROVE IInv'
  BY <1>2, ReadTipStep, ReadViewStep, ModifyCoinsStep
<1>3. ASSUME NEW c \in Coins, Change(c) PROVE IInv'
  BY <1>3, ChangeStep
<1>4. CASE EndModify
  BY <1>4, EndModifyStep
<1>5. ASSUME NEW h \in BlockId, SetBestBlock(h) PROVE IInv'
  <2> USE <1>5 DEF SetBestBlock, dbVars, tipVars, failVars, IInv
  <2>1. FlagsSound'
    BY DEF FlagsSound, TipFlags, ViewFlags, TipCoins
  <2>2. TypeOK' /\ ViewScoped' /\ ModifiedDirty'
    BY CoinsAssumption DEF TypeOK, ViewScoped, ModifiedDirty, CoinsAssumption
  <2>3. QED
    BY <2>1, <2>2
<1>6. CASE OpenView
  <2> USE <1>6 DEF OpenView, dbVars, failVars, IInv
  <2>1. BestOfTip \in BlockId
    BY DEF BestOfTip, TypeOK
  <2>2. FlagsSound'
    BY DEF FlagsSound, TipFlags, ViewFlags, TipCoins
  <2>3. TypeOK' /\ ViewScoped' /\ ModifiedDirty'
    BY <2>1, CoinsAssumption DEF TypeOK, ViewScoped, ModifiedDirty, CoinsAssumption
  <2>4. QED
    BY <2>2, <2>3
<1>7. CASE FlushView
  <2> USE <1>7 DEF FlushView, dbVars, failVars, IInv
  <2>1. tip' \in Cache /\ TipFlags'
    BY FlushViewStep
  <2>2. ViewFlags'
    BY DEF ViewFlags, Empty
  <2>3. TypeOK' /\ ViewScoped' /\ ModifiedDirty'
    BY <2>1, EmptyIsCache DEF TypeOK, ViewScoped, ModifiedDirty, Empty
  <2>4. QED
    BY <2>1, <2>2, <2>3 DEF FlagsSound
<1>8. CASE DropView
  <2> USE <1>8 DEF DropView, dbVars, tipVars, failVars, IInv
  <2>1. FlagsSound'
    BY DEF FlagsSound, TipFlags, ViewFlags, Empty
  <2>2. TypeOK' /\ ViewScoped' /\ ModifiedDirty'
    BY EmptyIsCache DEF TypeOK, ViewScoped, ModifiedDirty, Empty
  <2>3. QED
    BY <2>1, <2>2
<1>9. CASE FlushTip
  <2> USE <1>9 DEF FlushTip, viewVars, failVars, IInv
  <2>1. Written \in [Txid -> Coins]
    BY WrittenCoins, CoinsTyped DEF FlagsSound
  <2>2. view = Empty /\ view' = Empty
    BY DEF ViewScoped
  <2>3. FlagsSound'
    BY <2>2 DEF FlagsSound, TipFlags, ViewFlags, Empty
  <2>4. BlockWritten \in BlockId
    BY DEF BlockWritten, TypeOK
  <2>5. TypeOK' /\ ViewScoped' /\ ModifiedDirty'
    BY <2>1, <2>2, <2>4, EmptyIsCache DEF TypeOK, ViewScoped, ModifiedDirty, Empty
  <2>6. QED
    BY <2>3, <2>5
<1>10. CASE FlushFails
  <2> USE <1>10 DEF FlushFails, dbVars, viewVars, IInv
  <2>1. view = Empty /\ view' = Empty
    BY DEF ViewScoped
  <2>2. FlagsSound'
    BY <2>1 DEF FlagsSound, TipFlags, ViewFlags, Empty
  <2>3. TypeOK' /\ ViewScoped' /\ ModifiedDirty'
    BY <2>1, EmptyIsCache DEF TypeOK, ViewScoped, ModifiedDirty, Empty
  <2>4. QED
    BY <2>2, <2>3
<1>11. CASE Restart
  <2> USE <1>11 DEF Restart, dbVars, IInv
  <2>1. FlagsSound'
    BY DEF FlagsSound, TipFlags, ViewFlags, Empty
  <2>2. TypeOK' /\ ViewScoped' /\ ModifiedDirty'
    BY EmptyIsCache DEF TypeOK, ViewScoped, ModifiedDirty, Empty
  <2>3. QED
    BY <2>1, <2>2
<1>12. QED
  BY <1>1, <1>2, <1>3, <1>4, <1>5, <1>6, <1>7, <1>8, <1>9, <1>10, <1>11 DEF Next

(***************************************************************************)
(* IInv: types, the meaning of the flags, and what belongs to an open view *)
(* are invariant, also when the database refuses batches.                  *)
(***************************************************************************)
THEOREM CacheInvariant == Spec => []IInv
<1>1. Init => IInv
  <2> SUFFICES ASSUME Init PROVE IInv
    OBVIOUS
  <2>1. db \in [Txid -> Coins]
    BY DEF Init, Coins
  <2>2. TypeOK
    BY <2>1, EmptyIsCache DEF Init, TypeOK
  <2>3. FlagsSound
    BY DEF Init, FlagsSound, TipFlags, ViewFlags, Empty
  <2>4. ViewScoped /\ ModifiedDirty
    BY DEF Init, ViewScoped, ModifiedDirty
  <2>5. QED
    BY <2>2, <2>3, <2>4 DEF IInv
<1>2. QED
  BY <1>1, NextInv, PTL DEF Spec

(***************************************************************************)
(* DIRTY and FRESH mean what coins.h says, at every moment (FlagsSound).   *)
(***************************************************************************)
THEOREM FlagsAlwaysSound == Spec => [](TypeOK /\ FlagsSound)
<1>1. IInv => TypeOK /\ FlagsSound
  BY DEF IInv
<1>2. QED
  BY <1>1, CacheInvariant, PTL

(***************************************************************************)
(* CCoinsViewCache::BatchWrite never finds an entry that pcoinsTip does    *)
(* not have and that is not fresh (FreshAssert).                           *)
(***************************************************************************)
THEOREM BatchWriteNeverAsserts == Spec => []FreshAssert
<1>1. IInv => FreshAssert
  BY DEF IInv, FlagsSound, ViewFlags, FreshAssert
<1>2. QED
  BY <1>1, CacheInvariant, PTL

-----------------------------------------------------------------------------
(***************************************************************************)
(* Refinement.                                                             *)
(***************************************************************************)
LEMMA NextRefines ==
  ASSUME IInv, IInv', [Next]_vars
  PROVE  [Store!Next]_(Store!vars)
<1> USE DEF Store!vars, Store!onDisk, Store!inMemory, Store!onTop, Store!Next, IInv
<1>1. CASE UNCHANGED vars
  <2>1. UNCHANGED <<db, dbBlock, tip, tipBlock, view, viewBlock, modifying>>
    BY <1>1 DEF vars, dbVars, tipVars, viewVars
  <2>2. QED
    BY <2>1 DEF TipCoins, ViewCoins, BestOfTip, ViewBest
<1>2. ASSUME NEW x \in Txid, ReadTip(x) PROVE UNCHANGED Store!vars
  <2>1. TipCoins' = TipCoins /\ ViewCoins' = ViewCoins
    BY <1>2, ReadTipStep
  <2>2. BestOfTip' = BestOfTip
    BY <1>2, CoinsAssumption DEF ReadTip, dbVars, BestOfTip, CoinsAssumption
  <2>3. QED
    BY <1>2, <2>1, <2>2 DEF ReadTip, dbVars, viewVars, ViewBest
<1>3. ASSUME NEW x \in Txid, ReadView(x) PROVE UNCHANGED Store!vars
  <2>1. TipCoins' = TipCoins /\ ViewCoins' = ViewCoins
    BY <1>3, ReadViewStep
  <2>2. QED
    BY <1>3, <2>1 DEF ReadView, dbVars, ViewBest, BestOfTip
<1>4. ASSUME NEW x \in Txid, ModifyCoins(x) PROVE Store!Begin
  <2>1. TipCoins' = TipCoins /\ ViewCoins' = ViewCoins
    BY <1>4, ModifyCoinsStep
  <2>2. QED
    BY <1>4, <2>1 DEF ModifyCoins, dbVars, ViewBest, BestOfTip, Store!Begin
<1>5. ASSUME NEW c \in Coins, Change(c) PROVE Store!Edit
  <2>1. TipCoins' = TipCoins /\ ViewCoins' = [ViewCoins EXCEPT ![modifying] = c]
    BY <1>5, ChangeStep
  <2>2. QED
    BY <1>5, <2>1 DEF Change, dbVars, tipVars, ViewBest, BestOfTip, Coins,
                      Store!Edit, Store!Coins
<1>6. CASE EndModify
  <2>1. TipCoins' = TipCoins /\ ViewCoins' = ViewCoins
    BY <1>6, EndModifyStep
  <2>2. Store!End
    BY <1>6, <2>1 DEF EndModify, dbVars, tipVars, ViewBest, BestOfTip, Store!End
  <2>3. QED
    BY <2>2
<1>7. ASSUME NEW h \in BlockId, SetBestBlock(h) PROVE Store!Move
  BY <1>7, CoinsAssumption
     DEF SetBestBlock, dbVars, tipVars, TipCoins, ViewCoins, ViewBest, BestOfTip,
         CoinsAssumption, Store!Move
<1>8. CASE OpenView
  <2>1. viewBlock = none
    BY <1>8 DEF OpenView, ViewScoped
  <2>2. BestOfTip \in BlockId
    BY DEF BestOfTip, TypeOK
  <2>3. BestOfTip' = BestOfTip /\ ViewBest' = ViewBest
    BY <1>8, <2>1, <2>2, CoinsAssumption
       DEF OpenView, dbVars, BestOfTip, ViewBest, CoinsAssumption
  <2>4. QED
    BY <1>8, <2>3 DEF OpenView, dbVars, TipCoins, ViewCoins
<1>9. CASE FlushView
  <2>1. TipCoins' = ViewCoins
    BY <1>9, FlushViewStep
  <2>2. ViewCoins' = TipCoins'
    BY <1>9, EmptyView DEF FlushView, ViewCoins, TipCoins, Empty
  <2>3. viewBlock \in BlockId
    BY <1>9 DEF FlushView, ViewScoped, TypeOK
  <2>4. BestOfTip' = ViewBest /\ ViewBest' = ViewBest
    BY <1>9, <2>3, CoinsAssumption DEF FlushView, dbVars, BestOfTip, ViewBest, CoinsAssumption
  <2>5. Store!Commit
    BY <1>9, <2>1, <2>2, <2>4 DEF FlushView, dbVars, Store!Commit
  <2>6. QED
    BY <2>5
<1>10. CASE DropView
  <2>1. TipCoins' = TipCoins
    BY <1>10 DEF DropView, dbVars, tipVars, TipCoins
  <2>2. ViewCoins' = TipCoins'
    BY <1>10 DEF DropView, ViewCoins, TipCoins, Empty
  <2>3. BestOfTip' = BestOfTip /\ ViewBest' = BestOfTip
    BY <1>10 DEF DropView, dbVars, tipVars, BestOfTip, ViewBest
  <2>4. Store!Discard
    BY <1>10, <2>1, <2>2, <2>3 DEF DropView, dbVars, Store!Discard
  <2>5. QED
    BY <2>4
<1>11. CASE FlushTip
  <2>1. view = Empty /\ view' = Empty /\ viewBlock = none /\ viewBlock' = none
    BY <1>11 DEF FlushTip, viewVars, ViewScoped
  <2>2. db' = TipCoins
    BY <1>11, WrittenCoins DEF FlushTip, FlagsSound
  <2>3. TipCoins' = db'
    BY <1>11 DEF FlushTip, TipCoins, Empty, TypeOK
  <2>4. ViewCoins' = TipCoins' /\ ViewCoins = TipCoins
    BY <2>1 DEF ViewCoins, TipCoins, Empty
  <2>5. dbBlock' = BestOfTip /\ BestOfTip' = BestOfTip /\ ViewBest' = ViewBest
    BY <1>11, <2>1 DEF FlushTip, BlockWritten, BestOfTip, ViewBest
  <2>6. Store!Persist
    BY <1>11, <2>2, <2>3, <2>4, <2>5 DEF FlushTip, viewVars, Store!Persist
  <2>7. QED
    BY <2>6
<1>12. CASE FlushFails
  <2>1. view = Empty /\ view' = Empty /\ viewBlock = none /\ viewBlock' = none
        /\ modifying = none
    BY <1>12 DEF FlushFails, viewVars, ViewScoped
  <2>2. TipCoins' = db /\ ViewCoins' = db
    BY <1>12, <2>1 DEF FlushFails, dbVars, TipCoins, ViewCoins, Empty, TypeOK
  <2>3. BestOfTip' = BestOfTip /\ ViewBest' = ViewBest
    BY <1>12, <2>1 DEF FlushFails, dbVars, BestOfTip, ViewBest
  <2>4. Store!Lose
    BY <1>12, <2>1, <2>2, <2>3 DEF FlushFails, dbVars, viewVars, Store!Lose
  <2>5. QED
    BY <2>4
<1>13. CASE Restart
  <2>1. TipCoins' = db /\ ViewCoins' = db
    BY <1>13 DEF Restart, dbVars, TipCoins, ViewCoins, Empty, TypeOK
  <2>2. BestOfTip' = dbBlock /\ ViewBest' = dbBlock
    BY <1>13 DEF Restart, dbVars, BestOfTip, ViewBest
  <2>3. Store!Crash
    BY <1>13, <2>1, <2>2 DEF Restart, dbVars, Store!Crash
  <2>4. QED
    BY <2>3
<1>14. QED
  BY <1>1, <1>2, <1>3, <1>4, <1>5, <1>6, <1>7, <1>8, <1>9, <1>10, <1>11, <1>12, <1>13
     DEF Next

(***************************************************************************)
(* The caches show what plain copies of the coins would (ImplementsStore), *)
(* through every fetch, every modification, every flush of either cache,   *)
(* every refused batch and every restart.                                  *)
(***************************************************************************)
THEOREM CachesImplementStore == Spec => ImplementsStore
<1>1. Init => Store!Init
  BY DEF Init, TipCoins, ViewCoins, BestOfTip, ViewBest, Empty, Store!Init
<1>2. IInv /\ IInv' /\ [Next]_vars => [Store!Next]_(Store!vars)
  BY NextRefines
<1>3. QED
  BY <1>1, <1>2, CacheInvariant, PTL DEF Spec, ImplementsStore, Store!Spec
=============================================================================
