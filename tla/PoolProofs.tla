----------------------------- MODULE PoolProofs ------------------------------
(***************************************************************************)
(* Proofs about Mempool and the two modules that extend it, SwiftLocks and *)
(* Wallet.                                                                 *)
(*                                                                         *)
(* Mempool alone: its types (TypesCorrect), that the pool can be mined on  *)
(* top of the chain (PoolCorrect), that what a disconnected block held     *)
(* comes back (DisconnectCorrect), and that an accepted transaction takes  *)
(* its orphans along (OrphansCorrect).                                     *)
(*                                                                         *)
(* With the locks of SwiftLocks, by the same lemmas about the handlers of  *)
(* the pool: its types (SwiftTypesCorrect), that a masternode's vote       *)
(* counts once (VotesCorrect), that votes lock what is locked              *)
(* (ConsensusCorrect), that a lock keeps rivals out (RivalsCorrect) and    *)
(* that the pool stays minable (PoolStaysMinable).                         *)
(*                                                                         *)
(* With the wallet: its types (WalletTypesCorrect), that it knows what is  *)
(* in the chain (WalletFollows), that it offers just the coins that can be *)
(* spent (WalletOffers) and caches no credit that is gone (WalletCredits), *)
(* as long as no crash but the first is a Relapse; and all of it without   *)
(* that condition while there is one crash at most (WalletCorrect).        *)
(***************************************************************************)
EXTENDS SwiftLocks, Wallet, FiniteSetTheorems, WellFoundedInduction, TLAPS

-----------------------------------------------------------------------------
(***************************************************************************)
(* Functions that are defined along a sequence.                            *)
(***************************************************************************)

\* A set of natural numbers that is not empty has a least element.
LEMMA SmallestNumber ==
  ASSUME NEW S \in SUBSET Nat, S # {}
  PROVE  \E n \in S : \A m \in S : n <= m
<1> DEFINE R == {e \in Nat \X Nat : e[1] < e[2]}
<1>1. IsWellFoundedOn(R, Nat)
  BY NatLessThanWellFounded DEF OpToRel
<1>2. \A x, y \in Nat : <<y, x>> \in R <=> y < x
  OBVIOUS
<1> HIDE DEF R
<1>3. PICK n \in S : \A m \in S : <<m, n>> \notin R
  BY <1>1, WFMin
<1>4. \A m \in S : n \in Nat /\ m \in Nat /\ ~(m < n)
  BY <1>2, <1>3
<1> QED  BY <1>4

\* g[i] is what F makes of p and the first i elements of s, one after the other.
IsResults(g, D, F, p, s) ==
  /\ g \in [0 .. Len(s) -> D]
  /\ g[0] = p
  /\ \A i \in 1 .. Len(s) : g[i] = F[<<g[i - 1], s[i]>>]

\* Such results exist.
LEMMA ResultsExist ==
  ASSUME NEW D, NEW T, NEW F \in [D \X T -> D], NEW p \in D, NEW s \in Seq(T)
  PROVE  \E g : IsResults(g, D, F, p, s)
<1> DEFINE Good(n) == \E g \in [0 .. n -> D] :
                         g[0] = p /\ \A i \in 1 .. n : g[i] = F[<<g[i - 1], s[i]>>]
           Bad == {n \in 0 .. Len(s) : ~Good(n)}
<1>1. SUFFICES Bad = {}
  <2>1. SUFFICES ASSUME Bad = {} PROVE \E g : IsResults(g, D, F, p, s)
    OBVIOUS
  <2>2. Len(s) \in 0 .. Len(s)
    OBVIOUS
  <2>3. Good(Len(s))
    BY <2>1, <2>2
  <2> HIDE DEF Bad
  <2> QED  BY <2>3 DEF IsResults
<1>2. SUFFICES ASSUME Bad # {} PROVE FALSE
  OBVIOUS
<1>3. PICK n \in Bad : \A m \in Bad : n <= m
  <2>1. Bad \in SUBSET Nat  OBVIOUS
  <2> HIDE DEF Bad
  <2> QED  BY <1>2, <2>1, SmallestNumber
<1>4. n # 0
  <2>1. SUFFICES Good(0)
    BY <1>3
  <2> DEFINE g == [i \in 0 .. 0 |-> p]
  <2>2. g \in [0 .. 0 -> D] /\ g[0] = p /\ 1 .. 0 = {}  OBVIOUS
  <2> QED  BY <2>2
<1>5. n - 1 \in 0 .. Len(s) /\ n \in 1 .. Len(s)
  BY <1>3, <1>4
<1>6. Good(n - 1)
  <2>1. ~Good(n - 1) => n <= n - 1
    BY <1>3, <1>5
  <2>2. ~(n <= n - 1)
    BY <1>5
  <2> QED  BY <2>1, <2>2
<1>7. PICK h \in [0 .. n - 1 -> D] :
        h[0] = p /\ \A i \in 1 .. n - 1 : h[i] = F[<<h[i - 1], s[i]>>]
  BY <1>6
<1> DEFINE g == [i \in 0 .. n |-> IF i = n THEN F[<<h[n - 1], s[n]>>] ELSE h[i]]
<1>8. F[<<h[n - 1], s[n]>>] \in D
  BY <1>5, <1>7
<1>9. g \in [0 .. n -> D]
  BY <1>5, <1>7, <1>8
<1>10. g[0] = p
  BY <1>5, <1>7
<1>11. \A i \in 1 .. n : g[i] = F[<<g[i - 1], s[i]>>]
  <2>1. SUFFICES ASSUME NEW i \in 1 .. n PROVE g[i] = F[<<g[i - 1], s[i]>>]
    OBVIOUS
  <2>2. i - 1 \in 0 .. n - 1 /\ i - 1 # n /\ i \in 0 .. n /\ i - 1 \in 0 .. n
    BY <1>5
  <2>3. g[i - 1] = h[i - 1]
    BY <2>2
  <2>4. CASE i = n
    BY <2>2, <2>3, <2>4
  <2>5. CASE i # n
    <3>1. i \in 1 .. n - 1
      BY <1>5, <2>5
    <3> QED  BY <1>7, <2>2, <2>3, <2>5, <3>1
  <2> QED  BY <2>4, <2>5
<1>12. Good(n)
  BY <1>9, <1>10, <1>11
<1> QED  BY <1>3, <1>12
-----------------------------------------------------------------------------
(***************************************************************************)
(* CTxMemPool.                                                             *)
(***************************************************************************)
Spends == UNION {[S -> Tx] : S \in SUBSET (Tx \X Nat)}
Pools == [mapTx : SUBSET Tx, mapNextTx : Spends]

\* Transactions that AcceptToMemoryPool considers, but for IsStandardTx.
Ordinary == Tx \ (Funding \cup Generated)

\* mapNextTx says exactly who spends what.
Exact(p) ==
  /\ DOMAIN p.mapNextTx = UNION {Inputs[t] : t \in p.mapTx}
  /\ \A t \in p.mapTx : \A o \in Inputs[t] : p.mapNextTx[o] = t

Sound(p) == p \in Pools /\ p.mapTx \subseteq Ordinary /\ Exact(p)

\* The inputs of a transaction are outputs of transactions.
LEMMA InputsType ==
  ASSUME NEW t \in Tx, NEW o \in Inputs[t]
  PROVE  o \in Tx \X Nat /\ o[1] \in Tx /\ o[2] \in 1 .. Outputs[o[1]] /\ o = <<o[1], o[2]>>
BY MempoolAssumption

\* A function between the outputs and the transactions is a mapNextTx.
LEMMA SpendsType ==
  ASSUME NEW S, NEW f, f = [x \in S |-> f[x]],
         S \subseteq Tx \X Nat, \A x \in S : f[x] \in Tx
  PROVE  f \in Spends
<1>1. f \in [S -> Tx]
  OBVIOUS
<1> QED  BY <1>1 DEF Spends

\* What mapNextTx is.
LEMMA SpendsIs ==
  ASSUME NEW p \in Pools
  PROVE  /\ p.mapTx \subseteq Tx
         /\ DOMAIN p.mapNextTx \subseteq Tx \X Nat
         /\ \A o \in DOMAIN p.mapNextTx : p.mapNextTx[o] \in Tx
         /\ p = [mapTx |-> p.mapTx, mapNextTx |-> p.mapNextTx]
<1>1. p.mapNextTx \in Spends /\ p.mapTx \in SUBSET Tx
  BY DEF Pools
<1>2. PICK S \in SUBSET (Tx \X Nat) : p.mapNextTx \in [S -> Tx]
  BY <1>1 DEF Spends
<1> QED  BY <1>1, <1>2 DEF Pools

\* addUnchecked yields a pool.
LEMMA AddType ==
  ASSUME NEW p \in Pools, NEW t \in Tx
  PROVE  AddUnchecked(p, t) \in Pools /\ AddUnchecked(p, t).mapTx = p.mapTx \cup {t}
<1> DEFINE S == DOMAIN p.mapNextTx \cup Inputs[t]
           f == [o \in S |-> IF o \in Inputs[t] THEN t ELSE p.mapNextTx[o]]
<1>1. S \subseteq Tx \X Nat
  BY SpendsIs, InputsType
<1>2. \A x \in S : f[x] \in Tx
  BY SpendsIs
<1>3. f = [x \in S |-> f[x]]
  OBVIOUS
<1>4. f \in Spends
  <2> HIDE DEF S, f
  <2> QED  BY <1>1, <1>2, <1>3, SpendsType
<1>5. AddUnchecked(p, t) = [mapTx |-> p.mapTx \cup {t}, mapNextTx |-> f]
  BY DEF AddUnchecked
<1> QED
  <2> HIDE DEF f
  <2> QED  BY <1>4, <1>5, SpendsIs DEF Pools

\* So does the removal of any transactions.
LEMMA WithoutType ==
  ASSUME NEW p \in Pools, NEW S
  PROVE  Without(p, S) \in Pools /\ Without(p, S).mapTx = p.mapTx \ S
<1> DEFINE D == DOMAIN p.mapNextTx \ UNION {Inputs[t] : t \in S \cap p.mapTx}
           f == Restricted(p.mapNextTx, D)
<1>1. f = [x \in D \cap DOMAIN p.mapNextTx |-> p.mapNextTx[x]]
  BY DEF Restricted
<1>2. f \in Spends
  <2>1. D \cap DOMAIN p.mapNextTx \subseteq Tx \X Nat
    BY SpendsIs
  <2>2. \A x \in D \cap DOMAIN p.mapNextTx : p.mapNextTx[x] \in Tx
    BY SpendsIs
  <2> HIDE DEF f, D
  <2>3. f = [x \in D \cap DOMAIN p.mapNextTx |-> f[x]] /\ \A x \in D \cap DOMAIN p.mapNextTx : f[x] \in Tx
    BY <1>1, <2>2
  <2> QED  BY <2>1, <2>3, SpendsType
<1>3. Without(p, S) = [mapTx |-> p.mapTx \ S, mapNextTx |-> f]
  BY DEF Without
<1> QED
  <2> HIDE DEF f
  <2> QED  BY <1>2, <1>3, SpendsIs DEF Pools

\* A transaction that spends what no member of the pool spends may come in.
LEMMA AddSound ==
  ASSUME NEW p, Sound(p), NEW t \in Ordinary, Inputs[t] \cap DOMAIN p.mapNextTx = {}
  PROVE  Sound(AddUnchecked(p, t))
<1> DEFINE q == AddUnchecked(p, t)
<1>1. q \in Pools /\ q.mapTx = p.mapTx \cup {t} /\ q.mapTx \subseteq Ordinary
  BY AddType DEF Sound, Ordinary
<1>2. /\ DOMAIN q.mapNextTx = DOMAIN p.mapNextTx \cup Inputs[t]
      /\ \A o \in Inputs[t] : q.mapNextTx[o] = t
      /\ \A o \in DOMAIN p.mapNextTx : q.mapNextTx[o] = p.mapNextTx[o]
  BY DEF AddUnchecked
<1> HIDE DEF q
<1>3. DOMAIN q.mapNextTx = UNION {Inputs[x] : x \in q.mapTx}
  BY <1>1, <1>2 DEF Sound, Exact
<1>4. ASSUME NEW x \in q.mapTx, NEW o \in Inputs[x] PROVE q.mapNextTx[o] = x
  <2>1. CASE x = t
    BY <1>2, <2>1
  <2>2. CASE x \in p.mapTx
    BY <1>2, <2>2 DEF Sound, Exact
  <2> QED  BY <1>1, <2>1, <2>2
<1>5. Sound(q)
  BY <1>1, <1>3, <1>4 DEF Sound, Exact
<1> QED  BY <1>5 DEF q

\* Any members may be taken out.
LEMMA WithoutSound ==
  ASSUME NEW p, Sound(p), NEW S
  PROVE  Sound(Without(p, S)) /\ Without(p, S).mapTx = p.mapTx \ S
<1> DEFINE q == Without(p, S)
<1>1. q \in Pools /\ q.mapTx = p.mapTx \ S
  BY WithoutType DEF Sound
<1>2. /\ DOMAIN q.mapNextTx = DOMAIN p.mapNextTx \ UNION {Inputs[t] : t \in S \cap p.mapTx}
      /\ \A o \in DOMAIN q.mapNextTx : q.mapNextTx[o] = p.mapNextTx[o]
  BY DEF Without, Restricted
<1> HIDE DEF q
<1>3. \A x, y \in p.mapTx : \A o \in Inputs[x] : o \in Inputs[y] => x = y
  BY DEF Sound, Exact
<1>4. DOMAIN q.mapNextTx = UNION {Inputs[x] : x \in q.mapTx}
  BY <1>1, <1>2, <1>3 DEF Sound, Exact
<1>5. ASSUME NEW x \in q.mapTx, NEW o \in Inputs[x] PROVE q.mapNextTx[o] = x
  BY <1>1, <1>2, <1>4 DEF Sound, Exact
<1>6. Sound(q)
  BY <1>1, <1>4, <1>5 DEF Sound, Exact
<1> QED  BY <1>1, <1>6 DEF q

\* A transaction is one of its descendants, which are members of the pool else.
LEMMA DescendantsOf ==
  ASSUME NEW p, NEW t
  PROVE  t \in Descendants(p, t) /\ Descendants(p, t) \subseteq p.mapTx \cup {t}
BY DEF Descendants

\* What spends an output of a descendant is a descendant.
LEMMA DescendantsClosed ==
  ASSUME NEW p, Sound(p), NEW t, NEW u \in p.mapTx, NEW o \in Inputs[u],
         o[1] \in Descendants(p, t)
  PROVE  u \in Descendants(p, t)
<1>1. u = p.mapNextTx[o] /\ o \in DOMAIN p.mapNextTx
  BY DEF Sound, Exact
<1>2. SUFFICES ASSUME NEW S \in SUBSET (p.mapTx \cup {t}), t \in S, Children(p, S) \subseteq S
               PROVE  u \in S
  BY DEF Descendants
<1>3. o[1] \in S
  BY <1>2 DEF Descendants
<1> QED  BY <1>1, <1>2, <1>3 DEF Children

\* Every descendant but the transaction itself spends an output of one.
LEMMA DescendantsSpend ==
  ASSUME NEW p, Sound(p), NEW t, NEW d \in Descendants(p, t), d # t
  PROVE  \E o \in Inputs[d] : o[1] \in Descendants(p, t)
<1> DEFINE S == Descendants(p, t) \ {d}
<1>1. SUFFICES ASSUME \A o \in Inputs[d] : o[1] \notin Descendants(p, t) PROVE FALSE
  OBVIOUS
<1>2. t \in S /\ S \in SUBSET (p.mapTx \cup {t})
  BY DescendantsOf
<1>3. ~(Children(p, S) \subseteq S)
  <2>1. d \notin S
    OBVIOUS
  <2> HIDE DEF S
  <2> QED  BY <1>2, <2>1 DEF Descendants
<1>4. PICK o \in DOMAIN p.mapNextTx : o[1] \in S /\ p.mapNextTx[o] \notin S
  BY <1>3 DEF Children
<1>5. PICK u \in p.mapTx : o \in Inputs[u]
  BY <1>4 DEF Sound, Exact
<1>6. p.mapNextTx[o] = u
  BY <1>5 DEF Sound, Exact
<1>7. u \in Descendants(p, t)
  BY <1>4, <1>5, DescendantsClosed
<1>8. u = d
  BY <1>4, <1>6, <1>7
<1> QED  BY <1>1, <1>4, <1>5, <1>8
\* Removing transactions with all that descends from them leaves no member
\* without a parent it had in the pool.
LEMMA RemoveFamilies ==
  ASSUME NEW p, Sound(p), NEW X, NEW q,
         q = Without(p, UNION {Descendants(p, x) : x \in X})
  PROVE  /\ Sound(q)
         /\ q.mapTx \subseteq p.mapTx \ X
         /\ \A u \in q.mapTx : \A o \in Inputs[u] : o[1] \notin X /\ (o[1] \in p.mapTx => o[1] \in q.mapTx)
         /\ \A d \in p.mapTx \ q.mapTx : d \in X \/ \E o \in Inputs[d] : o[1] \in (X \cup p.mapTx) \ q.mapTx
<1> DEFINE S == UNION {Descendants(p, x) : x \in X}
<1>1. Sound(q) /\ q.mapTx = p.mapTx \ S
  BY WithoutSound
<1>2. X \subseteq S /\ S \subseteq p.mapTx \cup X
  BY DescendantsOf
<1>3. \A u \in p.mapTx : \A o \in Inputs[u] : o[1] \in S => u \in S
  BY DescendantsClosed
<1>4. \A d \in S : d \in X \/ \E o \in Inputs[d] : o[1] \in S
  BY DescendantsSpend
<1> HIDE DEF S
<1> QED  BY <1>1, <1>2, <1>3, <1>4

\* remove(t, TRUE).
LEMMA RemoveRecursivelyLeaves ==
  ASSUME NEW p, Sound(p), NEW t, NEW q, q = RemoveRecursively(p, t)
  PROVE  /\ Sound(q)
         /\ q.mapTx \subseteq p.mapTx \ {t}
         /\ \A u \in q.mapTx : \A o \in Inputs[u] : o[1] # t /\ (o[1] \in p.mapTx => o[1] \in q.mapTx)
         /\ \A d \in p.mapTx \ q.mapTx : d = t \/ \E o \in Inputs[d] : o[1] \in ({t} \cup p.mapTx) \ q.mapTx
<1>1. Descendants(p, t) = UNION {Descendants(p, x) : x \in {t}}
  OBVIOUS
<1>2. q = Without(p, UNION {Descendants(p, x) : x \in {t}})
  BY <1>1 DEF RemoveRecursively
<1>3. \A d : d \in {t} <=> d = t
  OBVIOUS
<1> DEFINE X == {t}
<1>4. q = Without(p, UNION {Descendants(p, x) : x \in X}) /\ \A d : d \in X <=> d = t
  BY <1>2
<1> HIDE DEF X
<1>5. /\ Sound(q)
      /\ q.mapTx \subseteq p.mapTx \ X
      /\ \A u \in q.mapTx : \A o \in Inputs[u] : o[1] \notin X /\ (o[1] \in p.mapTx => o[1] \in q.mapTx)
      /\ \A d \in p.mapTx \ q.mapTx : d \in X \/ \E o \in Inputs[d] : o[1] \in (X \cup p.mapTx) \ q.mapTx
  BY <1>4, RemoveFamilies
<1> QED  BY <1>4, <1>5

\* removeConflicts(t), for a t that is not in the pool.
LEMMA RemoveConflictsLeaves ==
  ASSUME NEW p, Sound(p), NEW t, t \notin p.mapTx, NEW q, q = RemoveConflicts(p, t)
  PROVE  /\ Sound(q)
         /\ q.mapTx \subseteq p.mapTx
         /\ \A u \in q.mapTx : Inputs[u] \cap Inputs[t] = {}
         /\ \A u \in q.mapTx : \A o \in Inputs[u] : o[1] \in p.mapTx => o[1] \in q.mapTx
<1> DEFINE X == {p.mapNextTx[o] : o \in Inputs[t] \cap DOMAIN p.mapNextTx} \ {t}
<1>1. q = Without(p, UNION {Descendants(p, x) : x \in X})
  BY DEF RemoveConflicts
<1>2. \A u \in p.mapTx : Inputs[u] \cap Inputs[t] # {} => u \in X
  BY DEF Sound, Exact
<1> HIDE DEF X
<1>3. /\ Sound(q)
      /\ q.mapTx \subseteq p.mapTx \ X
      /\ \A u \in q.mapTx : \A o \in Inputs[u] : o[1] \notin X /\ (o[1] \in p.mapTx => o[1] \in q.mapTx)
  BY <1>1, RemoveFamilies
<1> QED  BY <1>2, <1>3

\* Both yield pools, even where they are not exact.
LEMMA RemoveTypes ==
  ASSUME NEW p \in Pools, NEW t
  PROVE  /\ RemoveRecursively(p, t) \in Pools /\ RemoveRecursively(p, t).mapTx \subseteq p.mapTx
         /\ RemoveConflicts(p, t) \in Pools /\ RemoveConflicts(p, t).mapTx \subseteq p.mapTx
BY WithoutType DEF RemoveRecursively, RemoveConflicts

-----------------------------------------------------------------------------
(***************************************************************************)
(* The pool while the transactions of a block are taken from it, or come   *)
(* back to it, one after the other.                                        *)
(***************************************************************************)
Connected(p, t) == RemoveConflicts(Without(p, {t}), t)

\* removeForBlock goes through the pools g[0] to g[Len(vtx)].
LEMMA RemoveForBlockSteps ==
  ASSUME NEW p \in Pools, NEW vtx \in Seq(Tx)
  PROVE  \E g \in [0 .. Len(vtx) -> Pools] :
           /\ g[0] = p /\ g[Len(vtx)] = RemoveForBlock(p, vtx)
           /\ \A i \in 1 .. Len(vtx) : g[i] = Connected(g[i - 1], vtx[i])
<1> DEFINE F == [e \in Pools \X Tx |-> Connected(e[1], e[2])]
<1>1. F \in [Pools \X Tx -> Pools]
  <2>1. \A q \in Pools, t \in Tx : Connected(q, t) \in Pools
    BY WithoutType, RemoveTypes DEF Connected
  <2> QED  BY <2>1
<1>2. PICK g \in [0 .. Len(vtx) -> Pools] :
        g[0] = p /\ \A i \in 1 .. Len(vtx) : g[i] = F[<<g[i - 1], vtx[i]>>]
  <2> HIDE DEF F
  <2>1. p \in Pools /\ vtx \in Seq(Tx)
    OBVIOUS
  <2>2. \E g : IsResults(g, Pools, F, p, vtx)
    BY <1>1, <2>1, ResultsExist
  <2> QED  BY <2>2 DEF IsResults
<1>3. \A i \in 1 .. Len(vtx) : g[i] = Connected(g[i - 1], vtx[i])
  <2>1. SUFFICES ASSUME NEW i \in 1 .. Len(vtx) PROVE g[i] = Connected(g[i - 1], vtx[i])
    OBVIOUS
  <2>2. g[i - 1] \in Pools /\ vtx[i] \in Tx
    OBVIOUS
  <2> QED  BY <1>2, <2>2
<1> DEFINE Left(f) == f = [i \in 0 .. Len(vtx) |-> IF i = 0 THEN p
                             ELSE RemoveConflicts(Without(f[i - 1], {vtx[i]}), vtx[i])]
           h == CHOOSE f : Left(f)
<1>4. Left(g)
  BY <1>2, <1>3 DEF Connected
<1>5. Left(h)
  BY <1>4
<1>6. h = g
  <2> DEFINE Other == {i \in 0 .. Len(vtx) : h[i] # g[i]}
  <2>1. SUFFICES Other = {}
    BY <1>4, <1>5
  <2>2. SUFFICES ASSUME Other # {} PROVE FALSE
    OBVIOUS
  <2>3. PICK i \in Other : \A m \in Other : i <= m
    <3>1. Other \in SUBSET Nat  OBVIOUS
    <3> HIDE DEF Other
    <3> QED  BY <2>2, <3>1, SmallestNumber
  <2>4. i # 0
    BY <1>4, <1>5
  <2>5. i \in 1 .. Len(vtx) /\ i - 1 \in 0 .. Len(vtx) /\ ~(i <= i - 1)
    BY <2>4
  <2>6. h[i - 1] = g[i - 1]
    BY <2>3, <2>5
  <2> QED  BY <1>4, <1>5, <2>4, <2>5, <2>6
<1>7. RemoveForBlock(p, vtx) = h[Len(vtx)]
  BY DEF RemoveForBlock
<1> HIDE DEF h
<1> QED  BY <1>2, <1>3, <1>6, <1>7

\* g[i] is the pool after the first i transactions of a block came back.
Resurrections(g, c, p, vtx, refused) ==
  /\ g \in [0 .. Len(vtx) -> Pools]
  /\ g[0] = p /\ g[Len(vtx)] = Resurrected(c, p, vtx, refused)
  /\ \A i \in 1 .. Len(vtx) : g[i] = Resurrect(c, g[i - 1], vtx[i], refused)

\* Resurrected goes through such pools.
LEMMA ResurrectedSteps ==
  ASSUME NEW c, NEW p \in Pools, NEW vtx \in Seq(Tx), NEW refused
  PROVE  \E g : Resurrections(g, c, p, vtx, refused)
<1> DEFINE F == [e \in Pools \X Tx |-> Resurrect(c, e[1], e[2], refused)]
<1>1. F \in [Pools \X Tx -> Pools]
  <2>1. \A q \in Pools, t \in Tx : Resurrect(c, q, t, refused) \in Pools
    BY AddType, RemoveTypes DEF Resurrect
  <2> QED  BY <2>1
<1>2. PICK g \in [0 .. Len(vtx) -> Pools] :
        g[0] = p /\ \A i \in 1 .. Len(vtx) : g[i] = F[<<g[i - 1], vtx[i]>>]
  <2> HIDE DEF F
  <2>1. p \in Pools /\ vtx \in Seq(Tx)
    OBVIOUS
  <2>2. \E g : IsResults(g, Pools, F, p, vtx)
    BY <1>1, <2>1, ResultsExist
  <2> QED  BY <2>2 DEF IsResults
<1>3. \A i \in 1 .. Len(vtx) : g[i] = Resurrect(c, g[i - 1], vtx[i], refused)
  <2>1. SUFFICES ASSUME NEW i \in 1 .. Len(vtx) PROVE g[i] = Resurrect(c, g[i - 1], vtx[i], refused)
    OBVIOUS
  <2>2. g[i - 1] \in Pools /\ vtx[i] \in Tx
    OBVIOUS
  <2> QED  BY <1>2, <2>2
<1> DEFINE After(f) == f = [i \in 0 .. Len(vtx) |-> IF i = 0 THEN p ELSE Resurrect(c, f[i - 1], vtx[i], refused)]
           h == CHOOSE f : After(f)
<1>4. After(g)
  BY <1>2, <1>3
<1>5. After(h)
  BY <1>4
<1>6. h = g
  <2> DEFINE Other == {i \in 0 .. Len(vtx) : h[i] # g[i]}
  <2>1. SUFFICES Other = {}
    BY <1>4, <1>5
  <2>2. SUFFICES ASSUME Other # {} PROVE FALSE
    OBVIOUS
  <2>3. PICK i \in Other : \A m \in Other : i <= m
    <3>1. Other \in SUBSET Nat  OBVIOUS
    <3> HIDE DEF Other
    <3> QED  BY <2>2, <3>1, SmallestNumber
  <2>4. i # 0
    BY <1>4, <1>5
  <2>5. i \in 1 .. Len(vtx) /\ i - 1 \in 0 .. Len(vtx) /\ ~(i <= i - 1)
    BY <2>4
  <2>6. h[i - 1] = g[i - 1]
    BY <2>3, <2>5
  <2> QED  BY <1>4, <1>5, <2>4, <2>5, <2>6
<1>7. Resurrected(c, p, vtx, refused) = h[Len(vtx)]
  BY DEF Resurrected
<1> HIDE DEF h
<1> QED  BY <1>2, <1>3, <1>6, <1>7 DEF Resurrections
-----------------------------------------------------------------------------
(***************************************************************************)
(* Chains.                                                                 *)
(***************************************************************************)
Chains == Seq(Seq(Tx))

\* Every block is one that ConnectBlock accepts on top of those below it.
ChainValid(c) == c \in Chains /\ \A i \in DOMAIN c : ValidBlock(SubSeq(c, 1, i - 1), c[i])

\* What a longer chain holds.
LEMMA MinedAppend ==
  ASSUME NEW c \in Chains, NEW vtx \in Seq(Tx)
  PROVE  Mined(Append(c, vtx)) = Mined(c) \cup Range(vtx)
<1> DEFINE a == Append(c, vtx)
<1>1. /\ DOMAIN a = DOMAIN c \cup {Len(c) + 1}
      /\ a[Len(c) + 1] = vtx /\ \A i \in DOMAIN c : a[i] = c[i]
  BY DEF Chains
<1> HIDE DEF a
<1>2. Mined(a) = Mined(c) \cup Range(vtx)
  BY <1>1 DEF Mined
<1> QED  BY <1>2 DEF a

\* What the blocks up to a height hold.
LEMMA MinedPrefix ==
  ASSUME NEW c \in Chains, NEW n \in 0 .. Len(c)
  PROVE  /\ SubSeq(c, 1, n) \in Chains
         /\ \A i \in 1 .. n : Range(c[i]) \subseteq Mined(SubSeq(c, 1, n))
         /\ Mined(SubSeq(c, 1, n)) \subseteq Mined(c)
<1> DEFINE a == SubSeq(c, 1, n)
<1>1. a \in Chains /\ DOMAIN a = 1 .. n /\ \A i \in 1 .. n : a[i] = c[i]
  BY DEF Chains
<1>2. 1 .. n \subseteq DOMAIN c
  BY DEF Chains
<1> HIDE DEF a
<1>3. /\ a \in Chains
      /\ \A i \in 1 .. n : Range(c[i]) \subseteq Mined(a)
      /\ Mined(a) \subseteq Mined(c)
  BY <1>1, <1>2 DEF Mined
<1> QED  BY <1>3 DEF a

\* The first transactions of a block.
LEMMA RangePrefix ==
  ASSUME NEW vtx \in Seq(Tx), NEW n \in 0 .. Len(vtx)
  PROVE  /\ SubSeq(vtx, 1, n) \in Seq(Tx)
         /\ \A t : t \in Range(SubSeq(vtx, 1, n)) <=> \E j \in 1 .. n : t = vtx[j]
<1> DEFINE a == SubSeq(vtx, 1, n)
<1>1. a \in Seq(Tx) /\ DOMAIN a = 1 .. n /\ \A i \in 1 .. n : a[i] = vtx[i]
  OBVIOUS
<1> HIDE DEF a
<1>2. a \in Seq(Tx) /\ \A t : t \in Range(a) <=> \E j \in 1 .. n : t = vtx[j]
  BY <1>1 DEF Range
<1> QED  BY <1>2 DEF a

\* What ValidBlock says of a block's transactions, in terms of the chain below
\* and of the transactions before.
LEMMA ValidBlockIs ==
  ASSUME NEW c \in Chains, NEW vtx \in Seq(Tx), ValidBlock(c, vtx), NEW k \in DOMAIN vtx
  PROVE  /\ vtx[k] \in Tx /\ vtx[k] \notin Confirmed(c)
         /\ \A j \in 1 .. k - 1 : vtx[j] # vtx[k]
         /\ \A o \in Inputs[vtx[k]] :
              /\ o[1] \in Confirmed(c) \/ \E j \in 1 .. k - 1 : o[1] = vtx[j]
              /\ \A t \in Mined(c) : o \notin Inputs[t]
              /\ \A j \in 1 .. k - 1 : o \notin Inputs[vtx[j]]
<1> DEFINE v == SubSeq(vtx, 1, k - 1)
           before == Append(c, v)
<1>1. k - 1 \in 0 .. Len(vtx) /\ vtx[k] \in Tx
  OBVIOUS
<1>2. v \in Seq(Tx) /\ \A t : t \in Range(v) <=> \E j \in 1 .. k - 1 : t = vtx[j]
  BY <1>1, RangePrefix
<1>3. Mined(before) = Mined(c) \cup Range(v)
  BY <1>2, MinedAppend
<1>4. Confirmed(before) = Confirmed(c) \cup Range(v)
  BY <1>3 DEF Confirmed
<1>5. vtx[k] \notin Confirmed(before) /\ \A o \in Inputs[vtx[k]] : Unspent(before, o)
  BY DEF ValidBlock
<1> HIDE DEF before, v
<1>6. vtx[k] \notin Confirmed(c) /\ \A j \in 1 .. k - 1 : vtx[j] # vtx[k]
  BY <1>2, <1>4, <1>5
<1>7. ASSUME NEW o \in Inputs[vtx[k]]
      PROVE  /\ o[1] \in Confirmed(c) \/ \E j \in 1 .. k - 1 : o[1] = vtx[j]
             /\ \A t \in Mined(c) : o \notin Inputs[t]
             /\ \A j \in 1 .. k - 1 : o \notin Inputs[vtx[j]]
  <2>1. o[1] \in Confirmed(before) /\ \A t \in Mined(before) : o \notin Inputs[t]
    BY <1>5 DEF Unspent
  <2>2. \A j \in 1 .. k - 1 : vtx[j] \in Range(v)
    BY <1>2
  <2> QED  BY <1>2, <1>3, <1>4, <2>1, <2>2
<1> QED  BY <1>1, <1>6, <1>7

\* No transaction is in a block twice.
LEMMA BlockInjective ==
  ASSUME NEW c \in Chains, NEW vtx \in Seq(Tx), ValidBlock(c, vtx),
         NEW i \in DOMAIN vtx, NEW j \in DOMAIN vtx, vtx[i] = vtx[j]
  PROVE  i = j
<1>1. ASSUME NEW x \in DOMAIN vtx, NEW y \in DOMAIN vtx, x < y PROVE vtx[x] # vtx[y]
  <2>1. x \in 1 .. y - 1
    BY <1>1
  <2> QED  BY <2>1, ValidBlockIs
<1>2. i \in Int /\ j \in Int
  OBVIOUS
<1> QED  BY <1>1, <1>2

\* A transaction of a chain is in one block, and spends what the chain holds.
LEMMA ChainFacts ==
  ASSUME NEW c, ChainValid(c)
  PROVE  /\ \A t \in Mined(c) :
              t \in Tx /\ t \notin Funding /\ \A o \in Inputs[t] : o[1] \in Confirmed(c)
         /\ \A i, j \in DOMAIN c : \A t \in Range(c[i]) : t \in Range(c[j]) => i = j
<1>1. ASSUME NEW i \in DOMAIN c
      PROVE  /\ i - 1 \in 0 .. Len(c) /\ c[i] \in Seq(Tx) /\ SubSeq(c, 1, i - 1) \in Chains
             /\ ValidBlock(SubSeq(c, 1, i - 1), c[i])
             /\ Mined(SubSeq(c, 1, i - 1)) \subseteq Mined(c)
             /\ \A j \in 1 .. i - 1 : Range(c[j]) \subseteq Mined(SubSeq(c, 1, i - 1))
  <2>1. i - 1 \in 0 .. Len(c) /\ c[i] \in Seq(Tx) /\ c \in Chains
    BY DEF ChainValid, Chains
  <2> QED  BY <2>1, MinedPrefix DEF ChainValid
<1>2. ASSUME NEW t \in Mined(c), NEW o \in Inputs[t]
      PROVE  t \in Tx /\ t \notin Funding /\ o[1] \in Confirmed(c)
  <2>1. PICK i \in DOMAIN c : t \in Range(c[i])
    BY DEF Mined
  <2>2. PICK k \in DOMAIN c[i] : t = c[i][k]
    BY <2>1 DEF Range
  <2> DEFINE b == SubSeq(c, 1, i - 1)
  <2>3. /\ t \in Tx /\ t \notin Confirmed(b)
        /\ o[1] \in Confirmed(b) \/ \E j \in 1 .. k - 1 : o[1] = c[i][j]
    BY <1>1, <2>2, ValidBlockIs
  <2>4. \A j \in 1 .. k - 1 : c[i][j] \in Mined(c)
    <3>1. c[i] \in Seq(Tx)
      BY <1>1
    <3>2. 1 .. k - 1 \subseteq DOMAIN c[i]
      BY <3>1
    <3> QED  BY <3>2 DEF Mined, Range
  <2> HIDE DEF b
  <2>5. Mined(b) \subseteq Mined(c)
    BY <1>1 DEF b
  <2> QED  BY <2>3, <2>4, <2>5 DEF Confirmed
<1>3. \A t \in Mined(c) : t \in Tx /\ t \notin Funding
  <2>1. SUFFICES ASSUME NEW t \in Mined(c) PROVE t \in Tx /\ t \notin Funding
    OBVIOUS
  <2>2. PICK i \in DOMAIN c : t \in Range(c[i])
    BY DEF Mined
  <2>3. PICK k \in DOMAIN c[i] : t = c[i][k]
    BY <2>2 DEF Range
  <2>4. t \in Tx /\ t \notin Confirmed(SubSeq(c, 1, i - 1))
    BY <1>1, <2>3, ValidBlockIs
  <2> QED  BY <2>4 DEF Confirmed
<1>4. ASSUME NEW i \in DOMAIN c, NEW j \in DOMAIN c, i < j, NEW t \in Range(c[i]), t \in Range(c[j])
      PROVE  FALSE
  <2>1. PICK k \in DOMAIN c[j] : t = c[j][k]
    BY <1>4 DEF Range
  <2>2. t \notin Confirmed(SubSeq(c, 1, j - 1))
    BY <1>1, <2>1, ValidBlockIs
  <2>3. i \in 1 .. j - 1
    BY <1>4 DEF ChainValid, Chains
  <2> QED  BY <1>1, <2>2, <2>3 DEF Confirmed
<1>5. \A i \in DOMAIN c : i \in Int
  BY DEF ChainValid, Chains
<1> QED
  <2>1. ASSUME NEW i \in DOMAIN c, NEW j \in DOMAIN c, NEW t \in Range(c[i]), t \in Range(c[j])
        PROVE  i = j
    BY <1>4, <1>5, <2>1
  <2> QED  BY <1>2, <1>3, <2>1

\* The chain stays valid when a block is connected ...
LEMMA ChainGrows ==
  ASSUME NEW c, ChainValid(c), NEW vtx \in Seq(Tx), ValidBlock(c, vtx)
  PROVE  ChainValid(Append(c, vtx))
<1> DEFINE a == Append(c, vtx)
<1>1. c \in Chains /\ a \in Chains
  BY DEF ChainValid, Chains
<1>2. ASSUME NEW i \in DOMAIN a PROVE ValidBlock(SubSeq(a, 1, i - 1), a[i])
  <2>1. CASE i \in DOMAIN c
    <3>1. a[i] = c[i] /\ SubSeq(a, 1, i - 1) = SubSeq(c, 1, i - 1)
      BY <1>1, <2>1 DEF Chains
    <3> QED  BY <2>1, <3>1 DEF ChainValid
  <2>2. CASE i = Len(c) + 1
    <3>1. a[i] = vtx /\ SubSeq(a, 1, i - 1) = c
      BY <1>1, <2>2 DEF Chains
    <3> QED  BY <3>1
  <2> QED  BY <1>1, <2>1, <2>2 DEF Chains
<1> HIDE DEF a
<1>3. ChainValid(a)
  BY <1>1, <1>2 DEF ChainValid
<1> QED  BY <1>3 DEF a

\* ... and when the last one is disconnected.
LEMMA ChainShrinks ==
  ASSUME NEW c, ChainValid(c), c # <<>>
  PROVE  /\ ChainValid(Front(c)) /\ Last(c) \in Seq(Tx) /\ ValidBlock(Front(c), Last(c))
         /\ c = Append(Front(c), Last(c)) /\ Len(Front(c)) = Len(c) - 1 /\ Len(c) > 0
<1>1. c \in Chains /\ Len(c) \in Nat /\ Len(c) > 0
  BY DEF ChainValid, Chains
<1> DEFINE n == Len(c) - 1
<1>2. n \in 0 .. Len(c) /\ Len(c) \in DOMAIN c
  BY <1>1 DEF Chains
<1>3. Front(c) = SubSeq(c, 1, n) /\ Last(c) = c[Len(c)]
  BY DEF Front, Last
<1>4. Front(c) \in Chains /\ Len(Front(c)) = n /\ \A i \in 1 .. n : Front(c)[i] = c[i]
  <2>1. /\ SubSeq(c, 1, n) \in Chains /\ Len(SubSeq(c, 1, n)) = n
        /\ \A i \in 1 .. n : SubSeq(c, 1, n)[i] = c[i]
    <3>1. c \in Chains /\ n \in 0 .. Len(c)
      BY <1>1, <1>2
    <3> HIDE DEF n
    <3> QED  BY <3>1 DEF Chains
  <2> QED  BY <1>3, <2>1
<1>5. c = Append(Front(c), Last(c))
  BY <1>1, <1>3, <1>4 DEF Chains
<1>6. Last(c) \in Seq(Tx) /\ ValidBlock(Front(c), Last(c))
  BY <1>1, <1>2, <1>3 DEF ChainValid, Chains
<1>7. ASSUME NEW i \in DOMAIN Front(c) PROVE ValidBlock(SubSeq(Front(c), 1, i - 1), Front(c)[i])
  <2>1. i \in 1 .. n /\ i \in DOMAIN c
    BY <1>1, <1>4 DEF Chains
  <2>2. Front(c)[i] = c[i] /\ SubSeq(Front(c), 1, i - 1) = SubSeq(c, 1, i - 1)
    BY <1>1, <1>3, <2>1 DEF Chains
  <2> QED  BY <2>1, <2>2 DEF ChainValid
<1> QED  BY <1>1, <1>4, <1>5, <1>6, <1>7 DEF ChainValid

\* What is mature stays mature when the chain grows.
LEMMA MatureGrows ==
  ASSUME NEW c, ChainValid(c), NEW vtx \in Seq(Tx), ChainValid(Append(c, vtx)),
         NEW o, o[1] \in Confirmed(c), Mature(c, o)
  PROVE  Mature(Append(c, vtx), o)
<1> DEFINE a == Append(c, vtx)
           t == o[1]
<1>1. /\ c \in Chains /\ Len(c) \in Nat /\ Len(a) = Len(c) + 1 /\ DOMAIN c = 1 .. Len(c)
      /\ DOMAIN c \subseteq DOMAIN a /\ \A i \in DOMAIN c : a[i] = c[i]
  BY DEF ChainValid, Chains
<1>2. SUFFICES ASSUME t \in Generated PROVE Len(a) + 1 - Height(a, t) >= Maturity
  BY DEF Mature
<1>3. t \in Mined(c)
  BY <1>2, MempoolAssumption DEF Confirmed
<1>4. PICK i \in DOMAIN c : t \in Range(c[i])
  BY <1>3 DEF Mined
<1> HIDE DEF t
<1>5. Height(c, t) = i
  BY <1>4, ChainFacts DEF Height
<1>6. Height(a, t) = i
  <2> HIDE DEF a
  <2>1. i \in DOMAIN a /\ t \in Range(a[i])
    BY <1>1, <1>4
  <2>2. ChainValid(a)
    BY DEF a
  <2> QED  BY <2>1, <2>2, ChainFacts DEF Height
<1>7. Len(c) + 1 - i >= Maturity
  BY <1>2, <1>5 DEF Mature, t
<1>8. Maturity \in Nat /\ i \in Nat
  BY <1>1, <1>4, MempoolAssumption
<1> QED  BY <1>1, <1>6, <1>7, <1>8
-----------------------------------------------------------------------------
(***************************************************************************)
(* The pool on top of a chain.                                             *)
(***************************************************************************)
Minable(c, p) ==
  /\ Sound(p)
  /\ \A t \in p.mapTx : t \notin Confirmed(c) /\ \A o \in Inputs[t] : Available(c, p, o)

\* An accepted transaction is not in the chain: that none of its outputs is
\* unspent there would not tell, but its inputs are.
LEMMA FittingIsNew ==
  ASSUME NEW c, ChainValid(c), NEW p, Minable(c, p), NEW t \in Tx, Fits(c, p, t)
  PROVE  t \in Ordinary /\ t \notin Confirmed(c)
<1>1. t \in Ordinary
  BY DEF Fits, Considered, Ordinary
<1>2. PICK o \in Inputs[t] : TRUE
  BY <1>1, MempoolAssumption DEF Ordinary
<1>3. ASSUME t \in Mined(c) PROVE FALSE
  <2>1. o[1] \in Confirmed(c) /\ ~Unspent(c, o)
    BY <1>2, <1>3, ChainFacts DEF Unspent
  <2>2. o[1] \in p.mapTx
    BY <1>2, <2>1 DEF Fits, Available
  <2> QED  BY <2>1, <2>2 DEF Minable
<1> QED  BY <1>1, <1>3 DEF Confirmed, Ordinary

\* AcceptToMemoryPool keeps the pool minable.
LEMMA AcceptMinable ==
  ASSUME NEW c, ChainValid(c), NEW p, Minable(c, p), NEW t \in Tx, Fits(c, p, t)
  PROVE  Minable(c, AddUnchecked(p, t))
<1> DEFINE q == AddUnchecked(p, t)
<1>1. t \in Ordinary /\ t \notin Confirmed(c)
  BY FittingIsNew
<1>2. Sound(q)
  BY <1>1, AddSound DEF Minable, Fits, Considered
<1>3. q.mapTx = p.mapTx \cup {t}
  BY AddType DEF Minable, Sound
<1> HIDE DEF q
<1>4. \A u \in q.mapTx : u \notin Confirmed(c)
  BY <1>1, <1>3 DEF Minable
<1>5. \A u \in q.mapTx : \A o \in Inputs[u] : Available(c, p, o)
  BY <1>3 DEF Minable, Fits
<1>6. \A o : Available(c, p, o) => Available(c, q, o)
  BY <1>3 DEF Available
<1>7. Minable(c, q)
  BY <1>2, <1>4, <1>5, <1>6 DEF Minable
<1> QED  BY <1>7 DEF q

-----------------------------------------------------------------------------
(***************************************************************************)
(* A block is connected on top of c.                                       *)
(***************************************************************************)

\* The pool p without the first i transactions of vtx and what they contradict:
\* what a member spends is an output of another one, of these, or of the chain.
Reduced(c, p, vtx, q, i) ==
  /\ Sound(q) /\ q.mapTx \subseteq p.mapTx
  /\ \A u \in q.mapTx : \A j \in 1 .. i : u # vtx[j] /\ Inputs[u] \cap Inputs[vtx[j]] = {}
  /\ \A u \in q.mapTx : \A o \in Inputs[u] :
       \/ o[1] \in q.mapTx
       \/ \E j \in 1 .. i : o[1] = vtx[j]
       \/ Unspent(c, o) /\ Mature(c, o)

\* One transaction further.
LEMMA ReducedStep ==
  ASSUME NEW c, NEW p, NEW vtx \in Seq(Tx), NEW i \in 1 .. Len(vtx), NEW q,
         Reduced(c, p, vtx, q, i - 1)
  PROVE  Reduced(c, p, vtx, Connected(q, vtx[i]), i)
<1> DEFINE t == vtx[i]
           w == Without(q, {t})
           r == RemoveConflicts(w, t)
<1>1. Sound(w) /\ w.mapTx = q.mapTx \ {t}
  BY WithoutSound DEF Reduced
<1>2. t \notin w.mapTx
  BY <1>1
<1>3. /\ Sound(r) /\ r.mapTx \subseteq w.mapTx
      /\ \A u \in r.mapTx : Inputs[u] \cap Inputs[t] = {}
      /\ \A u \in r.mapTx : \A o \in Inputs[u] : o[1] \in w.mapTx => o[1] \in r.mapTx
  <2> HIDE DEF w, t
  <2> QED  BY <1>1, <1>2, RemoveConflictsLeaves
<1>4. Connected(q, vtx[i]) = r
  BY DEF Connected
<1>5. \A j \in 1 .. i : j \in 1 .. i - 1 \/ j = i
  OBVIOUS
<1>6. \A j \in 1 .. i - 1 : j \in 1 .. i
  OBVIOUS
<1>7. i \in 1 .. i
  OBVIOUS
<1> HIDE DEF r, w
<1>8. \A u \in r.mapTx : \A j \in 1 .. i : u # vtx[j] /\ Inputs[u] \cap Inputs[vtx[j]] = {}
  BY <1>1, <1>3, <1>5 DEF Reduced
<1>9. ASSUME NEW u \in r.mapTx, NEW o \in Inputs[u]
      PROVE  \/ o[1] \in r.mapTx
             \/ \E j \in 1 .. i : o[1] = vtx[j]
             \/ Unspent(c, o) /\ Mature(c, o)
  <2>1. u \in q.mapTx
    BY <1>1, <1>3
  <2>2. CASE o[1] \in q.mapTx
    <3>1. o[1] = vtx[i] \/ o[1] \in w.mapTx
      BY <1>1, <2>2
    <3> QED  BY <1>3, <1>7, <3>1
  <2>3. CASE \E j \in 1 .. i - 1 : o[1] = vtx[j]
    BY <1>6, <2>3
  <2> QED  BY <2>1, <2>2, <2>3 DEF Reduced
<1>10. Reduced(c, p, vtx, r, i)
  BY <1>1, <1>3, <1>8, <1>9 DEF Reduced
<1> QED  BY <1>4, <1>10

\* removeForBlock.
LEMMA RemoveForBlockReduces ==
  ASSUME NEW c, NEW p, Minable(c, p), NEW vtx \in Seq(Tx)
  PROVE  Reduced(c, p, vtx, RemoveForBlock(p, vtx), Len(vtx))
<1>1. PICK g \in [0 .. Len(vtx) -> Pools] :
        /\ g[0] = p /\ g[Len(vtx)] = RemoveForBlock(p, vtx)
        /\ \A i \in 1 .. Len(vtx) : g[i] = Connected(g[i - 1], vtx[i])
  BY RemoveForBlockSteps DEF Minable, Sound
<1>2. Reduced(c, p, vtx, p, 0)
  <2>1. \A j \in 1 .. 0 : FALSE
    OBVIOUS
  <2> QED  BY <2>1 DEF Reduced, Minable, Available
<1> DEFINE Bad == {i \in 0 .. Len(vtx) : ~Reduced(c, p, vtx, g[i], i)}
<1>3. ASSUME Bad # {} PROVE FALSE
  <2>1. PICK i \in Bad : \A m \in Bad : i <= m
    <3>1. Bad \in SUBSET Nat  OBVIOUS
    <3> HIDE DEF Bad
    <3> QED  BY <1>3, <3>1, SmallestNumber
  <2>2. i # 0
    BY <1>1, <1>2, <2>1
  <2>3. i \in 1 .. Len(vtx) /\ i - 1 \in 0 .. Len(vtx) /\ ~(i <= i - 1)
    BY <2>1, <2>2
  <2>4. Reduced(c, p, vtx, g[i - 1], i - 1)
    BY <2>1, <2>3
  <2> QED  BY <1>1, <2>1, <2>3, <2>4, ReducedStep
<1>4. Len(vtx) \in 0 .. Len(vtx)
  OBVIOUS
<1> QED  BY <1>1, <1>3, <1>4
\* The pool is minable on top of the block, too.
LEMMA ConnectMinable ==
  ASSUME NEW c, ChainValid(c), NEW p, Minable(c, p),
         NEW vtx \in Seq(Tx), ValidBlock(c, vtx)
  PROVE  Minable(Append(c, vtx), RemoveForBlock(p, vtx))
<1> DEFINE a == Append(c, vtx)
           q == RemoveForBlock(p, vtx)
<1>1. Reduced(c, p, vtx, q, Len(vtx))
  BY RemoveForBlockReduces
<1>2. c \in Chains /\ ChainValid(a)
  BY ChainGrows DEF ChainValid
<1>3. Mined(a) = Mined(c) \cup Range(vtx) /\ Confirmed(a) = Confirmed(c) \cup Range(vtx)
  BY <1>2, MinedAppend DEF Confirmed
<1>4. \A t : t \in Range(vtx) <=> \E j \in 1 .. Len(vtx) : t = vtx[j]
  BY DEF Range
<1>5. \A t \in Range(vtx) : t \notin Confirmed(c)
  BY <1>2, ValidBlockIs DEF Range
<1>6. \A o, u : u \in Mined(c) /\ o \in Inputs[u] => o[1] \in Confirmed(c)
  BY ChainFacts
<1>7. \A o : o[1] \in Confirmed(c) /\ Mature(c, o) => Mature(a, o)
  BY <1>2, MatureGrows
<1> HIDE DEF a, q
<1>8. ASSUME NEW u \in q.mapTx, NEW o \in Inputs[u] PROVE u \notin Confirmed(a) /\ Available(a, q, o)
  <2>1. u \in p.mapTx /\ u \notin Range(vtx) /\ \A t \in Range(vtx) : o \notin Inputs[t]
    BY <1>1, <1>4 DEF Reduced
  <2>2. u \notin Confirmed(a)
    BY <1>3, <2>1 DEF Minable
  <2>3. CASE o[1] \in q.mapTx
    BY <2>2, <2>3 DEF Available
  <2>4. CASE Unspent(c, o) /\ Mature(c, o)
    <3>1. Unspent(a, o) /\ Mature(a, o)
      BY <1>3, <1>7, <2>1, <2>4 DEF Unspent
    <3> QED  BY <2>2, <3>1 DEF Available
  <2>5. CASE o[1] \in Range(vtx)
    <3>1. o[1] \notin Confirmed(c)
      BY <1>5, <2>5
    <3>2. Unspent(a, o)
      BY <1>3, <1>6, <2>1, <2>5, <3>1 DEF Unspent
    <3>3. o[1] \notin Generated
      <4>1. o[1] \in p.mapTx
        BY <2>1, <3>1 DEF Minable, Available, Unspent
      <4> QED  BY <4>1 DEF Minable, Sound, Ordinary
    <3> QED  BY <2>2, <3>2, <3>3 DEF Available, Mature
  <2> QED  BY <1>1, <1>4, <2>3, <2>4, <2>5 DEF Reduced
<1>9. \A u \in q.mapTx : u \notin Confirmed(a)
  <2>1. SUFFICES ASSUME NEW u \in q.mapTx PROVE u \notin Confirmed(a)
    OBVIOUS
  <2>2. u \in Ordinary
    BY <1>1 DEF Reduced, Sound
  <2>3. PICK o \in Inputs[u] : TRUE
    BY <2>2, MempoolAssumption DEF Ordinary
  <2> QED  BY <1>8, <2>3
<1>10. Minable(a, q)
  BY <1>1, <1>8, <1>9 DEF Minable, Reduced
<1> QED  BY <1>10 DEF a, q

-----------------------------------------------------------------------------
(***************************************************************************)
(* A block is disconnected, and c is left.                                 *)
(***************************************************************************)

\* Why t is not back: it may not be, or what it spends is gone for good.
Lost(c, vtx, refused, q, i, t) ==
  \/ t \in Generated \cup NonStandard \/ t \in refused
  \/ \E o \in Inputs[t] :
       /\ o[1] \notin q.mapTx
       /\ ~(Unspent(c, o) /\ Mature(c, o))
       /\ \A j \in i + 1 .. Len(vtx) : o[1] # vtx[j]

\* The pool q after the first i transactions of vtx came back to p.
Returned(c, p, vtx, refused, q, i) ==
  /\ Sound(q)
  /\ \A u \in q.mapTx :
       /\ u \notin Confirmed(c)
       /\ u \in p.mapTx \/ ((\E j \in 1 .. i : u = vtx[j]) /\ u \notin refused)
  /\ \A u \in q.mapTx : \A o \in Inputs[u] :
       \/ o[1] \in q.mapTx
       \/ \E j \in i + 1 .. Len(vtx) : o[1] = vtx[j]
       \/ Unspent(c, o)
  /\ \A j \in 1 .. i : vtx[j] \in q.mapTx \/ Lost(c, vtx, refused, q, i, vtx[j])

\* The pool is as it was under the block before any of them is back.
LEMMA ReturnedFirst ==
  ASSUME NEW c, ChainValid(c), NEW vtx \in Seq(Tx), ValidBlock(c, vtx),
         NEW refused, NEW p, Minable(Append(c, vtx), p)
  PROVE  Returned(c, p, vtx, refused, p, 0)
<1> DEFINE a == Append(c, vtx)
<1>1. Mined(a) = Mined(c) \cup Range(vtx) /\ Confirmed(a) = Confirmed(c) \cup Range(vtx)
  BY MinedAppend DEF Confirmed, ChainValid
<1>2. \A t \in Range(vtx) : \E j \in 0 + 1 .. Len(vtx) : t = vtx[j]
  BY DEF Range
<1> HIDE DEF a
<1>3. Minable(a, p)
  BY DEF a
<1>4. \A u \in p.mapTx : u \notin Confirmed(c)
  BY <1>1, <1>3 DEF Minable
<1>5. ASSUME NEW u \in p.mapTx, NEW o \in Inputs[u]
      PROVE  \/ o[1] \in p.mapTx
             \/ \E j \in 0 + 1 .. Len(vtx) : o[1] = vtx[j]
             \/ Unspent(c, o)
  BY <1>1, <1>2, <1>3 DEF Minable, Available, Unspent
<1>6. \A j \in 1 .. 0 : vtx[j] \in p.mapTx \/ Lost(c, vtx, refused, p, 0, vtx[j])
  OBVIOUS
<1>7. Sound(p)
  BY <1>3 DEF Minable
<1> QED  BY <1>4, <1>5, <1>6, <1>7 DEF Returned

\* A transaction of the block that AcceptToMemoryPool refuses is lost.
LEMMA RefusedIsLost ==
  ASSUME NEW c, ChainValid(c), NEW vtx \in Seq(Tx), ValidBlock(c, vtx),
         NEW refused, NEW p, Minable(Append(c, vtx), p),
         NEW i \in 1 .. Len(vtx), NEW q, Returned(c, p, vtx, refused, q, i - 1),
         vtx[i] \in refused \/ ~Fits(c, q, vtx[i])
  PROVE  Lost(c, vtx, refused, q, i, vtx[i])
<1> DEFINE t == vtx[i]
           a == Append(c, vtx)
<1>1. i \in DOMAIN vtx /\ c \in Chains /\ Range(vtx) = {vtx[j] : j \in DOMAIN vtx}
  BY DEF ChainValid, Range
<1>2. /\ t \in Tx /\ t \notin Confirmed(c)
      /\ \A j \in 1 .. i - 1 : vtx[j] # t
      /\ \A o \in Inputs[t] :
           /\ o[1] \in Confirmed(c) \/ \E j \in 1 .. i - 1 : o[1] = vtx[j]
           /\ \A u \in Mined(c) : o \notin Inputs[u]
           /\ \A j \in 1 .. i - 1 : o \notin Inputs[vtx[j]]
  BY <1>1, ValidBlockIs
<1>3. Mined(a) = Mined(c) \cup Range(vtx) /\ Confirmed(a) = Confirmed(c) \cup Range(vtx)
  BY <1>1, MinedAppend DEF Confirmed
<1>4. t \in Mined(a)
  BY <1>1, <1>3
<1>5. ChainValid(a)
  BY ChainGrows
<1>6. \A o \in Inputs[t] : o[1] \in Confirmed(a)
  BY <1>4, <1>5, ChainFacts
<1>7. ASSUME NEW o \in Inputs[t], o[1] \notin q.mapTx, ~(Unspent(c, o) /\ Mature(c, o))
      PROVE  Lost(c, vtx, refused, q, i, t)
  <2>1. SUFFICES ASSUME NEW j \in i + 1 .. Len(vtx) PROVE o[1] # vtx[j]
    BY <1>7 DEF Lost
  <2>2. j \in DOMAIN vtx /\ \A m \in 1 .. i - 1 : m \in 1 .. j - 1
    OBVIOUS
  <2>3. vtx[j] \notin Confirmed(c) /\ \A m \in 1 .. j - 1 : vtx[m] # vtx[j]
    BY <1>1, <2>2, ValidBlockIs
  <2> QED  BY <1>2, <2>2, <2>3
<1>8. t \notin q.mapTx
  <2>1. SUFFICES ASSUME t \in q.mapTx PROVE FALSE
    OBVIOUS
  <2>2. t \in p.mapTx
    BY <1>2, <2>1 DEF Returned
  <2>3. t \notin Confirmed(a)
    BY <2>2 DEF Minable
  <2> QED  BY <1>4, <2>3 DEF Confirmed
<1>9. Inputs[t] \cap DOMAIN q.mapNextTx = {}
  <2>1. SUFFICES ASSUME NEW o \in Inputs[t], o \in DOMAIN q.mapNextTx PROVE FALSE
    OBVIOUS
  <2>2. PICK u \in q.mapTx : o \in Inputs[u]
    BY <2>1 DEF Returned, Sound, Exact
  <2>3. u \in p.mapTx
    BY <1>2, <2>2 DEF Returned
  <2>4. Available(a, p, o) /\ ~Unspent(a, o)
    BY <1>4, <2>2, <2>3 DEF Minable, Unspent
  <2>5. o[1] \in p.mapTx /\ o[1] \in Confirmed(a)
    BY <1>6, <2>4 DEF Available
  <2> QED  BY <2>5 DEF Minable
<1>10. ~HaveCoins(c, q, t)
  <2>1. \A n : ~Unspent(c, <<t, n>>)
    BY <1>2 DEF Unspent
  <2> QED  BY <1>8, <2>1 DEF HaveCoins
<1>11. CASE t \in Generated \cup NonStandard \/ t \in refused
  BY <1>11 DEF Lost
<1>12. CASE ~(t \in Generated \cup NonStandard \/ t \in refused)
  <2>1. t \notin Funding
    BY <1>2 DEF Confirmed
  <2>2. Considered(c, q, t)
    BY <1>8, <1>9, <1>10, <1>12, <2>1 DEF Considered
  <2>3. CASE ~InputsKnown(c, q, t)
    <3>1. PICK o \in Inputs[t] : ~HaveCoins(c, q, o[1])
      BY <2>3 DEF InputsKnown
    <3>2. o[2] \in 1 .. Outputs[o[1]] /\ o = <<o[1], o[2]>>
      BY <1>2, InputsType
    <3>3. o[1] \notin q.mapTx /\ ~Unspent(c, o)
      BY <3>1, <3>2 DEF HaveCoins
    <3> QED  BY <1>7, <3>3
  <2>4. CASE \E o \in Inputs[t] : ~Available(c, q, o)
    BY <1>7, <2>4 DEF Available
  <2> QED  BY <1>12, <2>2, <2>3, <2>4 DEF Fits
<1> QED  BY <1>11, <1>12
\* One transaction further.
LEMMA ReturnedStep ==
  ASSUME NEW c, ChainValid(c), NEW vtx \in Seq(Tx), ValidBlock(c, vtx),
         NEW refused, NEW p, Minable(Append(c, vtx), p),
         NEW i \in 1 .. Len(vtx), NEW q, Returned(c, p, vtx, refused, q, i - 1)
  PROVE  Returned(c, p, vtx, refused, Resurrect(c, q, vtx[i], refused), i)
<1> DEFINE t == vtx[i]
           r == Resurrect(c, q, t, refused)
<1>1. i \in DOMAIN vtx /\ c \in Chains /\ t \in Tx
  BY DEF ChainValid
<1>2. t \notin Confirmed(c) /\ \A j \in 1 .. i - 1 : vtx[j] # t
  BY <1>1, ValidBlockIs
<1>3. /\ \A j \in i + 1 .. Len(vtx) : j \in (i - 1) + 1 .. Len(vtx) /\ vtx[j] # t
      /\ \A j \in (i - 1) + 1 .. Len(vtx) : j \in i + 1 .. Len(vtx) \/ j = i
      /\ \A j \in 1 .. i : j \in 1 .. i - 1 \/ j = i
      /\ \A j \in 1 .. i - 1 : j \in 1 .. i
      /\ i \in 1 .. i
  <2>1. \A j \in i + 1 .. Len(vtx) : vtx[j] # t
    <3>1. SUFFICES ASSUME NEW j \in i + 1 .. Len(vtx) PROVE vtx[j] # t
      OBVIOUS
    <3>2. j \in DOMAIN vtx /\ i \in 1 .. j - 1
      OBVIOUS
    <3> QED  BY <1>1, <3>2, ValidBlockIs
  <2> QED  BY <2>1
<1>4. CASE t \notin refused /\ Fits(c, q, t)
  <2>1. r = AddUnchecked(q, t)
    BY <1>4 DEF Resurrect
  <2>2. /\ t \in Ordinary /\ t \notin refused
        /\ Inputs[t] \cap DOMAIN q.mapNextTx = {}
        /\ \A o \in Inputs[t] : Available(c, q, o)
    BY <1>1, <1>4 DEF Fits, Considered, Ordinary
  <2> HIDE DEF r
  <2>3. Sound(r)
    BY <2>1, <2>2, AddSound DEF Returned
  <2>4. r.mapTx = q.mapTx \cup {t}
    BY <1>1, <2>1, AddType DEF Returned, Sound
  <2>5. \A u \in r.mapTx :
          /\ u \notin Confirmed(c)
          /\ u \in p.mapTx \/ ((\E j \in 1 .. i : u = vtx[j]) /\ u \notin refused)
    BY <1>2, <1>3, <2>2, <2>4 DEF Returned
  <2>6. ASSUME NEW u \in r.mapTx, NEW o \in Inputs[u]
        PROVE  \/ o[1] \in r.mapTx
               \/ \E j \in i + 1 .. Len(vtx) : o[1] = vtx[j]
               \/ Unspent(c, o)
    <3>1. CASE u = t
      BY <2>2, <2>4, <3>1 DEF Available
    <3>2. CASE u \in q.mapTx
      BY <1>3, <2>4, <3>2 DEF Returned
    <3> QED  BY <2>4, <3>1, <3>2
  <2>7. ASSUME NEW j \in 1 .. i PROVE vtx[j] \in r.mapTx \/ Lost(c, vtx, refused, r, i, vtx[j])
    <3>1. CASE j = i
      BY <2>4, <3>1
    <3>2. CASE j \in 1 .. i - 1
      <4>1. vtx[j] \in q.mapTx \/ Lost(c, vtx, refused, q, i - 1, vtx[j])
        BY <3>2 DEF Returned
      <4>2. CASE \E o \in Inputs[vtx[j]] :
                   /\ o[1] \notin q.mapTx
                   /\ ~(Unspent(c, o) /\ Mature(c, o))
                   /\ \A m \in (i - 1) + 1 .. Len(vtx) : o[1] # vtx[m]
        <5>1. i \in (i - 1) + 1 .. Len(vtx)
          OBVIOUS
        <5> QED  BY <1>3, <2>4, <4>2, <5>1 DEF Lost
      <4> QED  BY <2>4, <4>1, <4>2 DEF Lost
    <3> QED  BY <1>3, <3>1, <3>2
  <2>8. Returned(c, p, vtx, refused, r, i)
    BY <2>3, <2>5, <2>6, <2>7 DEF Returned
  <2> QED  BY <2>8 DEF r
<1>5. CASE t \in refused \/ ~Fits(c, q, t)
  <2>1. r = RemoveRecursively(q, t)
    BY <1>5 DEF Resurrect
  <2>2. Lost(c, vtx, refused, q, i, t)
    BY <1>5, RefusedIsLost
  <2> HIDE DEF r, t
  <2>3. /\ Sound(r)
        /\ r.mapTx \subseteq q.mapTx \ {t}
        /\ \A u \in r.mapTx : \A o \in Inputs[u] : o[1] # t /\ (o[1] \in q.mapTx => o[1] \in r.mapTx)
        /\ \A d \in q.mapTx \ r.mapTx : d = t \/ \E o \in Inputs[d] : o[1] \in ({t} \cup q.mapTx) \ r.mapTx
    BY <2>1, RemoveRecursivelyLeaves DEF Returned
  <2>4. \A u \in r.mapTx :
          /\ u \notin Confirmed(c)
          /\ u \in p.mapTx \/ ((\E j \in 1 .. i : u = vtx[j]) /\ u \notin refused)
    BY <1>3, <2>3 DEF Returned
  <2>5. ASSUME NEW u \in r.mapTx, NEW o \in Inputs[u]
        PROVE  \/ o[1] \in r.mapTx
               \/ \E j \in i + 1 .. Len(vtx) : o[1] = vtx[j]
               \/ Unspent(c, o)
    <3>1. u \in q.mapTx
      BY <2>3
    <3>2. CASE \E j \in (i - 1) + 1 .. Len(vtx) : o[1] = vtx[j]
      BY <1>3, <2>3, <3>2 DEF t
    <3> QED  BY <2>3, <3>1, <3>2 DEF Returned
  <2>6. ASSUME NEW j \in 1 .. i PROVE vtx[j] \in r.mapTx \/ Lost(c, vtx, refused, r, i, vtx[j])
    <3>1. ASSUME NEW u, Lost(c, vtx, refused, q, i, u) PROVE Lost(c, vtx, refused, r, i, u)
      BY <2>3, <3>1 DEF Lost
    <3>2. CASE j = i
      BY <2>2, <3>1, <3>2 DEF t
    <3>3. CASE j \in 1 .. i - 1 /\ vtx[j] \notin q.mapTx
      <4>1. Lost(c, vtx, refused, q, i - 1, vtx[j])
        BY <3>3 DEF Returned
      <4>2. Lost(c, vtx, refused, q, i, vtx[j])
        BY <1>3, <4>1 DEF Lost
      <4> QED  BY <3>1, <4>2
    <3>4. CASE j \in 1 .. i - 1 /\ vtx[j] \in q.mapTx \ r.mapTx
      <4>1. vtx[j] # t
        BY <1>2, <3>4
      <4>2. PICK o \in Inputs[vtx[j]] : o[1] \in ({t} \cup q.mapTx) \ r.mapTx
        BY <2>3, <3>4, <4>1
      <4>3. o[1] \notin Confirmed(c)
        BY <1>2, <4>2 DEF Returned, t
      <4>4. ASSUME NEW m \in i + 1 .. Len(vtx) PROVE o[1] # vtx[m]
        <5>1. j \in DOMAIN vtx /\ m \in DOMAIN vtx /\ \A n \in 1 .. j - 1 : n \in 1 .. m - 1
          BY <3>4
        <5>2. o[1] \in Confirmed(c) \/ \E n \in 1 .. j - 1 : o[1] = vtx[n]
          BY <1>1, <5>1, ValidBlockIs
        <5>3. \A n \in 1 .. m - 1 : vtx[n] # vtx[m]
          BY <1>1, <5>1, ValidBlockIs
        <5> QED  BY <4>3, <5>1, <5>2, <5>3
      <4>5. ~Unspent(c, o)
        BY <4>3 DEF Unspent
      <4> QED  BY <4>2, <4>4, <4>5 DEF Lost
    <3> QED  BY <1>3, <3>2, <3>3, <3>4
  <2>7. Returned(c, p, vtx, refused, r, i)
    BY <2>3, <2>4, <2>5, <2>6 DEF Returned
  <2> QED  BY <2>7 DEF r, t
<1> QED  BY <1>4, <1>5

\* All of the block.
LEMMA ResurrectedReturns ==
  ASSUME NEW c, ChainValid(c), NEW vtx \in Seq(Tx), ValidBlock(c, vtx),
         NEW refused, NEW p, Minable(Append(c, vtx), p)
  PROVE  Returned(c, p, vtx, refused, Resurrected(c, p, vtx, refused), Len(vtx))
<1>1. PICK g \in [0 .. Len(vtx) -> Pools] :
        /\ g[0] = p /\ g[Len(vtx)] = Resurrected(c, p, vtx, refused)
        /\ \A i \in 1 .. Len(vtx) : g[i] = Resurrect(c, g[i - 1], vtx[i], refused)
  <2>1. p \in Pools
    BY DEF Minable, Sound
  <2>2. \E g : Resurrections(g, c, p, vtx, refused)
    BY <2>1, ResurrectedSteps
  <2> QED  BY <2>2 DEF Resurrections
<1>2. Returned(c, p, vtx, refused, p, 0)
  BY ReturnedFirst
<1> DEFINE Bad == {i \in 0 .. Len(vtx) : ~Returned(c, p, vtx, refused, g[i], i)}
<1>3. ASSUME Bad # {} PROVE FALSE
  <2>1. PICK i \in Bad : \A m \in Bad : i <= m
    <3>1. Bad \in SUBSET Nat  OBVIOUS
    <3> HIDE DEF Bad
    <3> QED  BY <1>3, <3>1, SmallestNumber
  <2>2. i # 0
    BY <1>1, <1>2, <2>1
  <2>3. i \in 1 .. Len(vtx) /\ i - 1 \in 0 .. Len(vtx) /\ ~(i <= i - 1)
    BY <2>1, <2>2
  <2>4. Returned(c, p, vtx, refused, g[i - 1], i - 1)
    BY <2>1, <2>3
  <2> QED  BY <1>1, <2>1, <2>3, <2>4, ReturnedStep
<1>4. Len(vtx) \in 0 .. Len(vtx)
  OBVIOUS
<1> QED  BY <1>1, <1>3, <1>4

\* DisconnectTip leaves a pool that can be mined, holds nothing new but the block's
\* transactions that the locks did not refuse, and misses only those that nothing can bring back.
LEMMA DisconnectMinable ==
  ASSUME NEW c, ChainValid(c), NEW vtx \in Seq(Tx), ValidBlock(c, vtx),
         NEW refused, NEW p, Minable(Append(c, vtx), p),
         NEW r, r = AfterDisconnect(c, p, vtx, refused)
  PROVE  /\ Minable(c, r)
         /\ \A u \in r.mapTx \ p.mapTx : u \in Range(vtx) /\ u \notin refused
         /\ \A t \in Range(vtx) :
              \/ t \in r.mapTx
              \/ t \in Generated \cup NonStandard \/ t \in refused
              \/ \E o \in Inputs[t] : ~Available(c, r, o)
<1> DEFINE q == Resurrected(c, p, vtx, refused)
           X == {t \in q.mapTx : \E o \in Inputs[t] :
                   o[1] \notin q.mapTx /\ (o[1] \in Confirmed(c) => ~Mature(c, o))}
<1>1. Returned(c, p, vtx, refused, q, Len(vtx))
  BY ResurrectedReturns
<1>2. r = Without(q, UNION {Descendants(q, t) : t \in X})
  BY DEF AfterDisconnect, InOrder, RemoveCoinbaseSpends
<1>3. \A t : t \in X <=> t \in q.mapTx /\ \E o \in Inputs[t] :
                           o[1] \notin q.mapTx /\ (o[1] \in Confirmed(c) => ~Mature(c, o))
  OBVIOUS
<1> HIDE DEF q, X
<1>4. /\ Sound(r)
      /\ r.mapTx \subseteq q.mapTx \ X
      /\ \A u \in r.mapTx : \A o \in Inputs[u] : o[1] \notin X /\ (o[1] \in q.mapTx => o[1] \in r.mapTx)
      /\ \A d \in q.mapTx \ r.mapTx : d \in X \/ \E o \in Inputs[d] : o[1] \in (X \cup q.mapTx) \ r.mapTx
  <2>1. Sound(q)
    BY <1>1 DEF Returned
  <2>2. X \subseteq q.mapTx
    BY <1>3
  <2> QED  BY <1>2, <2>1, <2>2, RemoveFamilies
<1>5. \A j \in Len(vtx) + 1 .. Len(vtx) : FALSE
  OBVIOUS
<1>6. ASSUME NEW u \in r.mapTx, NEW o \in Inputs[u] PROVE Available(c, r, o)
  <2>1. u \in q.mapTx /\ u \notin X
    BY <1>4
  <2>2. CASE o[1] \in q.mapTx
    BY <1>4, <2>2 DEF Available
  <2>3. CASE o[1] \notin q.mapTx
    <3>1. Unspent(c, o)
      BY <1>1, <1>5, <2>1, <2>3 DEF Returned
    <3> QED  BY <1>3, <2>1, <2>3, <3>1 DEF Available, Unspent
  <2> QED  BY <2>2, <2>3
<1>7. Minable(c, r)
  BY <1>1, <1>4, <1>6 DEF Minable, Returned
<1>8. \A u \in r.mapTx \ p.mapTx : u \in Range(vtx) /\ u \notin refused
  BY <1>1, <1>4 DEF Returned, Range
<1>9. ASSUME NEW t \in Range(vtx), t \notin r.mapTx, t \notin Generated \cup NonStandard, t \notin refused
      PROVE  \E o \in Inputs[t] : ~Available(c, r, o)
  <2>1. PICK j \in 1 .. Len(vtx) : t = vtx[j]
    BY DEF Range
  <2>2. CASE t \notin q.mapTx
    <3>1. Lost(c, vtx, refused, q, Len(vtx), t)
      BY <1>1, <2>1, <2>2 DEF Returned
    <3>2. PICK o \in Inputs[t] : o[1] \notin q.mapTx /\ ~(Unspent(c, o) /\ Mature(c, o))
      BY <1>9, <3>1 DEF Lost
    <3> QED  BY <1>4, <3>2 DEF Available
  <2>3. CASE t \in X
    <3>1. PICK o \in Inputs[t] : o[1] \notin q.mapTx /\ (o[1] \in Confirmed(c) => ~Mature(c, o))
      BY <1>3, <2>3
    <3> QED  BY <1>4, <3>1 DEF Available, Unspent
  <2>4. CASE t \in q.mapTx /\ t \notin X
    <3>1. PICK o \in Inputs[t] : o[1] \in (X \cup q.mapTx) \ r.mapTx
      BY <1>4, <1>9, <2>4
    <3>2. o[1] \in q.mapTx
      BY <1>3, <3>1
    <3>3. o[1] \notin Confirmed(c)
      BY <1>1, <3>2 DEF Returned
    <3> QED  BY <3>1, <3>3 DEF Available, Unspent
  <2> QED  BY <2>2, <2>3, <2>4
<1> QED  BY <1>7, <1>8, <1>9
-----------------------------------------------------------------------------
(***************************************************************************)
(* The orphan maps.                                                        *)
(***************************************************************************)

\* Whom an orphan came from, and what waits for whom.
OrphansExact(orph) ==
  /\ IsFiniteSet(DOMAIN orph.tx) /\ DOMAIN orph.tx \subseteq Tx
  /\ \A t \in DOMAIN orph.tx : orph.tx[t] \in Peers
  /\ DOMAIN orph.byPrev = UNION {Parents(t) : t \in DOMAIN orph.tx}
  /\ \A u \in DOMAIN orph.byPrev :
       orph.byPrev[u] = {t \in DOMAIN orph.tx : u \in Parents(t)}

\* AddOrphanTx keeps the maps exact ...
LEMMA AddOrphanExact ==
  ASSUME NEW orph, OrphansExact(orph), NEW t \in Tx, NEW peer \in Peers
  PROVE  OrphansExact(AddOrphan(orph, t, peer))
<1>1. CASE t \in DOMAIN orph.tx
  BY <1>1 DEF AddOrphan
<1>2. CASE t \notin DOMAIN orph.tx
  <2> DEFINE n == AddOrphan(orph, t, peer)
  <2>1. /\ DOMAIN n.tx = DOMAIN orph.tx \cup {t}
        /\ \A x \in DOMAIN n.tx : n.tx[x] = IF x = t THEN peer ELSE orph.tx[x]
        /\ DOMAIN n.byPrev = DOMAIN orph.byPrev \cup Parents(t)
        /\ \A u \in DOMAIN n.byPrev :
             n.byPrev[u] = (IF u \in DOMAIN orph.byPrev THEN orph.byPrev[u] ELSE {})
                             \cup (IF u \in Parents(t) THEN {t} ELSE {})
    BY <1>2 DEF AddOrphan
  <2> HIDE DEF n
  <2>2. IsFiniteSet(DOMAIN n.tx)
    BY <2>1, FS_AddElement DEF OrphansExact
  <2>3. DOMAIN n.byPrev = UNION {Parents(x) : x \in DOMAIN n.tx}
    BY <2>1 DEF OrphansExact
  <2>4. ASSUME NEW u \in DOMAIN n.byPrev
        PROVE  n.byPrev[u] = {x \in DOMAIN n.tx : u \in Parents(x)}
    <3>1. CASE u \in DOMAIN orph.byPrev
      BY <1>2, <2>1, <3>1 DEF OrphansExact
    <3>2. CASE u \notin DOMAIN orph.byPrev
      <4>1. \A x \in DOMAIN orph.tx : u \notin Parents(x)
        BY <3>2 DEF OrphansExact
      <4> QED  BY <2>1, <3>2, <4>1
    <3> QED  BY <3>1, <3>2
  <2>5. OrphansExact(n)
    BY <2>1, <2>2, <2>3, <2>4 DEF OrphansExact
  <2> QED  BY <2>5 DEF n
<1> QED  BY <1>1, <1>2

\* ... and so does EraseOrphanTx.
LEMMA EraseOrphansExact ==
  ASSUME NEW orph, OrphansExact(orph), NEW S
  PROVE  /\ OrphansExact(EraseOrphans(orph, S))
         /\ DOMAIN EraseOrphans(orph, S).tx = DOMAIN orph.tx \ S
<1> DEFINE n == EraseOrphans(orph, S)
<1>1. /\ DOMAIN n.tx = DOMAIN orph.tx \ S
      /\ \A x \in DOMAIN n.tx : n.tx[x] = orph.tx[x]
      /\ DOMAIN n.byPrev = {u \in DOMAIN orph.byPrev : ~(orph.byPrev[u] \subseteq S)}
      /\ \A u \in DOMAIN n.byPrev : n.byPrev[u] = orph.byPrev[u] \ S
  BY DEF EraseOrphans, Restricted
<1> HIDE DEF n
<1>2. IsFiniteSet(DOMAIN n.tx)
  BY <1>1, FS_Subset DEF OrphansExact
<1>3. \A u \in DOMAIN orph.byPrev : orph.byPrev[u] \subseteq S <=>
        \A x \in DOMAIN n.tx : u \notin Parents(x)
  BY <1>1 DEF OrphansExact
<1>4. DOMAIN n.byPrev = UNION {Parents(x) : x \in DOMAIN n.tx}
  BY <1>1, <1>3 DEF OrphansExact
<1>5. \A u \in DOMAIN n.byPrev : n.byPrev[u] = {x \in DOMAIN n.tx : u \in Parents(x)}
  BY <1>1 DEF OrphansExact
<1>6. OrphansExact(n)
  BY <1>1, <1>2, <1>4, <1>5 DEF OrphansExact
<1> QED  BY <1>1, <1>6 DEF n

\* LimitOrphanTxSize leaves no more than -maxorphantx of them.
LEMMA LimitedExact ==
  ASSUME NEW orph, OrphansExact(orph), NEW n \in Limited(orph)
  PROVE  OrphansExact(n) /\ Cardinality(DOMAIN n.tx) <= MaxOrphanTx
<1> DEFINE D == DOMAIN orph.tx
           k == Max({0, Cardinality(D) - MaxOrphanTx})
<1>1. PICK S \in SUBSET D : Cardinality(S) = k /\ n = EraseOrphans(orph, S)
  BY DEF Limited
<1>2. IsFiniteSet(D) /\ Cardinality(D) \in Nat /\ MaxOrphanTx \in Nat
  BY FS_CardinalityType, MempoolAssumption DEF OrphansExact
<1>3. k >= Cardinality(D) - MaxOrphanTx
  <2> DEFINE m == Cardinality(D) - MaxOrphanTx
  <2>1. m \in Int
    BY <1>2
  <2> HIDE DEF m
  <2>2. \E x \in {0, m} : \A y \in {0, m} : x >= y
    <3>1. CASE m <= 0
      BY <2>1, <3>1
    <3>2. CASE m > 0
      BY <2>1, <3>2
    <3> QED  BY <2>1, <3>1, <3>2
  <2>3. \A y \in {0, m} : Max({0, m}) >= y
    BY <2>2 DEF Max
  <2> QED  BY <2>3 DEF m
<1>4. DOMAIN n.tx = D \ S /\ OrphansExact(n)
  BY <1>1, EraseOrphansExact
<1>5. Cardinality(D \ S) = Cardinality(D) - Cardinality(D \cap S)
  BY <1>2, FS_Difference
<1>6. D \cap S = S /\ Cardinality(S) \in Nat
  BY <1>1, <1>2, FS_Subset, FS_CardinalityType
<1>7. Cardinality(D \ S) = Cardinality(D) - Cardinality(S)
  BY <1>5, <1>6
<1>8. Cardinality(S) >= Cardinality(D) - MaxOrphanTx
  BY <1>1, <1>3
<1> HIDE DEF D, k
<1>9. Cardinality(D \ S) <= MaxOrphanTx
  BY <1>2, <1>6, <1>7, <1>8
<1> QED  BY <1>4, <1>9

-----------------------------------------------------------------------------
(***************************************************************************)
(* The invariant.                                                          *)
(***************************************************************************)

\* The chain and the pool above it.
PoolInv ==
  /\ ChainValid(chain) /\ Len(chain) <= MaxHeight
  /\ Minable(chain, pool)

\* The orphan maps, and what the handler of "tx" has to do.
OrphansInv ==
  /\ OrphansExact(orphans) /\ Cardinality(DOMAIN orphans.tx) <= MaxOrphanTx
  /\ vWorkQueue \in Seq(Tx) /\ todo \subseteq Tx /\ vEraseQueue \subseteq Tx

\* A block of ConnectTip is a sequence of transactions.
LEMMA BlocksType ==
  ASSUME NEW vtx \in Blocks
  PROVE  vtx \in Seq(Tx)
<1>1. PICK m \in 0 .. MaxBlockTx : vtx \in [1 .. m -> Tx \ Funding]
  BY DEF Blocks, SeqOf
<1>2. m \in Nat
  BY <1>1, MempoolAssumption
<1> QED  BY <1>1, <1>2

\* It holds when the node starts.
LEMMA PoolInvInit ==
  ASSUME Init
  PROVE  PoolInv /\ OrphansInv
<1>1. ChainValid(chain) /\ Len(chain) <= MaxHeight
  BY MempoolAssumption DEF Init, ChainValid, Chains
<1>2. Minable(chain, pool)
  <2>1. pool.mapTx = {} /\ pool.mapNextTx = <<>> /\ pool = [mapTx |-> {}, mapNextTx |-> <<>>]
    BY DEF Init, EmptyPool
  <2>2. pool \in Pools
    <3>1. pool.mapNextTx \in [{} -> Tx]
      BY <2>1
    <3>2. pool.mapNextTx \in Spends
      BY <3>1 DEF Spends
    <3> QED  BY <2>1, <3>2 DEF Pools
  <2> QED  BY <2>1, <2>2 DEF Minable, Sound, Exact
<1>3. OrphansExact(orphans)
  <2>1. DOMAIN orphans.tx = {} /\ DOMAIN orphans.byPrev = {}
    BY DEF Init, NoOrphans
  <2> QED  BY <2>1, FS_EmptySet DEF OrphansExact
<1>4. Cardinality(DOMAIN orphans.tx) <= MaxOrphanTx
  <2>1. DOMAIN orphans.tx = {}
    BY DEF Init, NoOrphans
  <2> QED  BY <2>1, FS_EmptySet, MempoolAssumption
<1>5. vWorkQueue \in Seq(Tx) /\ todo \subseteq Tx /\ vEraseQueue \subseteq Tx
  BY DEF Init
<1> QED  BY <1>1, <1>2, <1>3, <1>4, <1>5 DEF PoolInv, OrphansInv
\* A transaction comes in: from a peer, out of the orphans, or from a caller of
\* AcceptToMemoryPool.
LEMMA AcceptKeeps ==
  ASSUME PoolInv, NEW t \in Tx, Fits(chain, pool, t), pool' = AddUnchecked(pool, t),
         UNCHANGED chain
  PROVE  PoolInv'
<1>1. Minable(chain, AddUnchecked(pool, t))
  BY AcceptMinable DEF PoolInv
<1> QED  BY <1>1 DEF PoolInv, Minable, ChainValid

\* A block is connected.
LEMMA ConnectTipKeeps ==
  ASSUME PoolInv, NEW vtx \in Seq(Tx), ConnectChecked(vtx)
  PROVE  PoolInv'
<1>1. vtx \in Seq(Tx) /\ ValidBlock(chain, vtx) /\ Len(chain) < MaxHeight
  BY DEF ConnectChecked
<1>2. ChainValid(Append(chain, vtx))
  BY <1>1, ChainGrows DEF PoolInv
<1>3. Minable(Append(chain, vtx), RemoveForBlock(pool, vtx))
  BY <1>1, ConnectMinable DEF PoolInv
<1>4. Len(Append(chain, vtx)) <= MaxHeight
  BY <1>1, MempoolAssumption DEF PoolInv, ChainValid, Chains
<1>5. chain' = Append(chain, vtx) /\ pool' = RemoveForBlock(pool, vtx)
  BY DEF ConnectChecked
<1> QED  BY <1>2, <1>3, <1>4, <1>5 DEF PoolInv

\* The tip is disconnected: besides, nothing comes in that the locks refused, and
\* what does not come back has an excuse.
LEMMA DisconnectTipKeeps ==
  ASSUME PoolInv, NEW refused, DisconnectRefusing(refused)
  PROVE  /\ PoolInv'
         /\ \A u \in pool'.mapTx \ pool.mapTx : u \in Range(Last(chain)) /\ u \notin refused
         /\ \A t \in Range(Last(chain)) : t \in pool'.mapTx \/ t \in refused \/ Excused(t)
<1> DEFINE c == Front(chain)
           vtx == Last(chain)
           r == AfterDisconnect(c, pool, vtx, refused)
<1>1. chain # <<>> /\ chain' = c /\ pool' = r
  BY DEF DisconnectRefusing
<1>2. /\ ChainValid(c) /\ vtx \in Seq(Tx) /\ ValidBlock(c, vtx)
      /\ chain = Append(c, vtx) /\ Len(c) = Len(chain) - 1
  BY <1>1, ChainShrinks DEF PoolInv
<1>3. Minable(Append(c, vtx), pool)
  BY <1>2 DEF PoolInv
<1> HIDE DEF c, vtx, r
<1>4. /\ Minable(c, r)
      /\ \A u \in r.mapTx \ pool.mapTx : u \in Range(vtx) /\ u \notin refused
      /\ \A t \in Range(vtx) :
           \/ t \in r.mapTx
           \/ t \in Generated \cup NonStandard \/ t \in refused
           \/ \E o \in Inputs[t] : ~Available(c, r, o)
  BY <1>2, <1>3, DisconnectMinable DEF r
<1>5. Len(c) <= MaxHeight
  BY <1>2, MempoolAssumption DEF PoolInv, ChainValid, Chains
<1>6. PoolInv'
  BY <1>1, <1>2, <1>4, <1>5 DEF PoolInv
<1>7. \A t \in Range(vtx) : t \in pool'.mapTx \/ t \in refused \/ Excused(t)
  BY <1>1, <1>4 DEF Excused
<1> QED  BY <1>1, <1>4, <1>6, <1>7 DEF vtx

\* Every step keeps the pool minable.
LEMMA PoolStep ==
  ASSUME PoolInv, OrphansInv, PoolNext
  PROVE  PoolInv'
<1>1. ASSUME UNCHANGED <<chain, pool>> PROVE PoolInv'
  BY <1>1 DEF PoolInv, Minable, ChainValid
<1>2. ASSUME NEW t \in Tx, NEW peer \in Peers, ReceiveTx(t, peer) PROVE PoolInv'
  BY <1>1, <1>2, AcceptKeeps DEF ReceiveTx, Acceptable
<1>3. ASSUME NEW t \in todo, TryOrphan(t) PROVE PoolInv'
  <2>1. t \in Tx
    BY DEF OrphansInv
  <2> QED  BY <1>1, <1>3, <2>1, AcceptKeeps DEF TryOrphan, Acceptable
<1>4. CASE NextParent
  BY <1>1, <1>4 DEF NextParent
<1>5. ASSUME NEW t \in Tx, Submit(t) PROVE PoolInv'
  BY <1>5, AcceptKeeps DEF Submit, Acceptable
<1>6. ASSUME NEW peer \in Peers, PeerGone(peer) PROVE PoolInv'
  BY <1>1, <1>6 DEF PeerGone
<1>7. ASSUME NEW vtx \in Blocks, ConnectTip(vtx) PROVE PoolInv'
  BY <1>7, BlocksType, ConnectTipKeeps DEF ConnectTip
<1>8. CASE DisconnectTip
  BY <1>8, DisconnectTipKeeps DEF DisconnectTip
<1> QED  BY <1>2, <1>3, <1>4, <1>5, <1>6, <1>7, <1>8 DEF PoolNext

\* Every step keeps the orphan maps exact.
LEMMA OrphansStep ==
  ASSUME OrphansInv, PoolNext
  PROVE  OrphansInv'
<1> USE DEF OrphansInv
<1>1. ASSUME UNCHANGED <<orphans, workVars>> PROVE OrphansInv'
  BY <1>1 DEF OrphansExact, workVars
<1>2. \A t : WaitingFor(t) \subseteq Tx
  BY DEF WaitingFor, OrphansExact
<1>3. \A S : /\ OrphansExact(EraseOrphans(orphans, S))
             /\ Cardinality(DOMAIN EraseOrphans(orphans, S).tx) <= MaxOrphanTx
  <2>1. SUFFICES ASSUME NEW S
                 PROVE  Cardinality(DOMAIN orphans.tx \ S) <= MaxOrphanTx
    BY EraseOrphansExact
  <2>2. /\ IsFiniteSet(DOMAIN orphans.tx)
        /\ Cardinality(DOMAIN orphans.tx \ S) <= Cardinality(DOMAIN orphans.tx)
    BY FS_Subset DEF OrphansExact
  <2>3. Cardinality(DOMAIN orphans.tx \ S) \in Nat /\ Cardinality(DOMAIN orphans.tx) \in Nat
    BY <2>2, FS_Subset, FS_CardinalityType
  <2> QED  BY <2>2, <2>3, MempoolAssumption
<1>4. ASSUME NEW t \in Tx, NEW peer \in Peers, ReceiveTx(t, peer) PROVE OrphansInv'
  <2>1. CASE vWorkQueue' = <<t>> /\ todo' = WaitingFor(t) /\ UNCHANGED <<orphans, vEraseQueue>>
    BY <1>2, <2>1 DEF OrphansExact
  <2>2. CASE orphans' \in Limited(AddOrphan(orphans, t, peer)) /\ UNCHANGED workVars
    <3>1. OrphansExact(orphans') /\ Cardinality(DOMAIN orphans'.tx) <= MaxOrphanTx
      BY <2>2, AddOrphanExact, LimitedExact
    <3> QED  BY <2>2, <3>1 DEF workVars
  <2> QED  BY <1>4, <2>1, <2>2 DEF ReceiveTx
<1>5. ASSUME NEW t \in todo, TryOrphan(t) PROVE OrphansInv'
  <2>1. t \in Tx /\ todo' = todo \ {t} /\ UNCHANGED orphans
    BY <1>5 DEF TryOrphan
  <2>2. vWorkQueue' \in {vWorkQueue, Append(vWorkQueue, t)} /\ vEraseQueue' \in {vEraseQueue, vEraseQueue \cup {t}}
    BY <1>5 DEF TryOrphan, Deeper
  <2> QED  BY <2>1, <2>2 DEF OrphansExact
<1>6. CASE NextParent
  <2>1. vWorkQueue # <<>> /\ vWorkQueue' = Tail(vWorkQueue)
    BY <1>6 DEF NextParent, MainFree
  <2>2. vWorkQueue' \in Seq(Tx)
    BY <2>1
  <2>3. CASE Len(vWorkQueue) > 1 /\ todo' = WaitingFor(vWorkQueue[2]) /\ UNCHANGED <<orphans, vEraseQueue>>
    BY <1>2, <2>2, <2>3 DEF OrphansExact
  <2>4. CASE orphans' = EraseOrphans(orphans, vEraseQueue) /\ vEraseQueue' = {} /\ UNCHANGED todo
    BY <1>3, <2>2, <2>4
  <2> QED  BY <1>6, <2>3, <2>4 DEF NextParent
<1>7. ASSUME NEW t \in Tx, Submit(t) PROVE OrphansInv'
  BY <1>1, <1>7 DEF Submit
<1>8. ASSUME NEW peer \in Peers, PeerGone(peer) PROVE OrphansInv'
  BY <1>3, <1>8 DEF PeerGone, workVars
<1>9. ASSUME NEW vtx \in Blocks, ConnectTip(vtx) PROVE OrphansInv'
  BY <1>1, <1>9 DEF ConnectTip, ConnectChecked
<1>10. CASE DisconnectTip
  BY <1>1, <1>10 DEF DisconnectTip, DisconnectRefusing
<1> QED  BY <1>4, <1>5, <1>6, <1>7, <1>8, <1>9, <1>10 DEF PoolNext

\* No step of the pool, the orphans or the chain touches a lock.
LEMMA LocksUntouched ==
  ASSUME PoolNext
  PROVE  UNCHANGED mapLockedInputs
BY DEF PoolNext, ReceiveTx, TryOrphan, NextParent, Submit, PeerGone, ConnectTip, ConnectChecked, DisconnectTip,
       DisconnectRefusing

-----------------------------------------------------------------------------
(***************************************************************************)
(* The handler of "tx".                                                    *)
(***************************************************************************)

\* What the handler has accepted; those whose orphans it has not looked for yet.
Taken == (vEraseQueue \cap pool.mapTx) \cup Range(vWorkQueue)
Waiting == Range(Tail(vWorkQueue))

\* What the handler has to do are the orphans of the first of vWorkQueue, and it
\* leaves nothing behind when it is done.
TodoInv ==
  IF MainFree THEN todo = {} /\ vEraseQueue = {} ELSE todo \subseteq WaitingFor(Head(vWorkQueue))

\* A child of an accepted transaction that is in the pool was accepted by the
\* handler, too: it was not there before its parent.
ChildrenInv ==
  \A u \in Range(vWorkQueue) : \A t \in pool.mapTx : u \in Parents(t) => t \in vEraseQueue

\* An orphan that the handler has passed by lacks an input, unless the handler
\* comes back to it.
PassedInv ==
  \A t \in DOMAIN orphans.tx \ (todo \cup vEraseQueue) :
    Parents(t) \cap Taken # {} /\ Parents(t) \cap Waiting = {} => ~InputsKnown(chain, pool, t)

HandlerInv == TodoInv /\ (MainFree \/ (ChildrenInv /\ PassedInv))

\* Who waits for whom is what the transactions spend.
LEMMA WaitingForIs ==
  ASSUME OrphansInv, NEW u
  PROVE  WaitingFor(u) = {t \in DOMAIN orphans.tx : u \in Parents(t)}
BY DEF OrphansInv, OrphansExact, WaitingFor

\* No child of a transaction is in the pool when it is accepted.
LEMMA ChildrenComeLater ==
  ASSUME PoolInv, NEW u \in Tx, Acceptable(chain, pool, u), NEW t \in pool.mapTx
  PROVE  u \notin Parents(t)
<1>1. SUFFICES ASSUME NEW o \in Inputs[t], o[1] = u PROVE FALSE
  BY DEF Parents
<1>2. Available(chain, pool, o)
  BY DEF PoolInv, Minable
<1>3. u \notin pool.mapTx /\ u \notin Confirmed(chain)
  BY FittingIsNew DEF PoolInv, Acceptable, Fits, Considered
<1> QED  BY <1>1, <1>2, <1>3 DEF Available, Unspent

\* What comes into the pool makes only the inputs of its children known.
LEMMA InputsStayUnknown ==
  ASSUME NEW p \in Pools, NEW u \in Tx, NEW t, u \notin Parents(t),
         InputsKnown(chain, AddUnchecked(p, u), t)
  PROVE  InputsKnown(chain, p, t)
<1>1. AddUnchecked(p, u).mapTx = p.mapTx \cup {u}
  BY AddType
<1>2. \A o \in Inputs[t] : o[1] # u
  BY DEF Parents
<1> QED  BY <1>1, <1>2 DEF InputsKnown, HaveCoins

\* The first and the others of a queue.
LEMMA QueueFacts ==
  ASSUME NEW q \in Seq(Tx), q # <<>>
  PROVE  /\ Range(q) = {Head(q)} \cup Range(Tail(q)) /\ Tail(q) \in Seq(Tx)
         /\ Len(q) > 1 => Tail(q) # <<>> /\ Head(Tail(q)) = q[2]
         /\ Len(q) = 1 => Tail(q) = <<>> /\ Last(q) = Head(q)
         /\ \A t \in Tx : /\ Append(q, t) # <<>> /\ Head(Append(q, t)) = Head(q)
                          /\ Range(Append(q, t)) = Range(q) \cup {t}
                          /\ Range(Tail(Append(q, t))) = Range(Tail(q)) \cup {t}
<1>1. Len(q) \in Nat /\ Len(q) > 0
  OBVIOUS
<1>2. Tail(q) \in Seq(Tx) /\ Len(Tail(q)) = Len(q) - 1 /\ \A i \in 1 .. Len(q) - 1 : Tail(q)[i] = q[i + 1]
  OBVIOUS
<1>3. Range(q) = {Head(q)} \cup Range(Tail(q))
  <2>1. ASSUME NEW i \in 1 .. Len(q) PROVE q[i] \in {Head(q)} \cup Range(Tail(q))
    <3>1. CASE i = 1
      BY <3>1
    <3>2. CASE i # 1
      <4>1. i - 1 \in 1 .. Len(q) - 1 /\ (i - 1) + 1 = i
        BY <1>1, <3>2
      <4>2. i - 1 \in DOMAIN Tail(q) /\ Tail(q)[i - 1] = q[i]
        BY <1>2, <4>1
      <4> QED  BY <4>2 DEF Range
    <3> QED  BY <3>1, <3>2
  <2>2. ASSUME NEW i \in 1 .. Len(q) - 1 PROVE Tail(q)[i] \in Range(q)
    BY <1>1, <1>2 DEF Range
  <2>3. Head(q) \in Range(q)
    BY <1>1 DEF Range
  <2>4. DOMAIN Tail(q) = 1 .. Len(q) - 1 /\ DOMAIN q = 1 .. Len(q)
    BY <1>1, <1>2
  <2>5. \A x : x \in Range(q) <=> \E i \in 1 .. Len(q) : x = q[i]
    BY <2>4 DEF Range
  <2>6. \A x : x \in Range(Tail(q)) <=> \E i \in 1 .. Len(q) - 1 : x = Tail(q)[i]
    BY <2>4 DEF Range
  <2> QED  BY <2>1, <2>2, <2>3, <2>5, <2>6
<1>4. ASSUME Len(q) > 1 PROVE Tail(q) # <<>> /\ Head(Tail(q)) = q[2]
  <2> DEFINE r == Tail(q)
  <2>1. r \in Seq(Tx) /\ Len(r) > 0 /\ r[1] = q[1 + 1]
    BY <1>1, <1>2, <1>4
  <2> HIDE DEF r
  <2>2. r # <<>> /\ Head(r) = r[1]
    BY <2>1
  <2> QED  BY <2>1, <2>2 DEF r
<1>5. ASSUME Len(q) = 1 PROVE Tail(q) = <<>> /\ Last(q) = Head(q)
  <2>1. Last(q) = Head(q)
    BY <1>5 DEF Last
  <2> DEFINE r == Tail(q)
  <2>2. r \in Seq(Tx) /\ Len(r) = 0
    BY <1>2, <1>5
  <2> HIDE DEF r
  <2>3. r = <<>>
    BY <2>2
  <2> QED  BY <2>1, <2>3 DEF r
<1>6. ASSUME NEW r \in Seq(Tx), NEW t \in Tx PROVE Range(Append(r, t)) = Range(r) \cup {t}
  <2>1. /\ DOMAIN Append(r, t) = DOMAIN r \cup {Len(r) + 1}
        /\ Append(r, t)[Len(r) + 1] = t /\ \A i \in DOMAIN r : Append(r, t)[i] = r[i]
    OBVIOUS
  <2> QED  BY <2>1 DEF Range
<1>7. ASSUME NEW t \in Tx
      PROVE  Append(q, t) # <<>> /\ Head(Append(q, t)) = Head(q) /\ Tail(Append(q, t)) = Append(Tail(q), t)
  <2>1. Append(q, t) # <<>> /\ Head(Append(q, t)) = Head(q)
    BY <1>1
  <2>2. Tail(Append(q, t)) = Append(Tail(q), t)
    BY <1>1, <1>2
  <2> QED  BY <2>1, <2>2
<1> QED  BY <1>2, <1>3, <1>4, <1>5, <1>6, <1>7
\* An accepted transaction does not spend its own outputs.
LEMMA NoOwnParent ==
  ASSUME PoolInv, NEW t \in Tx, Acceptable(chain, pool, t)
  PROVE  t \notin Parents(t)
<1>1. SUFFICES ASSUME NEW o \in Inputs[t], o[1] = t PROVE FALSE
  BY DEF Parents
<1>2. Available(chain, pool, o) /\ t \notin pool.mapTx /\ t \notin Confirmed(chain)
  BY <1>1, FittingIsNew DEF PoolInv, Acceptable, Fits, Considered
<1> QED  BY <1>1, <1>2 DEF Available, Unspent

\* The handler begins.
LEMMA HandlerStarts ==
  ASSUME PoolInv, OrphansInv, HandlerInv, MainFree, NEW t \in Tx, Acceptable(chain, pool, t),
         pool' = AddUnchecked(pool, t), vWorkQueue' = <<t>>, todo' = WaitingFor(t),
         UNCHANGED <<orphans, vEraseQueue>>
  PROVE  HandlerInv'
<1>1. /\ vWorkQueue' # <<>> /\ Head(vWorkQueue') = t
      /\ Range(vWorkQueue') = {t} /\ vEraseQueue' = {}
  BY DEF Range, HandlerInv, TodoInv
<1>2. ~MainFree' /\ TodoInv'
  BY <1>1 DEF MainFree, TodoInv, WaitingFor
<1>3. pool'.mapTx = pool.mapTx \cup {t}
  BY AddType DEF PoolInv, Minable, Sound
<1>4. ChildrenInv'
  BY <1>1, <1>3, NoOwnParent, ChildrenComeLater DEF ChildrenInv
<1>5. PassedInv'
  <2>1. Taken' = {t}
    BY <1>1 DEF Taken
  <2>2. \A x \in DOMAIN orphans.tx : t \in Parents(x) => x \in todo'
    BY WaitingForIs
  <2> QED  BY <2>1, <2>2 DEF PassedInv
<1> QED  BY <1>2, <1>4, <1>5 DEF HandlerInv

\* The next orphan is tried.
LEMMA HandlerTries ==
  ASSUME PoolInv, OrphansInv, HandlerInv, NEW t \in todo, TryOrphan(t)
  PROVE  HandlerInv'
<1>1. /\ ~MainFree /\ vWorkQueue \in Seq(Tx) /\ vWorkQueue # <<>> /\ t \in Tx
      /\ todo \subseteq WaitingFor(Head(vWorkQueue)) /\ ChildrenInv /\ PassedInv
  BY DEF HandlerInv, TodoInv, MainFree, OrphansInv
<1>2. /\ Range(vWorkQueue) = {Head(vWorkQueue)} \cup Range(Tail(vWorkQueue))
      /\ Append(vWorkQueue, t) # <<>> /\ Head(Append(vWorkQueue, t)) = Head(vWorkQueue)
      /\ Range(Append(vWorkQueue, t)) = Range(vWorkQueue) \cup {t}
      /\ Range(Tail(Append(vWorkQueue, t))) = Range(Tail(vWorkQueue)) \cup {t}
  BY <1>1, QueueFacts
<1>3. todo' = todo \ {t} /\ UNCHANGED <<chain, orphans>>
  BY DEF TryOrphan
<1>4. CASE /\ Acceptable(chain, pool, t) /\ pool' = AddUnchecked(pool, t)
           /\ vWorkQueue' = Append(vWorkQueue, t) /\ vEraseQueue' = vEraseQueue \cup {t}
  <2>1. pool \in Pools /\ pool'.mapTx = pool.mapTx \cup {t}
    BY <1>1, <1>4, AddType DEF PoolInv, Minable, Sound
  <2>2. ~MainFree' /\ TodoInv'
    BY <1>1, <1>2, <1>3, <1>4 DEF MainFree, TodoInv, WaitingFor
  <2>3. ChildrenInv'
    BY <1>1, <1>2, <1>4, <2>1, NoOwnParent, ChildrenComeLater DEF ChildrenInv
  <2>4. PassedInv'
    <3> SUFFICES ASSUME NEW x \in DOMAIN orphans.tx, x \notin todo', x \notin vEraseQueue',
                        Parents(x) \cap Taken' # {}, Parents(x) \cap Waiting' = {},
                        InputsKnown(chain, pool', x)
                 PROVE  FALSE
      BY <1>3 DEF PassedInv
    <3>1. x \notin todo /\ x \notin vEraseQueue
      BY <1>3, <1>4
    <3>2. Parents(x) \cap Waiting = {} /\ t \notin Parents(x)
      BY <1>2, <1>4 DEF Waiting
    <3>3. Parents(x) \cap Taken # {}
      BY <1>2, <1>4, <2>1, <3>2 DEF Taken
    <3>4. InputsKnown(chain, pool, x)
      BY <1>1, <1>4, <2>1, <3>2, InputsStayUnknown
    <3> QED  BY <1>1, <3>1, <3>2, <3>3, <3>4 DEF PassedInv
  <2> QED  BY <2>2, <2>3, <2>4 DEF HandlerInv
<1>5. CASE /\ ~Acceptable(chain, pool, t) /\ ~MissingInputs(chain, pool, t)
           /\ vEraseQueue' = vEraseQueue \cup {t} /\ UNCHANGED <<pool, vWorkQueue>>
  <2>1. ~MainFree' /\ TodoInv'
    BY <1>1, <1>3, <1>5 DEF MainFree, TodoInv, WaitingFor
  <2>2. ChildrenInv'
    BY <1>1, <1>5 DEF ChildrenInv
  <2>3. t \in pool.mapTx => t \in vEraseQueue
    <3>1. Head(vWorkQueue) \in Parents(t)
      BY <1>1, WaitingForIs
    <3> QED  BY <1>1, <1>2, <3>1 DEF ChildrenInv
  <2>4. Taken' = Taken /\ Waiting' = Waiting
    BY <1>5, <2>3 DEF Taken, Waiting
  <2>5. PassedInv'
    BY <1>1, <1>3, <1>5, <2>4 DEF PassedInv, InputsKnown, HaveCoins, Unspent, Mined, Confirmed
  <2> QED  BY <2>1, <2>2, <2>5 DEF HandlerInv
<1>6. CASE MissingInputs(chain, pool, t) /\ UNCHANGED <<pool, vWorkQueue, vEraseQueue>>
  <2>1. ~MainFree' /\ TodoInv'
    BY <1>1, <1>3, <1>6 DEF MainFree, TodoInv, WaitingFor
  <2>2. ChildrenInv'
    BY <1>1, <1>6 DEF ChildrenInv
  <2>3. Taken' = Taken /\ Waiting' = Waiting /\ ~InputsKnown(chain, pool, t)
    BY <1>6 DEF Taken, Waiting, MissingInputs
  <2>4. PassedInv'
    BY <1>1, <1>3, <1>6, <2>3 DEF PassedInv
  <2> QED  BY <2>1, <2>2, <2>4 DEF HandlerInv
<1> QED  BY <1>4, <1>5, <1>6 DEF TryOrphan, Deeper

\* The next accepted transaction's orphans, or the end.
LEMMA HandlerGoesOn ==
  ASSUME PoolInv, OrphansInv, HandlerInv, NextParent
  PROVE  /\ HandlerInv'
         /\ vWorkQueue' = <<>> =>
              \A t \in DOMAIN orphans'.tx :
                Parents(t) \cap (AcceptedOrphans \cup {Last(vWorkQueue)}) # {} => ~Acceptable(chain, pool, t)
<1>1. /\ ~MainFree /\ vWorkQueue \in Seq(Tx) /\ vWorkQueue # <<>> /\ todo = {}
      /\ ChildrenInv /\ PassedInv /\ vWorkQueue' = Tail(vWorkQueue) /\ UNCHANGED <<chain, pool>>
  BY DEF HandlerInv, MainFree, OrphansInv, NextParent
<1>2. /\ Range(vWorkQueue) = {Head(vWorkQueue)} \cup Range(Tail(vWorkQueue))
      /\ Tail(vWorkQueue) \in Seq(Tx)
      /\ Len(vWorkQueue) > 1 => Tail(vWorkQueue) # <<>> /\ Head(Tail(vWorkQueue)) = vWorkQueue[2]
      /\ Len(vWorkQueue) = 1 => Tail(vWorkQueue) = <<>> /\ Last(vWorkQueue) = Head(vWorkQueue)
  BY <1>1, QueueFacts
<1>3. CASE /\ Len(vWorkQueue) > 1 /\ todo' = WaitingFor(vWorkQueue[2])
           /\ UNCHANGED <<orphans, vEraseQueue>>
  <2>1. vWorkQueue' # <<>> /\ Head(vWorkQueue') = vWorkQueue[2]
    BY <1>1, <1>2, <1>3
  <2>2. ~MainFree' /\ TodoInv'
    BY <1>3, <2>1 DEF MainFree, TodoInv, WaitingFor
  <2>3. ChildrenInv'
    BY <1>1, <1>2, <1>3 DEF ChildrenInv
  <2>4. PassedInv'
    <3> SUFFICES ASSUME NEW x \in DOMAIN orphans.tx, x \notin todo', x \notin vEraseQueue,
                        Parents(x) \cap Taken' # {}, Parents(x) \cap Waiting' = {}
                 PROVE  ~InputsKnown(chain, pool, x)
      BY <1>1, <1>3 DEF PassedInv
    <3>1. Head(vWorkQueue') \notin Parents(x)
      BY <1>3, <2>1, WaitingForIs
    <3>2. Range(vWorkQueue') = {Head(vWorkQueue')} \cup Waiting'
      BY <1>1, <1>2, <2>1, QueueFacts DEF Waiting
    <3>3. Parents(x) \cap Waiting = {}
      BY <1>1, <3>1, <3>2 DEF Waiting
    <3>4. Parents(x) \cap Taken # {}
      BY <1>1, <1>2, <1>3 DEF Taken
    <3> QED  BY <1>1, <3>3, <3>4 DEF PassedInv
  <2> QED  BY <2>1, <2>2, <2>3, <2>4 DEF HandlerInv
<1>4. CASE /\ Len(vWorkQueue) = 1 /\ orphans' = EraseOrphans(orphans, vEraseQueue)
           /\ vEraseQueue' = {} /\ UNCHANGED todo
  <2>1. vWorkQueue' = <<>> /\ HandlerInv'
    BY <1>1, <1>2, <1>4 DEF HandlerInv, TodoInv, MainFree
  <2>2. Waiting = {} /\ Range(vWorkQueue) = {Last(vWorkQueue)}
    BY <1>2, <1>4 DEF Waiting, Range
  <2>3. DOMAIN orphans'.tx = DOMAIN orphans.tx \ vEraseQueue
    BY <1>4, EraseOrphansExact DEF OrphansInv
  <2>4. Taken = AcceptedOrphans \cup {Last(vWorkQueue)}
    BY <2>2 DEF Taken, AcceptedOrphans
  <2> QED  BY <1>1, <2>1, <2>2, <2>3, <2>4 DEF PassedInv, Acceptable, Fits
<1> QED  BY <1>3, <1>4 DEF NextParent

\* The other actions wait for the handler to end.
LEMMA HandlerStep ==
  ASSUME PoolInv, OrphansInv, HandlerInv, PoolNext
  PROVE  HandlerInv'
<1>1. ASSUME MainFree, UNCHANGED workVars PROVE HandlerInv'
  BY <1>1 DEF HandlerInv, TodoInv, MainFree, workVars
<1>2. ASSUME NEW t \in Tx, NEW peer \in Peers, ReceiveTx(t, peer) PROVE HandlerInv'
  BY <1>1, <1>2, HandlerStarts DEF ReceiveTx
<1>3. ASSUME NEW t \in todo, TryOrphan(t) PROVE HandlerInv'
  BY <1>3, HandlerTries
<1>4. CASE NextParent
  BY <1>4, HandlerGoesOn
<1>5. ASSUME NEW t \in Tx, Submit(t) PROVE HandlerInv'
  BY <1>1, <1>5 DEF Submit
<1>6. ASSUME NEW peer \in Peers, PeerGone(peer) PROVE HandlerInv'
  BY <1>1, <1>6 DEF PeerGone
<1>7. ASSUME NEW vtx \in Blocks, ConnectTip(vtx) PROVE HandlerInv'
  BY <1>1, <1>7 DEF ConnectTip, ConnectChecked
<1>8. CASE DisconnectTip
  BY <1>1, <1>8 DEF DisconnectTip, DisconnectRefusing
<1> QED  BY <1>2, <1>3, <1>4, <1>5, <1>6, <1>7, <1>8 DEF PoolNext

-----------------------------------------------------------------------------
(***************************************************************************)
(* The theorems.                                                           *)
(***************************************************************************)

\* The invariant, with the locks of which this module knows none.
IInv == PoolInv /\ OrphansInv /\ HandlerInv /\ mapLockedInputs = <<>>

\* It is inductive.
THEOREM Invariance == PoolSpec => []IInv
<1>1. Init => IInv
  BY PoolInvInit DEF Init, IInv, HandlerInv, TodoInv, MainFree
<1>2. IInv /\ [PoolNext]_vars => IInv'
  <2> SUFFICES ASSUME IInv, [PoolNext]_vars PROVE IInv'
    OBVIOUS
  <2> USE DEF IInv
  <2>1. CASE PoolNext
    BY <2>1, PoolStep, OrphansStep, HandlerStep, LocksUntouched
  <2>2. CASE UNCHANGED vars
    <3>1. PoolInv' /\ OrphansInv' /\ mapLockedInputs' = <<>>
      BY <2>2 DEF vars, poolVars, workVars, PoolInv, Minable, ChainValid, OrphansInv, OrphansExact
    <3>2. HandlerInv'
      BY <2>2 DEF vars, poolVars, workVars, HandlerInv, TodoInv, ChildrenInv, PassedInv, Taken,
                  Waiting, MainFree, WaitingFor
    <3> QED  BY <3>1, <3>2
  <2> QED  BY <2>1, <2>2
<1> QED  BY <1>1, <1>2, PTL DEF PoolSpec

\* The types, the size of the orphan maps, and that the two of them agree.
THEOREM TypesCorrect == PoolSpec => []TypeOK
<1>1. IInv => TypeOK
  <2> SUFFICES ASSUME IInv PROVE TypeOK
    OBVIOUS
  <2>1. chain \in Seq(Seq(Tx)) /\ Len(chain) <= MaxHeight
    BY DEF IInv, PoolInv, ChainValid, Chains
  <2>2. pool.mapTx \subseteq Tx /\ Range(pool.mapNextTx) \subseteq Tx
    BY SpendsIs DEF IInv, PoolInv, Minable, Sound, Range
  <2>3. Range(mapLockedInputs) \subseteq Tx
    BY DEF IInv, Range
  <2>4. Range(vWorkQueue) \cup todo \cup vEraseQueue \subseteq Tx
    BY DEF IInv, OrphansInv, Range
  <2>5. Range(orphans.tx) \subseteq Peers
    BY DEF IInv, OrphansInv, OrphansExact, Range
  <2> QED  BY <2>1, <2>2, <2>3, <2>4, <2>5 DEF TypeOK, IInv, OrphansInv, OrphansExact
<1> QED  BY <1>1, Invariance, PTL

\* CTxMemPool::check: all of the pool could be mined on top of the chain.
THEOREM PoolCorrect == PoolSpec => []PoolMinable
<1>1. IInv => PoolMinable
  BY DEF IInv, PoolInv, Minable, Sound, Exact, PoolMinable
<1> QED  BY <1>1, Invariance, PTL

\* A disconnected block's transactions are back in the pool, but for those that
\* cannot be there.
THEOREM DisconnectCorrect == PoolSpec => NothingLost
<1>1. IInv /\ [PoolNext]_vars =>
        [Len(chain') < Len(chain) =>
           \A t \in Range(Last(chain)) : t \in pool'.mapTx \/ Excused(t)]_vars
  <2> SUFFICES ASSUME IInv, PoolNext, Len(chain') < Len(chain)
               PROVE  \A t \in Range(Last(chain)) : t \in pool'.mapTx \/ Excused(t)
    OBVIOUS
  <2>1. Len(chain) \in Nat
    BY DEF IInv, PoolInv, ChainValid, Chains
  <2>2. chain' # chain
    BY <2>1
  <2>3. ~ \E vtx \in Blocks : ConnectTip(vtx)
    <3> SUFFICES ASSUME NEW vtx \in Blocks, ConnectTip(vtx) PROVE FALSE
      OBVIOUS
    <3>1. Len(chain') = Len(chain) + 1
      BY BlocksType DEF ConnectTip, ConnectChecked, IInv, PoolInv, ChainValid, Chains
    <3> QED  BY <2>1, <3>1
  <2>4. DisconnectTip
    BY <2>2, <2>3 DEF PoolNext, ReceiveTx, TryOrphan, NextParent, Submit, PeerGone
  <2> QED  BY <2>4, DisconnectTipKeeps DEF IInv, DisconnectTip, Excused
<1> QED  BY <1>1, Invariance, PTL DEF PoolSpec, NothingLost

\* When the handler of "tx" is done, no orphan is left that could be accepted
\* after a parent which the handler accepted.
THEOREM OrphansCorrect == PoolSpec => OrphansFollowParents
<1>1. IInv /\ [PoolNext]_vars =>
        [~MainFree /\ vWorkQueue' = <<>> =>
           \A t \in DOMAIN orphans'.tx :
             Parents(t) \cap (AcceptedOrphans \cup {Last(vWorkQueue)}) # {} =>
               ~Acceptable(chain, pool, t)]_vars
  <2> SUFFICES ASSUME IInv, PoolNext, ~MainFree, vWorkQueue' = <<>>
               PROVE  \A t \in DOMAIN orphans'.tx :
                        Parents(t) \cap (AcceptedOrphans \cup {Last(vWorkQueue)}) # {} =>
                          ~Acceptable(chain, pool, t)
    OBVIOUS
  <2>1. vWorkQueue \in Seq(Tx) /\ vWorkQueue # <<>>
    BY DEF IInv, OrphansInv, MainFree
  <2>2. ASSUME NEW t \in todo, TryOrphan(t) PROVE FALSE
    <3>1. vWorkQueue' = vWorkQueue \/ vWorkQueue' = Append(vWorkQueue, t)
      BY <2>2 DEF TryOrphan, Deeper
    <3>2. Append(vWorkQueue, t) # <<>>
      BY <2>1, QueueFacts, <2>2 DEF IInv, OrphansInv
    <3> QED  BY <2>1, <3>1, <3>2
  <2>3. NextParent
    BY <2>2 DEF PoolNext, ReceiveTx, Submit, PeerGone, ConnectTip, ConnectChecked, DisconnectTip,
                DisconnectRefusing
  <2> QED  BY <2>3, HandlerGoesOn DEF IInv
<1> QED  BY <1>1, Invariance, PTL DEF PoolSpec, OrphansFollowParents

-----------------------------------------------------------------------------
(***************************************************************************)
(* SwiftLocks.                                                             *)
(***************************************************************************)

\* A lock, whatever the number of its votes.
LockRecords ==
  [hasHeight : BOOLEAN, vecConsensusVotes : Seq(Masternodes), nExpiration : -1 .. Life]

\* No masternode votes twice, and every vote that counts was seen.
VotesSound(locks, seen) ==
  \A t \in DOMAIN locks :
    /\ t \in Requests /\ locks[t] \in LockRecords
    /\ IsInjective(locks[t].vecConsensusVotes)
    /\ \A i \in DOMAIN locks[t].vecConsensusVotes :
         <<locks[t].vecConsensusVotes[i], t>> \in seen

\* What holds an input: a request that was rejected, or a complete lock, with the
\* request that the input will be released with.
Held(o, t, locks, requests) ==
  /\ t \in DOMAIN locks /\ Complete(locks[t])
  /\ t \in DOMAIN requests /\ o \in requests[t]
InputsHeld(locked, locks, requests, rejected) ==
  \A o \in DOMAIN locked :
    locked[o] \in Requests /\ (locked[o] \in rejected \/ Held(o, locked[o], locks, requests))

LocksInv ==
  /\ VotesSound(mapTxLocks, mapTxLockVote)
  /\ InputsHeld(mapLockedInputs, mapTxLocks, mapTxLockReq, everRejected)
  /\ DOMAIN mapTxLockReq \cup mapTxLockReqRejected \cup everRejected \subseteq Requests
  /\ mapTxLockVote \subseteq Masternodes \X Requests
  /\ replay \in 0 .. ReprocessDepth + 1

\* What the threads know, each between two of its steps.  One that has cs_main
\* finds the pool and the chain as it left them.
ThreadsInv ==
  /\ request = <<>> \/ request \in Requests \X BOOLEAN
  /\ checked \subseteq Blocks
  /\ \/ task = NoTask
     \/ MainFree /\ \E t \in Tx : task = Accept(t) /\ Fits(chain, pool, t)
     \/ /\ MainFree /\ chain # <<>>
        /\ \E S \in SUBSET Range(Last(chain)), R \in SUBSET Range(Last(chain)) : task = Undo(S, R)

\* t spends nothing that is locked to another, or the lock came after the test;
\* and so it is for all that has passed its test and is not in yet.
Asked(t) ==
  \A o \in Inputs[t] : o \in DOMAIN mapLockedInputs => mapLockedInputs[o] = t \/ <<o, t>> \in early
TestedInv == \A t \in Tested(task, checked) : Asked(t)

SwiftInv == PoolInv /\ OrphansInv /\ HandlerInv /\ LocksInv /\ ThreadsInv /\ TestedInv

-----------------------------------------------------------------------------
(***************************************************************************)
(* What the handlers do to the locks.                                      *)
(***************************************************************************)

\* The new locks have at least the votes and the heights of the old ones.
Extended(old, new) ==
  /\ DOMAIN old \subseteq DOMAIN new
  /\ \A t \in DOMAIN old : Complete(old[t]) => Complete(new[t])

\* A complete lock that stays complete still holds its inputs.
LEMMA HeldStays ==
  ASSUME NEW old, NEW new, Extended(old, new), NEW requests, NEW more,
         \A t \in DOMAIN requests : t \in DOMAIN more /\ more[t] = requests[t],
         NEW o, NEW t, Held(o, t, old, requests)
  PROVE  Held(o, t, new, more)
BY DEF Held, Extended

\* The lock that is created for a request has no votes yet.
LEMMA CreateNewLockKeeps ==
  ASSUME VotesSound(mapTxLocks, mapTxLockVote), NEW t \in Requests
  PROVE  /\ VotesSound(CreateNewLock(t), mapTxLockVote)
         /\ Extended(mapTxLocks, CreateNewLock(t))
<1>1. CASE CreateNewLock(t) = mapTxLocks
  BY <1>1 DEF Extended
<1>2. CASE t \in DOMAIN mapTxLocks /\ CreateNewLock(t) = [mapTxLocks EXCEPT ![t].hasHeight = TRUE]
  <2> DEFINE L == [mapTxLocks EXCEPT ![t].hasHeight = TRUE]
  <2>1. /\ DOMAIN L = DOMAIN mapTxLocks
        /\ \A x \in DOMAIN L : x # t => L[x] = mapTxLocks[x]
        /\ L[t] = [mapTxLocks[t] EXCEPT !.hasHeight = TRUE]
    BY <1>2
  <2>2. mapTxLocks[t] \in LockRecords
    BY <1>2 DEF VotesSound
  <2> HIDE DEF L
  <2>3. /\ L[t] \in LockRecords /\ L[t].hasHeight
        /\ L[t].vecConsensusVotes = mapTxLocks[t].vecConsensusVotes
    BY <2>1, <2>2 DEF LockRecords
  <2>4. VotesSound(L, mapTxLockVote)
    BY <2>1, <2>3 DEF VotesSound
  <2>5. Extended(mapTxLocks, L)
    BY <2>1, <2>3 DEF Extended, Complete
  <2> QED  BY <1>2, <2>4, <2>5 DEF L
<1>3. CASE t \notin DOMAIN mapTxLocks /\ CreateNewLock(t) = With(mapTxLocks, {t}, NewLock(TRUE))
  <2> DEFINE L == With(mapTxLocks, {t}, NewLock(TRUE))
  <2>1. /\ DOMAIN L = DOMAIN mapTxLocks \cup {t}
        /\ \A x \in DOMAIN mapTxLocks : L[x] = mapTxLocks[x]
        /\ L[t] = NewLock(TRUE)
    BY <1>3 DEF With
  <2>2. NewLock(TRUE) \in LockRecords /\ NewLock(TRUE).vecConsensusVotes = <<>>
    BY SwiftAssumption DEF NewLock, LockRecords
  <2> HIDE DEF L
  <2>3. IsInjective(<<>>) /\ \A i \in DOMAIN <<>> : FALSE
    BY DEF IsInjective
  <2>4. VotesSound(L, mapTxLockVote)
    BY <2>1, <2>2, <2>3 DEF VotesSound
  <2>5. Extended(mapTxLocks, L)
    BY <2>1 DEF Extended
  <2> QED  BY <1>3, <2>4, <2>5 DEF L
<1> QED  BY <1>1, <1>2, <1>3 DEF CreateNewLock

\* Locks that cancel each other out only expire.
LEMMA CancelledKeeps ==
  ASSUME NEW locks, NEW seen, VotesSound(locks, seen), NEW t, NEW rivals,
         NEW new \in Cancelled(locks, t, rivals)
  PROVE  VotesSound(new, seen) /\ Extended(locks, new)
<1>1. PICK r \in rivals :
        new = [x \in DOMAIN locks |->
                 IF x \in {t, r} THEN [locks[x] EXCEPT !.nExpiration = 0] ELSE locks[x]]
  BY DEF Cancelled
<1>2. \A x \in DOMAIN locks :
        /\ new[x] \in LockRecords /\ new[x].hasHeight = locks[x].hasHeight
        /\ new[x].vecConsensusVotes = locks[x].vecConsensusVotes
  <2> SUFFICES ASSUME NEW x \in DOMAIN locks
               PROVE  /\ new[x] \in LockRecords /\ new[x].hasHeight = locks[x].hasHeight
                      /\ new[x].vecConsensusVotes = locks[x].vecConsensusVotes
    OBVIOUS
  <2>1. locks[x] \in LockRecords /\ 0 \in -1 .. Life
    BY SwiftAssumption DEF VotesSound
  <2>2. new[x] = locks[x] \/ new[x] = [locks[x] EXCEPT !.nExpiration = 0]
    BY <1>1
  <2> QED  BY <2>1, <2>2 DEF LockRecords
<1>3. DOMAIN new = DOMAIN locks
  BY <1>1
<1> QED  BY <1>2, <1>3 DEF VotesSound, Extended, Complete

\* Votes that were not seen before may be added to a lock once.
LEMMA AddSignatureKeeps ==
  ASSUME NEW locks, NEW seen, VotesSound(locks, seen), NEW t \in Requests,
         NEW m \in Masternodes, <<m, t>> \notin seen, NEW known,
         known = IF t \in DOMAIN locks THEN locks[t] ELSE NewLock(FALSE),
         NEW lock, lock = [known EXCEPT !.vecConsensusVotes = AddSignature(@, m)],
         NEW new, new = With(locks, {t}, lock)
  PROVE  VotesSound(new, seen \cup {<<m, t>>}) /\ Extended(locks, new)
<1>1. known \in LockRecords
  BY SwiftAssumption DEF VotesSound, NewLock, LockRecords
<1>2. /\ IsInjective(known.vecConsensusVotes)
      /\ \A i \in DOMAIN known.vecConsensusVotes : <<known.vecConsensusVotes[i], t>> \in seen
  <2>1. CASE t \in DOMAIN locks
    BY <2>1 DEF VotesSound
  <2>2. CASE t \notin DOMAIN locks
    <3>1. known.vecConsensusVotes = <<>>
      BY <2>2 DEF NewLock
    <3>2. DOMAIN <<>> = {}
      OBVIOUS
    <3> QED  BY <3>1, <3>2 DEF IsInjective
  <2> QED  BY <2>1, <2>2
<1> DEFINE v == known.vecConsensusVotes
           w == Append(v, m)
<1>3. v \in Seq(Masternodes)
  BY <1>1 DEF LockRecords
<1>4. /\ w \in Seq(Masternodes) /\ Len(w) = Len(v) + 1 /\ DOMAIN w = DOMAIN v \cup {Len(v) + 1}
      /\ w[Len(v) + 1] = m /\ \A i \in DOMAIN v : w[i] = v[i] /\ i # Len(v) + 1
  <2> HIDE DEF v
  <2> QED  BY <1>3
<1>5. lock \in LockRecords /\ lock.hasHeight = known.hasHeight /\ lock.vecConsensusVotes = w
  BY <1>1, <1>4 DEF LockRecords, AddSignature
<1> HIDE DEF w, v
<1>6. \A i \in DOMAIN w : <<w[i], t>> \in seen \cup {<<m, t>>}
  BY <1>2, <1>4 DEF v
<1>7. \A i \in DOMAIN v : v[i] # m
  BY <1>2 DEF v
<1>8. IsInjective(w)
  BY <1>2, <1>4, <1>7 DEF IsInjective, v
<1>9. DOMAIN new = DOMAIN locks \cup {t} /\ new[t] = lock /\ \A x \in DOMAIN locks : x # t => new[x] = locks[x]
  BY DEF With
<1>10. VotesSound(new, seen \cup {<<m, t>>})
  <2>1. ASSUME NEW x \in DOMAIN new
        PROVE  /\ x \in Requests /\ new[x] \in LockRecords
               /\ IsInjective(new[x].vecConsensusVotes)
               /\ \A i \in DOMAIN new[x].vecConsensusVotes :
                    <<new[x].vecConsensusVotes[i], x>> \in seen \cup {<<m, t>>}
    <3>1. CASE x = t
      BY <1>5, <1>6, <1>8, <1>9, <3>1
    <3>2. CASE x # t
      BY <1>9, <3>2 DEF VotesSound
    <3> QED  BY <3>1, <3>2
  <2> QED  BY <2>1 DEF VotesSound
<1>11. t \in DOMAIN locks => (Complete(locks[t]) => Complete(lock))
  BY <1>3, <1>4, <1>5, SwiftAssumption DEF Complete, v
<1>12. Extended(locks, new)
  BY <1>9, <1>11 DEF Extended
<1> QED  BY <1>10, <1>12
\* Inputs that are locked for a transaction that holds them, or was rejected.
LEMMA LockFreeKeeps ==
  ASSUME NEW locks, NEW requests, NEW rejected,
         InputsHeld(mapLockedInputs, locks, requests, rejected),
         NEW t \in Requests, NEW ins,
         t \in rejected \/ \A o \in ins : Held(o, t, locks, requests)
  PROVE  InputsHeld(LockFree(ins, t), locks, requests, rejected)
BY DEF LockFree, With, InputsHeld

\* What is held stays held when the locks and the requests are extended.
LEMMA InputsStayHeld ==
  ASSUME NEW old, NEW new, Extended(old, new), NEW requests, NEW more,
         \A t \in DOMAIN requests : t \in DOMAIN more /\ more[t] = requests[t],
         NEW rejected, NEW again, rejected \subseteq again, NEW locked,
         InputsHeld(locked, old, requests, rejected)
  PROVE  InputsHeld(locked, new, more, again)
BY HeldStays DEF InputsHeld

\* A request that the pool has taken.
LEMMA AcceptedStep ==
  ASSUME SwiftInv, NEW t \in Requests, RequestAccepted(t)
  PROVE  LocksInv'
<1> USE DEF SwiftInv, LocksInv
<1>1. /\ mapTxLockVote' = mapTxLockVote \cup (Self \X {t})
      /\ mapTxLockReq' = With(mapTxLockReq, {t} \ DOMAIN mapTxLockReq, Inputs[t])
      /\ UNCHANGED <<mapLockedInputs, mapTxLockReqRejected, mapTxLocks, replay, everRejected>>
  BY DEF RequestAccepted
<1>2. VotesSound(mapTxLocks', mapTxLockVote')
  BY <1>1 DEF VotesSound
<1>3. /\ DOMAIN mapTxLockReq' = DOMAIN mapTxLockReq \cup {t}
      /\ \A x \in DOMAIN mapTxLockReq : x \in DOMAIN mapTxLockReq' /\ mapTxLockReq'[x] = mapTxLockReq[x]
  BY <1>1 DEF With
<1>4. InputsHeld(mapLockedInputs', mapTxLocks', mapTxLockReq', everRejected')
  BY <1>1, <1>3 DEF InputsHeld, Held
<1>5. mapTxLockVote' \subseteq Masternodes \X Requests
  BY <1>1, SwiftAssumption
<1> QED  BY <1>1, <1>2, <1>3, <1>4, <1>5

\* A request that the pool has refused.
LEMMA RejectedStep ==
  ASSUME SwiftInv, NEW t \in Requests, RequestRejected(t)
  PROVE  LocksInv'
<1> USE DEF SwiftInv, LocksInv
<1> DEFINE locked == LockFree(Inputs[t], t)
           rivals == Rivals(Inputs[t], t, locked)
<1>1. /\ mapTxLockReqRejected' = mapTxLockReqRejected \cup {t}
      /\ everRejected' = everRejected \cup {t} /\ mapLockedInputs' = locked
      /\ mapTxLocks' \in Cancelled(mapTxLocks, t, rivals) \/ mapTxLocks' = mapTxLocks
      /\ replay' \in {replay, ReprocessDepth + 1} /\ UNCHANGED <<mapTxLockReq, mapTxLockVote>>
  BY DEF RequestRejected
<1> HIDE DEF locked, rivals
<1>2. VotesSound(mapTxLocks', mapTxLockVote') /\ Extended(mapTxLocks, mapTxLocks')
  BY <1>1, CancelledKeeps DEF Extended
<1>3. InputsHeld(mapLockedInputs, mapTxLocks', mapTxLockReq', everRejected')
  BY <1>1, <1>2, InputsStayHeld
<1>4. InputsHeld(mapLockedInputs', mapTxLocks', mapTxLockReq', everRejected')
  BY <1>1, <1>3, LockFreeKeeps DEF locked
<1>5. replay' \in 0 .. ReprocessDepth + 1
  BY <1>1, SwiftAssumption
<1> QED  BY <1>1, <1>2, <1>4, <1>5

\* A request is noted after the chain was reprocessed for it.
LEMMA NotedStep ==
  ASSUME SwiftInv, NEW t \in Requests, replay' \in 0 .. ReprocessDepth + 1,
         mapTxLockReq' = With(mapTxLockReq, {t} \ DOMAIN mapTxLockReq, Inputs[t]),
         UNCHANGED <<mapLockedInputs, mapTxLocks, mapTxLockReqRejected, mapTxLockVote, everRejected>>
  PROVE  LocksInv'
<1> USE DEF SwiftInv, LocksInv
<1>1. /\ DOMAIN mapTxLockReq' = DOMAIN mapTxLockReq \cup {t}
      /\ \A x \in DOMAIN mapTxLockReq : x \in DOMAIN mapTxLockReq' /\ mapTxLockReq'[x] = mapTxLockReq[x]
  BY DEF With
<1>2. InputsHeld(mapLockedInputs', mapTxLocks', mapTxLockReq', everRejected')
  BY <1>1 DEF InputsHeld, Held
<1>3. VotesSound(mapTxLocks', mapTxLockVote')
  BY DEF VotesSound
<1> QED  BY <1>1, <1>2, <1>3

\* The lock of a request is created.
LEMMA CreatedStep ==
  ASSUME SwiftInv, NEW t \in Requests, mapTxLocks' = CreateNewLock(t),
         UNCHANGED <<mapLockedInputs, mapTxLockReq, mapTxLockReqRejected, mapTxLockVote, replay,
                     everRejected>>
  PROVE  LocksInv'
<1> USE DEF SwiftInv, LocksInv
<1>1. VotesSound(mapTxLocks', mapTxLockVote') /\ Extended(mapTxLocks, mapTxLocks')
  BY CreateNewLockKeeps
<1>2. InputsHeld(mapLockedInputs', mapTxLocks', mapTxLockReq', everRejected')
  BY <1>1, InputsStayHeld
<1> QED  BY <1>1, <1>2

\* A request that this node sends.
LEMMA SentStep ==
  ASSUME SwiftInv, NEW t \in Requests, SendRequest(t)
  PROVE  LocksInv'
<1> USE DEF SwiftInv, LocksInv
<1>1. /\ mapTxLocks' = CreateNewLock(t)
      /\ mapTxLockReq' = With(mapTxLockReq, {t} \ DOMAIN mapTxLockReq, Inputs[t])
      /\ UNCHANGED <<mapLockedInputs, mapTxLockReqRejected, mapTxLockVote, replay, everRejected>>
  BY DEF SendRequest, vars
<1>2. VotesSound(mapTxLocks', mapTxLockVote') /\ Extended(mapTxLocks, mapTxLocks')
  BY <1>1, CreateNewLockKeeps
<1>3. /\ DOMAIN mapTxLockReq' \subseteq DOMAIN mapTxLockReq \cup {t}
      /\ \A x \in DOMAIN mapTxLockReq : x \in DOMAIN mapTxLockReq' /\ mapTxLockReq'[x] = mapTxLockReq[x]
  BY <1>1 DEF With
<1>4. mapLockedInputs' = mapLockedInputs /\ everRejected' = everRejected
  BY <1>1
<1>5. InputsHeld(mapLockedInputs', mapTxLocks', mapTxLockReq', everRejected')
  BY <1>2, <1>3, <1>4, InputsStayHeld
<1> QED  BY <1>1, <1>2, <1>3, <1>5

\* A vote.
LEMMA VoteStep ==
  ASSUME SwiftInv, NEW m \in Masternodes, NEW t \in Requests, NEW valid, ReceiveVote(m, t, valid)
  PROVE  LocksInv'
<1> USE DEF SwiftInv, LocksInv
<1>1. /\ <<m, t>> \notin mapTxLockVote /\ mapTxLockVote' = mapTxLockVote \cup {<<m, t>>}
      /\ UNCHANGED <<mapTxLockReqRejected, everRejected>>
  BY DEF ReceiveVote
<1>2. CASE UNCHANGED <<mapTxLockReq, mapTxLocks, mapLockedInputs, replay>>
  BY <1>1, <1>2 DEF VotesSound
<1>3. CASE ProcessConsensusVote(m, t)
  <2> DEFINE known == IF t \in DOMAIN mapTxLocks THEN mapTxLocks[t] ELSE NewLock(FALSE)
             lock == [known EXCEPT !.vecConsensusVotes = AddSignature(@, m)]
             locks == With(mapTxLocks, {t}, lock)
             requests == With(mapTxLockReq, {t} \ DOMAIN mapTxLockReq, {})
             rivals == Rivals(requests[t], t, mapLockedInputs)
  <2>1. VotesSound(locks, mapTxLockVote') /\ Extended(mapTxLocks, locks)
    BY <1>1, AddSignatureKeeps
  <2>2. \/ mapTxLocks' = locks /\ UNCHANGED <<mapTxLockReq, mapLockedInputs, replay>>
        \/ /\ mapTxLockReq' = requests /\ mapTxLocks' \in Cancelled(locks, t, rivals)
           /\ UNCHANGED <<mapLockedInputs, replay>>
        \/ /\ Complete(lock) /\ mapTxLockReq' = requests /\ mapTxLocks' = locks
           /\ mapLockedInputs' = LockFree(requests[t], t)
           /\ replay' \in {0, ReprocessDepth + 1}
    BY <1>3 DEF ProcessConsensusVote, Suffices
  <2>3. locks[t] = lock /\ t \in DOMAIN locks
    BY DEF With
  <2>4. /\ DOMAIN requests \subseteq DOMAIN mapTxLockReq \cup {t} /\ t \in DOMAIN requests
        /\ \A x \in DOMAIN mapTxLockReq : x \in DOMAIN requests /\ requests[x] = mapTxLockReq[x]
    BY DEF With
  <2> HIDE DEF lock, locks, requests, rivals
  <2>5. VotesSound(mapTxLocks', mapTxLockVote') /\ Extended(mapTxLocks, mapTxLocks')
    <3>1. CASE mapTxLocks' = locks
      BY <2>1, <3>1
    <3>2. CASE mapTxLocks' \in Cancelled(locks, t, rivals)
      BY <2>1, <3>2, CancelledKeeps DEF Extended
    <3> QED  BY <2>2, <3>1, <3>2
  <2>6. \A x \in DOMAIN mapTxLockReq : x \in DOMAIN mapTxLockReq' /\ mapTxLockReq'[x] = mapTxLockReq[x]
    BY <2>2, <2>4
  <2>7. InputsHeld(mapLockedInputs, mapTxLocks', mapTxLockReq', everRejected')
    BY <1>1, <2>5, <2>6, InputsStayHeld
  <2>8. InputsHeld(mapLockedInputs', mapTxLocks', mapTxLockReq', everRejected')
    <3>1. CASE UNCHANGED mapLockedInputs
      BY <2>7, <3>1
    <3>2. CASE /\ Complete(lock) /\ mapTxLockReq' = requests /\ mapTxLocks' = locks
               /\ mapLockedInputs' = LockFree(requests[t], t)
      <4>1. \A o \in requests[t] : Held(o, t, locks, requests)
        BY <2>3, <2>4, <3>2 DEF Held
      <4> QED  BY <2>7, <3>2, <4>1, LockFreeKeeps
    <3> QED  BY <2>2, <3>1, <3>2
  <2>9. replay' \in 0 .. ReprocessDepth + 1 /\ DOMAIN mapTxLockReq' \subseteq DOMAIN mapTxLockReq \cup {t}
    BY <2>2, <2>4, SwiftAssumption
  <2> QED  BY <1>1, <2>5, <2>8, <2>9
<1> QED  BY <1>2, <1>3 DEF ReceiveVote

\* Locks expire.
LEMMA CleanStep ==
  ASSUME SwiftInv, CleanTransactionLocksList
  PROVE  LocksInv'
<1> USE DEF SwiftInv, LocksInv
<1> DEFINE expired == {t \in DOMAIN mapTxLocks : mapTxLocks[t].nExpiration < 0}
           known == expired \cap DOMAIN mapTxLockReq
           out == UNION {Released(t) : t \in expired}
           gone == UNION {Range(mapTxLocks[t].vecConsensusVotes) \X {t} : t \in known}
<1>1. /\ mapTxLocks' = Restricted(mapTxLocks, DOMAIN mapTxLocks \ expired)
      /\ mapLockedInputs' = Restricted(mapLockedInputs, DOMAIN mapLockedInputs \ out)
      /\ mapTxLockReq' = Restricted(mapTxLockReq, DOMAIN mapTxLockReq \ known)
      /\ mapTxLockReqRejected' = mapTxLockReqRejected \ known
      /\ mapTxLockVote' = mapTxLockVote \ gone
      /\ UNCHANGED <<replay, everRejected>>
  BY DEF CleanTransactionLocksList
<1>2. \A v, t : <<v, t>> \in gone => t \in expired
  OBVIOUS
<1>3. \A t \in expired : \A o : t \in DOMAIN mapTxLockReq /\ o \in mapTxLockReq[t] => o \in out
  BY DEF Released
<1>4. /\ DOMAIN mapTxLocks' = DOMAIN mapTxLocks \ expired
      /\ \A t \in DOMAIN mapTxLocks' : mapTxLocks'[t] = mapTxLocks[t]
  BY <1>1 DEF Restricted
<1>5. /\ DOMAIN mapLockedInputs' = DOMAIN mapLockedInputs \ out
      /\ \A o \in DOMAIN mapLockedInputs' : mapLockedInputs'[o] = mapLockedInputs[o]
  BY <1>1 DEF Restricted
<1>6. /\ DOMAIN mapTxLockReq' = DOMAIN mapTxLockReq \ known
      /\ \A t \in DOMAIN mapTxLockReq' : mapTxLockReq'[t] = mapTxLockReq[t]
  BY <1>1 DEF Restricted
<1>7. known \subseteq expired
  OBVIOUS
<1> HIDE DEF expired, known, out, gone
<1>8. VotesSound(mapTxLocks', mapTxLockVote')
  BY <1>1, <1>2, <1>4 DEF VotesSound
<1>9. InputsHeld(mapLockedInputs', mapTxLocks', mapTxLockReq', everRejected')
  <2> SUFFICES ASSUME NEW o \in DOMAIN mapLockedInputs', mapLockedInputs[o] \notin everRejected
               PROVE  Held(o, mapLockedInputs[o], mapTxLocks', mapTxLockReq')
    BY <1>1, <1>5 DEF InputsHeld
  <2>1. Held(o, mapLockedInputs[o], mapTxLocks, mapTxLockReq) /\ o \notin out
    BY <1>5 DEF InputsHeld
  <2>2. mapLockedInputs[o] \notin expired
    BY <1>3, <2>1 DEF Held
  <2> QED  BY <1>4, <1>6, <1>7, <2>1, <2>2 DEF Held
<1> QED  BY <1>1, <1>6, <1>8, <1>9

\* Time passes.
LEMMA TickStep ==
  ASSUME SwiftInv, Tick
  PROVE  LocksInv'
<1> USE DEF SwiftInv, LocksInv
<1>1. /\ mapTxLocks' = [t \in DOMAIN mapTxLocks |->
                          [mapTxLocks[t] EXCEPT !.nExpiration = Max({-1, @ - 1})]]
      /\ UNCHANGED <<mapLockedInputs, mapTxLockReq, mapTxLockReqRejected, mapTxLockVote, replay, everRejected>>
  BY DEF Tick, vars, poolVars
<1>2. ASSUME NEW n \in -1 .. Life PROVE Max({-1, n - 1}) \in -1 .. Life
  <2>1. Life \in Nat
    BY SwiftAssumption
  <2>2. CASE n - 1 >= -1
    <3>1. n - 1 \in {-1, n - 1} /\ \A y \in {-1, n - 1} : n - 1 >= y
      BY <2>2
    <3>2. Max({-1, n - 1}) \in {-1, n - 1}
      BY <3>1 DEF Max
    <3> QED  BY <2>1, <2>2, <3>2
  <2>3. CASE n - 1 < -1
    <3>1. -1 \in {-1, n - 1} /\ \A y \in {-1, n - 1} : -1 >= y
      BY <2>3
    <3>2. Max({-1, n - 1}) \in {-1, n - 1} /\ \A y \in {-1, n - 1} : Max({-1, n - 1}) >= y
      BY <3>1 DEF Max
    <3> QED  BY <2>1, <2>3, <3>2
  <2> QED  BY <2>2, <2>3
<1>3. \A t \in DOMAIN mapTxLocks :
        /\ mapTxLocks'[t] \in LockRecords
        /\ mapTxLocks'[t].hasHeight = mapTxLocks[t].hasHeight
        /\ mapTxLocks'[t].vecConsensusVotes = mapTxLocks[t].vecConsensusVotes
  <2> SUFFICES ASSUME NEW t \in DOMAIN mapTxLocks
               PROVE  /\ mapTxLocks'[t] \in LockRecords
                      /\ mapTxLocks'[t].hasHeight = mapTxLocks[t].hasHeight
                      /\ mapTxLocks'[t].vecConsensusVotes = mapTxLocks[t].vecConsensusVotes
    OBVIOUS
  <2> DEFINE n == mapTxLocks[t].nExpiration
             x == Max({-1, n - 1})
  <2>1. mapTxLocks[t] \in LockRecords
    BY DEF VotesSound
  <2>2. n \in -1 .. Life
    BY <2>1 DEF LockRecords
  <2>3. x \in -1 .. Life
    BY <1>2, <2>2
  <2>4. mapTxLocks'[t] = [mapTxLocks[t] EXCEPT !.nExpiration = x]
    BY <1>1
  <2> HIDE DEF x, n
  <2> QED  BY <2>1, <2>3, <2>4 DEF LockRecords
<1>4. DOMAIN mapTxLocks' = DOMAIN mapTxLocks
  BY <1>1
<1>5. VotesSound(mapTxLocks', mapTxLockVote')
  <2>1. mapTxLockVote' = mapTxLockVote
    BY <1>1
  <2> QED  BY <1>3, <1>4, <2>1 DEF VotesSound
<1>6. Extended(mapTxLocks, mapTxLocks')
  BY <1>3, <1>4 DEF Extended, Complete
<1>7. InputsHeld(mapLockedInputs', mapTxLocks', mapTxLockReq', everRejected')
  BY <1>1, <1>6, InputsStayHeld
<1> QED  BY <1>1, <1>5, <1>7
-----------------------------------------------------------------------------
(***************************************************************************)
(* The pool and the chain below the locks.                                 *)
(***************************************************************************)

\* What is not in conflict with a lock has been asked about.
LEMMA NoConflictIsAsked ==
  ASSUME NEW t, ~LockConflict(t)
  PROVE  Asked(t)
BY DEF Asked, LockConflict

\* Generated transactions spend nothing, so CheckBlock need not ask for them.
LEMMA CheckedIsAsked ==
  ASSUME NEW vtx \in Seq(Tx), CheckBlock(vtx), NEW t \in Range(vtx)
  PROVE  ~LockConflict(t)
<1>1. t \in Tx
  BY DEF Range
<1>2. CASE t \in Generated
  BY <1>1, <1>2, MempoolAssumption DEF LockConflict
<1>3. CASE t \notin Generated
  BY <1>3 DEF CheckBlock
<1> QED  BY <1>2, <1>3

\* What comes into the pool or the chain has been asked about.
NoRivalComes == \A t \in Entered : Asked(t)

\* Nothing comes in.
LEMMA NothingComes ==
  ASSUME UNCHANGED <<chain, pool>>
  PROVE  NoRivalComes
BY DEF NoRivalComes, Entered

\* A transaction comes in that was asked about.
LEMMA AcceptedIsNoRival ==
  ASSUME PoolInv, NEW t \in Tx, Asked(t), pool' = AddUnchecked(pool, t), UNCHANGED chain
  PROVE  NoRivalComes
<1>1. pool'.mapTx = pool.mapTx \cup {t}
  BY AddType DEF PoolInv, Minable, Sound
<1> QED  BY <1>1 DEF NoRivalComes, Entered

\* So does a block.
LEMMA ConnectedIsNoRival ==
  ASSUME PoolInv, NEW vtx \in Seq(Tx), ConnectChecked(vtx), \A t \in Range(vtx) : Asked(t)
  PROVE  NoRivalComes
<1>1. chain' = Append(chain, vtx) /\ pool' = RemoveForBlock(pool, vtx)
  BY DEF ConnectChecked
<1>2. Mined(chain') = Mined(chain) \cup Range(vtx)
  BY <1>1, MinedAppend DEF PoolInv, ChainValid
<1>3. Reduced(chain, pool, vtx, RemoveForBlock(pool, vtx), Len(vtx))
  BY RemoveForBlockReduces DEF PoolInv
<1>4. pool'.mapTx \subseteq pool.mapTx
  BY <1>1, <1>3 DEF Reduced
<1> QED  BY <1>2, <1>4 DEF NoRivalComes, Entered

\* Out of a disconnected block comes what the locks did not refuse.
LEMMA ReturnedIsNoRival ==
  ASSUME PoolInv, NEW refused, DisconnectRefusing(refused),
         \A t \in Range(Last(chain)) \ refused : Asked(t)
  PROVE  NoRivalComes
<1>1. chain' = Front(chain) /\ chain # <<>>
  BY DEF DisconnectRefusing
<1>2. Mined(chain) = Mined(Front(chain)) \cup Range(Last(chain))
  BY <1>1, ChainShrinks, MinedAppend DEF PoolInv, ChainValid
<1> QED  BY <1>1, <1>2, DisconnectTipKeeps DEF NoRivalComes, Entered

\* The message thread asks and acts in one step.
LEMMA PoolBringsNoRival ==
  ASSUME PoolInv, OrphansInv, PoolNext
  PROVE  NoRivalComes
<1>1. ASSUME NEW t \in Tx, Acceptable(chain, pool, t), pool' = AddUnchecked(pool, t), UNCHANGED chain
      PROVE  NoRivalComes
  BY <1>1, AcceptedIsNoRival, NoConflictIsAsked DEF Acceptable
<1>2. ASSUME NEW t \in Tx, NEW peer \in Peers, ReceiveTx(t, peer) PROVE NoRivalComes
  BY <1>1, <1>2, NothingComes DEF ReceiveTx
<1>3. ASSUME NEW t \in todo, TryOrphan(t) PROVE NoRivalComes
  <2>1. t \in Tx
    BY DEF OrphansInv
  <2> QED  BY <1>1, <1>3, <2>1, NothingComes DEF TryOrphan
<1>4. CASE NextParent
  BY <1>4, NothingComes DEF NextParent
<1>5. ASSUME NEW t \in Tx, Submit(t) PROVE NoRivalComes
  BY <1>1, <1>5 DEF Submit
<1>6. ASSUME NEW peer \in Peers, PeerGone(peer) PROVE NoRivalComes
  BY <1>6, NothingComes DEF PeerGone
<1>7. ASSUME NEW vtx \in Blocks, ConnectTip(vtx) PROVE NoRivalComes
  <2>1. vtx \in Seq(Tx) /\ CheckBlock(vtx) /\ ConnectChecked(vtx)
    BY <1>7, BlocksType DEF ConnectTip
  <2>2. \A t \in Range(vtx) : Asked(t)
    BY <2>1, CheckedIsAsked, NoConflictIsAsked
  <2> QED  BY <2>1, <2>2, ConnectedIsNoRival
<1>8. CASE DisconnectTip
  <2> DEFINE refused == {t \in Tx : LockConflict(t)}
  <2>1. DisconnectRefusing(refused) /\ chain # <<>>
    BY <1>8 DEF DisconnectTip, DisconnectRefusing
  <2>2. Range(Last(chain)) \subseteq Tx
    BY <2>1, ChainShrinks DEF PoolInv, Range
  <2>3. \A t \in Range(Last(chain)) \ refused : Asked(t)
    BY <2>2, NoConflictIsAsked
  <2> QED  BY <2>1, <2>3, ReturnedIsNoRival
<1> QED  BY <1>2, <1>3, <1>4, <1>5, <1>6, <1>7, <1>8 DEF PoolNext

\* The pool and the chain are in order, and no rival came.
PoolKept == PoolInv' /\ OrphansInv' /\ HandlerInv' /\ NoRivalComes

\* A step that leaves the pool and the chain alone.
LEMMA PoolUntouched ==
  ASSUME SwiftInv, UNCHANGED poolVars
  PROVE  PoolKept
<1>1. PoolInv' /\ OrphansInv'
  BY DEF SwiftInv, poolVars, workVars, PoolInv, Minable, ChainValid, OrphansInv, OrphansExact
<1>2. HandlerInv'
  BY DEF SwiftInv, poolVars, workVars, HandlerInv, TodoInv, ChildrenInv, PassedInv, Taken, Waiting,
         MainFree, WaitingFor
<1> QED  BY <1>1, <1>2, NothingComes DEF PoolKept, poolVars

\* A step that changes only them, the handler of "tx" not running.
LEMMA HandlerSleeps ==
  ASSUME SwiftInv, MainFree, UNCHANGED <<orphans, workVars>>
  PROVE  OrphansInv' /\ HandlerInv'
<1>1. OrphansInv'
  BY DEF SwiftInv, workVars, OrphansInv, OrphansExact
<1>2. HandlerInv'
  BY DEF SwiftInv, workVars, HandlerInv, TodoInv, MainFree
<1> QED  BY <1>1, <1>2

\* A transaction that fits and was asked about comes into the pool.
LEMMA PoolAccepts ==
  ASSUME SwiftInv, MainFree, NEW t \in Tx, Fits(chain, pool, t), Asked(t),
         pool' = AddUnchecked(pool, t), UNCHANGED <<chain, orphans, workVars>>
  PROVE  PoolKept
BY AcceptKeeps, AcceptedIsNoRival, HandlerSleeps DEF SwiftInv, PoolKept

\* A step of the pool.
LEMMA PoolMoves ==
  ASSUME SwiftInv, PoolNext
  PROVE  PoolKept /\ UNCHANGED mapLockedInputs
BY PoolStep, OrphansStep, HandlerStep, PoolBringsNoRival, LocksUntouched DEF SwiftInv, PoolKept

-----------------------------------------------------------------------------
(***************************************************************************)
(* The threads, each between its question and its effect.                  *)
(***************************************************************************)

\* A thread that had its answer before a lock was made is marked as early.
LEMMA TestedStep ==
  ASSUME SwiftInv, early' = Early,
         \A o \in DOMAIN mapLockedInputs :
           o \in DOMAIN mapLockedInputs' => mapLockedInputs'[o] = mapLockedInputs[o],
         \A t \in Tested(task', checked') \ Tested(task, checked) :
           ~LockConflict(t) /\ UNCHANGED mapLockedInputs
  PROVE  TestedInv'
<1> SUFFICES ASSUME NEW t \in Tested(task', checked'), NEW o \in Inputs[t],
                    o \in DOMAIN mapLockedInputs', mapLockedInputs'[o] # t
             PROVE  <<o, t>> \in Early
  BY DEF TestedInv, Asked
<1>1. <<o, t>> \in (DOMAIN mapLockedInputs') \X Tested(task', checked')
  OBVIOUS
<1>2. CASE t \notin Tested(task, checked)
  BY <1>2 DEF LockConflict
<1>3. CASE t \in Tested(task, checked) /\ o \notin DOMAIN mapLockedInputs
  BY <1>1, <1>3 DEF Early
<1>4. CASE t \in Tested(task, checked) /\ o \in DOMAIN mapLockedInputs
  <2>1. <<o, t>> \in early
    BY <1>4 DEF SwiftInv, TestedInv, Asked
  <2> QED  BY <1>1, <2>1 DEF Early
<1> QED  BY <1>2, <1>3, <1>4

\* A step that leaves the locks alone keeps what is said of them.
LEMMA LocksStay ==
  ASSUME SwiftInv, UNCHANGED <<mapLockedInputs, requestVars>>, replay' \in 0 .. ReprocessDepth + 1
  PROVE  LocksInv'
BY DEF SwiftInv, LocksInv, requestVars, VotesSound, InputsHeld, Held

\* A step of the pool while no other thread has cs_main.
LEMMA PoolMessageStep ==
  ASSUME SwiftInv, PoolNext, task = NoTask, early' = Early, UNCHANGED <<checked, task>>,
         request' \in {<<>>, request}, UNCHANGED mapLockedInputs => LocksInv'
  PROVE  SwiftInv' /\ NoRivalComes
<1>1. PoolKept /\ UNCHANGED mapLockedInputs
  BY PoolMoves
<1>2. LocksInv'
  BY <1>1
<1>3. ThreadsInv'
  BY DEF SwiftInv, ThreadsInv
<1>4. TestedInv'
  BY <1>1, TestedStep
<1> QED  BY <1>1, <1>2, <1>3, <1>4 DEF SwiftInv, PoolKept

\* A step of the locks.
LEMMA LocksStep ==
  ASSUME SwiftInv, LocksInv', early' = Early, UNCHANGED <<poolVars, checked, task>>,
         request' \in {<<>>, request},
         \A o \in DOMAIN mapLockedInputs :
           o \in DOMAIN mapLockedInputs' => mapLockedInputs'[o] = mapLockedInputs[o]
  PROVE  SwiftInv' /\ NoRivalComes
<1>1. PoolKept
  BY PoolUntouched
<1>2. ThreadsInv'
  BY DEF SwiftInv, ThreadsInv, poolVars, workVars, MainFree, Fits, Considered, InputsKnown,
         HaveCoins, Available
<1>3. TestedInv'
  BY TestedStep
<1> QED  BY <1>1, <1>2, <1>3 DEF SwiftInv, PoolKept

\* Another thread asks, and holds cs_main or not: only what it knows changes.
LEMMA QuestionStep ==
  ASSUME SwiftInv, early' = Early, UNCHANGED <<vars, lockVars>>, ThreadsInv',
         \A t \in Tested(task', checked') \ Tested(task, checked) : ~LockConflict(t)
  PROVE  SwiftInv' /\ NoRivalComes
<1>1. UNCHANGED poolVars /\ UNCHANGED mapLockedInputs
  BY DEF vars
<1>2. PoolKept
  BY <1>1, PoolUntouched
<1>3. LocksInv'
  BY <1>1, LocksStay DEF lockVars, SwiftInv, LocksInv
<1>4. TestedInv'
  BY <1>1, TestedStep
<1> QED  BY <1>2, <1>3, <1>4 DEF SwiftInv, PoolKept

\* It acts: what it brings in it had asked about.
LEMMA AnswerStep ==
  ASSUME SwiftInv, early' = Early, PoolKept, UNCHANGED <<mapLockedInputs, lockVars>>,
         task' = NoTask, checked' \subseteq checked
  PROVE  SwiftInv' /\ NoRivalComes
<1>1. LocksInv'
  BY LocksStay DEF lockVars, SwiftInv, LocksInv
<1>2. ThreadsInv'
  BY DEF SwiftInv, ThreadsInv, lockVars
<1>3. Tested(task', checked') \subseteq Tested(task, checked)
  BY DEF Tested, NoTask
<1>4. TestedInv'
  BY <1>3, TestedStep
<1> QED  BY <1>1, <1>2, <1>4 DEF SwiftInv, PoolKept

\* The other threads.
LEMMA OtherThreadsStep ==
  ASSUME SwiftInv, OtherThreads, early' = Early
  PROVE  SwiftInv' /\ NoRivalComes
<1>1. ASSUME NEW t \in Tx, StartAccept(t) PROVE SwiftInv' /\ NoRivalComes
  <2>1. /\ MainFree /\ task = NoTask /\ task' = Accept(t) /\ UNCHANGED <<vars, lockVars, checked>>
        /\ ~LockConflict(t) /\ Fits(chain, pool, t)
    BY <1>1 DEF StartAccept, CsMainFree, Acceptable
  <2>2. Tested(task', checked') = Tested(task, checked) \cup {t}
    BY <2>1 DEF Tested, NoTask, Accept
  <2>3. MainFree' /\ Fits(chain, pool, t)'
    BY <2>1 DEF vars, poolVars, workVars, MainFree, Fits, Considered, InputsKnown, HaveCoins, Available
  <2>4. ThreadsInv'
    BY <2>1, <2>3 DEF SwiftInv, ThreadsInv, lockVars
  <2> QED  BY <2>1, <2>2, <2>4, QuestionStep
<1>2. ASSUME NEW vtx \in Blocks, StartConnect(vtx) PROVE SwiftInv' /\ NoRivalComes
  <2>1. /\ vtx \in Seq(Tx) /\ CheckBlock(vtx) /\ checked' = checked \cup {vtx}
        /\ UNCHANGED <<vars, lockVars, task>>
    BY <1>2, BlocksType DEF StartConnect
  <2>2. Tested(task', checked') = Tested(task, checked) \cup Range(vtx)
    BY <2>1 DEF Tested
  <2>3. ThreadsInv'
    BY <2>1 DEF SwiftInv, ThreadsInv, lockVars, vars, poolVars, workVars, MainFree, Fits, Considered,
                InputsKnown, HaveCoins, Available
  <2> QED  BY <2>1, <2>2, <2>3, CheckedIsAsked, QuestionStep
<1>3. ASSUME NEW vtx \in checked \cup {<<>>}, EndConnect(vtx) PROVE SwiftInv' /\ NoRivalComes
  <2>1. checked' \subseteq checked /\ UNCHANGED <<lockVars, task>>
    BY <1>3 DEF EndConnect
  <2>2. CASE UNCHANGED vars
    <3>1. Tested(task', checked') \subseteq Tested(task, checked)
      BY <2>1 DEF Tested
    <3>2. ThreadsInv'
      BY <2>1, <2>2 DEF SwiftInv, ThreadsInv, lockVars, vars, poolVars, workVars, MainFree, Fits,
                        Considered, InputsKnown, HaveCoins, Available
    <3> QED  BY <2>1, <2>2, <3>1, <3>2, QuestionStep
  <2>3. CASE CsMainFree /\ ConnectChecked(vtx)
    <3>1. vtx \in Seq(Tx)
      <4>1. \A b \in checked : b \in Seq(Tx)
        BY BlocksType DEF SwiftInv, ThreadsInv
      <4>2. <<>> \in Seq(Tx)
        OBVIOUS
      <4> QED  BY <4>1, <4>2
    <3>2. \A t \in Range(vtx) : Asked(t)
      <4>1. CASE vtx \in checked
        BY <4>1 DEF SwiftInv, TestedInv, Tested
      <4>2. CASE vtx = <<>>
        BY <4>2 DEF Range
      <4> QED  BY <4>1, <4>2
    <3>3. NoRivalComes
      BY <2>3, <3>1, <3>2, ConnectedIsNoRival DEF SwiftInv
    <3>4. PoolInv'
      BY <2>3, <3>1, ConnectTipKeeps DEF SwiftInv
    <3>5. OrphansInv' /\ HandlerInv' /\ UNCHANGED mapLockedInputs
      BY <2>3, HandlerSleeps DEF CsMainFree, ConnectChecked
    <3>6. task' = NoTask
      BY <2>1, <2>3 DEF CsMainFree
    <3> QED  BY <2>1, <3>3, <3>4, <3>5, <3>6, AnswerStep DEF PoolKept
  <2> QED  BY <1>3, <2>2, <2>3 DEF EndConnect
<1>4. CASE EndAccept
  <2>1. MainFree /\ \E t \in Tx : task = Accept(t) /\ Fits(chain, pool, t)
    BY <1>4 DEF EndAccept, SwiftInv, ThreadsInv, NoTask, Undo
  <2>2. PICK t \in Tx : task = Accept(t) /\ Fits(chain, pool, t)
    BY <2>1
  <2>3. pool' = AddUnchecked(pool, t) /\ UNCHANGED <<chain, orphans, workVars>>
    BY <1>4, <2>2 DEF EndAccept, Accept
  <2>4. Asked(t)
    BY <2>2 DEF SwiftInv, TestedInv, Tested, Accept
  <2>5. PoolKept
    BY <2>1, <2>2, <2>3, <2>4, PoolAccepts
  <2> QED  BY <1>4, <2>5, AnswerStep DEF EndAccept
<1>5. CASE TestNext
  <2>1. PICK i \in DOMAIN Last(chain) :
          task' = IF LockConflict(Last(chain)[i]) THEN Undo(task.passed, task.refused \cup {Last(chain)[i]})
                  ELSE Undo(task.passed \cup {Last(chain)[i]}, task.refused)
    BY <1>5 DEF TestNext, InOrder
  <2> DEFINE t == Last(chain)[i]
  <2>2. t \in Range(Last(chain)) /\ UNCHANGED <<vars, lockVars, checked>>
    BY <1>5 DEF TestNext, Range
  <2>3. /\ MainFree /\ chain # <<>>
        /\ task.passed \subseteq Range(Last(chain)) /\ task.refused \subseteq Range(Last(chain))
    BY <1>5 DEF TestNext, Disconnecting, CsMainFree, SwiftInv, ThreadsInv, NoTask, Accept, Undo
  <2> HIDE DEF t
  <2>4. MainFree' /\ chain' = chain
    BY <2>2, <2>3 DEF vars, poolVars, workVars, MainFree
  <2>5. PICK S \in SUBSET Range(Last(chain)), R \in SUBSET Range(Last(chain)) :
          /\ task' = Undo(S, R)
          /\ S \subseteq task.passed \cup {t} /\ (LockConflict(t) => S = task.passed)
    BY <2>1, <2>2, <2>3 DEF t
  <2>6. ThreadsInv'
    BY <2>2, <2>3, <2>4, <2>5 DEF SwiftInv, ThreadsInv, lockVars
  <2>7. \A u \in Tested(task', checked') \ Tested(task, checked) : ~LockConflict(u)
    BY <2>2, <2>5 DEF Tested, Undo
  <2> QED  BY <2>2, <2>6, <2>7, QuestionStep
<1>6. CASE EndDisconnect
  <2>1. /\ DisconnectRefusing(task.refused) /\ task' = NoTask /\ UNCHANGED <<lockVars, checked>>
        /\ Range(Last(chain)) = task.passed \cup task.refused
    BY <1>6 DEF EndDisconnect
  <2>2. \A t \in Range(Last(chain)) \ task.refused : Asked(t)
    BY <2>1 DEF SwiftInv, TestedInv, Tested
  <2>3. PoolInv' /\ NoRivalComes
    BY <2>1, <2>2, ReturnedIsNoRival, DisconnectTipKeeps DEF SwiftInv
  <2>4. OrphansInv' /\ HandlerInv' /\ UNCHANGED mapLockedInputs
    BY <2>1, HandlerSleeps DEF DisconnectRefusing
  <2> QED  BY <2>1, <2>3, <2>4, AnswerStep DEF PoolKept
<1> QED  BY <1>1, <1>2, <1>3, <1>4, <1>5, <1>6 DEF OtherThreads

\* A request: the pool takes it, or does not.
LEMMA ReceiveRequestStep ==
  ASSUME SwiftInv, NEW t \in Requests, ReceiveRequest(t), early' = Early
  PROVE  SwiftInv' /\ NoRivalComes
<1>1. /\ t \in Tx /\ MainFree /\ task = NoTask
      /\ mapTxLocks' = CreateNewLock(t) /\ request' = <<t, Acceptable(chain, pool, t)>>
      /\ UNCHANGED <<chain, orphans, workVars, mapLockedInputs, mapTxLockReq, mapTxLockReqRejected,
                     mapTxLockVote, everRejected, replay, checked, task>>
  BY SwiftAssumption DEF ReceiveRequest, CsMainFree
<1>2. PoolKept
  <2>1. CASE Acceptable(chain, pool, t)
    <3>1. Fits(chain, pool, t) /\ Asked(t) /\ pool' = AddUnchecked(pool, t)
      BY <2>1, NoConflictIsAsked DEF Acceptable, ReceiveRequest
    <3> QED  BY <1>1, <3>1, PoolAccepts
  <2>2. CASE ~Acceptable(chain, pool, t)
    <3>1. UNCHANGED poolVars
      BY <1>1, <2>2 DEF ReceiveRequest, poolVars
    <3> QED  BY <3>1, PoolUntouched
  <2> QED  BY <2>1, <2>2
<1>3. LocksInv'
  BY <1>1, CreatedStep
<1>4. ThreadsInv'
  <2>1. Acceptable(chain, pool, t) \in BOOLEAN
    BY DEF Acceptable
  <2> QED  BY <1>1, <2>1 DEF SwiftInv, ThreadsInv
<1>5. TestedInv'
  BY <1>1, TestedStep
<1> QED  BY <1>2, <1>3, <1>4, <1>5 DEF SwiftInv, PoolKept

\* A request of this node, which the pool is about to take, or not.
LEMMA SendRequestStep ==
  ASSUME SwiftInv, NEW t \in Requests, SendRequest(t), early' = Early
  PROVE  SwiftInv' /\ NoRivalComes
<1>1. /\ t \in Tx /\ MainFree /\ task = NoTask /\ UNCHANGED <<vars, request, checked>>
      /\ UNCHANGED poolVars /\ UNCHANGED mapLockedInputs
  BY SwiftAssumption DEF SendRequest, CsMainFree, vars
<1>2. PoolKept
  BY <1>1, PoolUntouched
<1>3. LocksInv'
  BY SentStep
<1>4. \/ task' = NoTask
      \/ task' = Accept(t) /\ Fits(chain, pool, t) /\ ~LockConflict(t)
  BY DEF SendRequest, Acceptable
<1>5. MainFree' /\ (Fits(chain, pool, t) => Fits(chain, pool, t)')
  BY <1>1 DEF poolVars, workVars, MainFree, Fits, Considered, InputsKnown, HaveCoins, Available
<1>6. ThreadsInv'
  BY <1>1, <1>4, <1>5 DEF SwiftInv, ThreadsInv
<1>7. \A u \in Tested(task', checked') \ Tested(task, checked) : ~LockConflict(u)
  BY <1>1, <1>4 DEF Tested, NoTask, Accept
<1>8. TestedInv'
  BY <1>1, <1>7, TestedStep
<1> QED  BY <1>2, <1>3, <1>6, <1>8 DEF SwiftInv, PoolKept

\* Every step keeps the invariant and brings no rival.
LEMMA SwiftStep ==
  ASSUME SwiftInv, SwiftNext
  PROVE  SwiftInv' /\ NoRivalComes
<1>1. early' = Early
  BY DEF SwiftNext
<1>2. CASE PoolMessage
  <2>1. PoolNext /\ task = NoTask /\ UNCHANGED <<lockVars, checked, task>> /\ replay' = replay
    BY <1>2 DEF PoolMessage, PoolNext, lockVars
  <2>2. replay' \in 0 .. ReprocessDepth + 1
    BY <2>1 DEF SwiftInv, LocksInv
  <2>3. UNCHANGED mapLockedInputs => LocksInv'
    BY <2>1, <2>2, LocksStay DEF lockVars
  <2> QED  BY <1>1, <2>1, <2>3, PoolMessageStep DEF lockVars
<1>3. CASE NodeGone
  <2>1. PoolNext /\ task = NoTask /\ UNCHANGED <<lockVars, checked, task>> /\ replay' = replay
    BY <1>3 DEF NodeGone, CsMainFree, PoolNext, lockVars
  <2>2. replay' \in 0 .. ReprocessDepth + 1
    BY <2>1 DEF SwiftInv, LocksInv
  <2>3. UNCHANGED mapLockedInputs => LocksInv'
    BY <2>1, <2>2, LocksStay DEF lockVars
  <2> QED  BY <1>1, <2>1, <2>3, PoolMessageStep DEF lockVars
<1>4. ASSUME NEW vote \in Ballots, NEW valid \in BOOLEAN, ReceiveVote(vote[1], vote[2], valid)
      PROVE  SwiftInv' /\ NoRivalComes
  <2>1. vote[1] \in Masternodes /\ vote[2] \in Requests
    BY SwiftAssumption
  <2>2. UNCHANGED <<poolVars, request, checked, task>>
    BY <1>4 DEF ReceiveVote
  <2>3. LocksInv'
    BY <1>4, <2>1, VoteStep
  <2>4. \A o \in DOMAIN mapLockedInputs :
          o \in DOMAIN mapLockedInputs' => mapLockedInputs'[o] = mapLockedInputs[o]
    BY <1>4 DEF ReceiveVote, ProcessConsensusVote, LockFree, With
  <2> QED  BY <1>1, <2>2, <2>3, <2>4, LocksStep
<1>5. CASE FinishRequest
  <2>1. PICK t \in Requests : RequestAccepted(t) \/ RequestRejected(t)
    BY <1>5 DEF FinishRequest, SwiftInv, ThreadsInv
  <2>2. request' \in {<<>>, request} /\ UNCHANGED <<poolVars, checked, task>>
    BY <1>5 DEF FinishRequest
  <2>3. LocksInv'
    BY <2>1, AcceptedStep, RejectedStep
  <2>4. \A o \in DOMAIN mapLockedInputs :
          o \in DOMAIN mapLockedInputs' => mapLockedInputs'[o] = mapLockedInputs[o]
    BY <2>1 DEF RequestAccepted, RequestRejected, LockFree, With
  <2> QED  BY <1>1, <2>2, <2>3, <2>4, LocksStep
<1>6. CASE Replay
  <2>1. replay > 0 /\ replay \in 0 .. ReprocessDepth + 1 /\ task = NoTask
    BY <1>6 DEF Replay, SwiftInv, LocksInv
  <2>2. UNCHANGED <<mapTxLockReqRejected, mapTxLockVote, mapTxLocks, everRejected, checked, task>>
    BY <1>6 DEF Replay
  <2>3. replay' \in 0 .. ReprocessDepth + 1
    <3>1. replay' = replay - 1 \/ replay' = 0
      BY <1>6 DEF Replay
    <3> QED  BY <2>1, <3>1, SwiftAssumption
  <2>4. request' \in {<<>>, request}
    BY <1>6 DEF Replay
  <2>5. UNCHANGED mapLockedInputs => LocksInv'
    <3>1. CASE UNCHANGED mapTxLockReq
      BY <2>2, <2>3, <3>1, LocksStay DEF requestVars
    <3>2. CASE ~UNCHANGED mapTxLockReq
      <4>1. /\ request # <<>>
            /\ mapTxLockReq' =
                 With(mapTxLockReq, {request[1]} \ DOMAIN mapTxLockReq, Inputs[request[1]])
        BY <1>6, <3>2 DEF Replay
      <4>2. request[1] \in Requests
        BY <4>1 DEF SwiftInv, ThreadsInv
      <4> QED  BY <2>2, <2>3, <4>1, <4>2, NotedStep
    <3> QED  BY <3>1, <3>2
  <2>6. CASE DisconnectTip
    BY <1>1, <2>1, <2>2, <2>4, <2>5, <2>6, PoolMessageStep DEF PoolNext
  <2>7. CASE UNCHANGED vars
    <3>1. UNCHANGED <<poolVars, mapLockedInputs>>
      BY <2>7 DEF vars
    <3> QED  BY <1>1, <2>2, <2>4, <2>5, <3>1, LocksStep
  <2> QED  BY <1>6, <2>6, <2>7 DEF Replay
<1>7. CASE CleanTransactionLocksList
  <2>1. UNCHANGED <<poolVars, request, checked, task>>
    BY <1>7 DEF CleanTransactionLocksList
  <2>2. \A o \in DOMAIN mapLockedInputs :
          o \in DOMAIN mapLockedInputs' => mapLockedInputs'[o] = mapLockedInputs[o]
    BY <1>7 DEF CleanTransactionLocksList, Restricted
  <2> QED  BY <1>1, <1>7, <2>1, <2>2, CleanStep, LocksStep
<1>8. CASE Tick
  <2>1. UNCHANGED <<poolVars, mapLockedInputs, request, checked, task>>
    BY <1>8 DEF Tick, vars
  <2> QED  BY <1>1, <1>8, <2>1, TickStep, LocksStep
<1> QED
  BY <1>1, <1>2, <1>3, <1>4, <1>5, <1>6, <1>7, <1>8, OtherThreadsStep, ReceiveRequestStep,
     SendRequestStep DEF SwiftNext

-----------------------------------------------------------------------------
(***************************************************************************)
(* The theorems.                                                           *)
(***************************************************************************)

\* The invariant is inductive.
THEOREM SwiftInvariance == SwiftSpec => []SwiftInv
<1>1. SwiftInit => SwiftInv
  <2> SUFFICES ASSUME SwiftInit PROVE SwiftInv
    OBVIOUS
  <2>1. PoolInv /\ OrphansInv
    BY PoolInvInit DEF SwiftInit
  <2>2. HandlerInv
    BY DEF SwiftInit, Init, HandlerInv, TodoInv, MainFree
  <2>3. DOMAIN <<>> = {}
    OBVIOUS
  <2>4. LocksInv
    BY <2>3, SwiftAssumption DEF SwiftInit, Init, LocksInv, VotesSound, InputsHeld
  <2>5. ThreadsInv /\ TestedInv
    BY DEF SwiftInit, ThreadsInv, TestedInv, Tested, NoTask
  <2> QED  BY <2>1, <2>2, <2>4, <2>5 DEF SwiftInv
<1>2. SwiftInv /\ [SwiftNext]_allVars => SwiftInv'
  <2> SUFFICES ASSUME SwiftInv, [SwiftNext]_allVars PROVE SwiftInv'
    OBVIOUS
  <2>1. CASE SwiftNext
    BY <2>1, SwiftStep
  <2>2. CASE UNCHANGED allVars
    <3>1. LocksInv' /\ PoolKept
      BY <2>2, LocksStay, PoolUntouched DEF allVars, vars, lockVars, SwiftInv, LocksInv
    <3>2. ThreadsInv' /\ TestedInv'
      BY <2>2 DEF SwiftInv, ThreadsInv, TestedInv, Tested, Asked, allVars, vars, lockVars, poolVars, workVars,
                  MainFree, Fits, Considered, InputsKnown, HaveCoins, Available
    <3> QED  BY <3>1, <3>2 DEF SwiftInv, PoolKept
  <2> QED  BY <2>1, <2>2
<1> QED  BY <1>1, <1>2, PTL DEF SwiftSpec

\* The types; a lock has at most as many votes as there are masternodes.
THEOREM SwiftTypesCorrect == SwiftSpec => []SwiftTypeOK
<1>1. SwiftInv => SwiftTypeOK
  <2> SUFFICES ASSUME SwiftInv PROVE SwiftTypeOK
    OBVIOUS
  <2>1. TypeOK
    <3>1. chain \in Seq(Seq(Tx)) /\ Len(chain) <= MaxHeight
      BY DEF SwiftInv, PoolInv, ChainValid, Chains
    <3>2. pool.mapTx \subseteq Tx /\ Range(pool.mapNextTx) \subseteq Tx
      BY SpendsIs DEF SwiftInv, PoolInv, Minable, Sound, Range
    <3>3. Range(mapLockedInputs) \subseteq Tx
      BY SwiftAssumption DEF SwiftInv, LocksInv, InputsHeld, Range
    <3>4. Range(vWorkQueue) \cup todo \cup vEraseQueue \subseteq Tx
      BY DEF SwiftInv, OrphansInv, Range
    <3>5. Range(orphans.tx) \subseteq Peers
      BY DEF SwiftInv, OrphansInv, OrphansExact, Range
    <3> QED  BY <3>1, <3>2, <3>3, <3>4, <3>5 DEF TypeOK, SwiftInv, OrphansInv, OrphansExact
  <2>2. ASSUME NEW t \in DOMAIN mapTxLocks PROVE t \in Requests /\ mapTxLocks[t] \in Locks
    <3> DEFINE v == mapTxLocks[t].vecConsensusVotes
               n == Cardinality(Masternodes)
    <3>1. t \in Requests /\ mapTxLocks[t] \in LockRecords /\ IsInjective(v)
      BY DEF SwiftInv, LocksInv, VotesSound
    <3>2. v \in Seq(Masternodes)
      BY <3>1 DEF LockRecords
    <3>3. IsFiniteSet(Masternodes) /\ n \in Nat
      BY SwiftAssumption, FS_CardinalityType
    <3>4. Len(v) \in 0 .. n /\ v \in [1 .. Len(v) -> Masternodes]
      <4> HIDE DEF v
      <4>1. Len(v) \in Nat /\ v \in [1 .. Len(v) -> Masternodes]
        BY <3>2
      <4>2. IsFiniteSet(1 .. Len(v)) /\ Cardinality(1 .. Len(v)) = Len(v)
        <5> DEFINE m == Len(v)
        <5>1. m \in Nat
          BY <4>1
        <5> HIDE DEF m
        <5>2. IsFiniteSet(1 .. m) /\ Cardinality(1 .. m) = IF 1 > m THEN 0 ELSE m - 1 + 1
          BY <5>1, FS_Interval
        <5>3. Cardinality(1 .. m) = m
          BY <5>1, <5>2
        <5> QED  BY <5>2, <5>3 DEF m
      <4>3. v \in Injection(1 .. Len(v), Masternodes)
        BY <3>1, <4>1 DEF Injection, IsInjective
      <4>4. Cardinality(1 .. Len(v)) <= n
        BY <3>3, <4>2, <4>3, FS_Injection
      <4> QED  BY <3>3, <4>1, <4>2, <4>4
    <3>5. v \in SeqOf(Masternodes, n)
      <4> HIDE DEF v, n
      <4> QED  BY <3>4 DEF SeqOf
    <3> QED  BY <3>1, <3>5 DEF LockRecords, Locks
  <2>3. task \in [kind : {"none", "accept", "disconnect"}, passed : SUBSET Tx, refused : SUBSET Tx]
    <3>1. chain # <<>> => Range(Last(chain)) \subseteq Tx
      BY ChainShrinks DEF SwiftInv, PoolInv, Range
    <3> QED  BY <3>1 DEF SwiftInv, ThreadsInv, NoTask, Accept, Undo
  <2> QED  BY <2>1, <2>2, <2>3 DEF SwiftTypeOK, SwiftInv, LocksInv, ThreadsInv
<1> QED  BY <1>1, SwiftInvariance, PTL

\* No masternode has two votes for a lock.
THEOREM VotesCorrect == SwiftSpec => []VotesCountedOnce
<1>1. SwiftInv => VotesCountedOnce
  BY DEF SwiftInv, LocksInv, VotesSound, VotesCountedOnce
<1> QED  BY <1>1, SwiftInvariance, PTL

\* Votes lock what is locked for a request that was never rejected, and its
\* expiry releases it.
THEOREM ConsensusCorrect == SwiftSpec => []LockedByConsensus
<1>1. SwiftInv => LockedByConsensus
  BY DEF SwiftInv, LocksInv, InputsHeld, Held, LockedByConsensus
<1> QED  BY <1>1, SwiftInvariance, PTL

\* What spends a locked input comes neither into the pool nor into the chain,
\* unless it had passed the test for locks before the input was locked.
THEOREM RivalsCorrect == SwiftSpec => RivalsKeptOut
<1>1. SwiftInv /\ [SwiftNext]_allVars =>
        [\A o \in DOMAIN mapLockedInputs \cap DOMAIN mapLockedInputs' :
           \A t \in Entered \ {mapLockedInputs[o]} : o \in Inputs[t] => <<o, t>> \in early]_allVars
  BY SwiftStep DEF NoRivalComes, Asked
<1> QED  BY <1>1, SwiftInvariance, PTL DEF SwiftSpec, RivalsKeptOut

\* The pool can be mined while locks come and go and blocks are reprocessed.
THEOREM PoolStaysMinable == SwiftSpec => []PoolMinable
<1>1. SwiftInv => PoolMinable
  BY DEF SwiftInv, PoolInv, Minable, Sound, Exact, PoolMinable
<1> QED  BY <1>1, SwiftInvariance, PTL
-----------------------------------------------------------------------------
(***************************************************************************)
(* What the wallet hears of.                                               *)
(***************************************************************************)
Records == [hashBlock : Chains \cup {none}, cache : {none} \cup SUBSET Mine]
Wallets == UNION {[S -> Records] : S \in SUBSET Tx}

\* It pays the wallet, or spends its coins.
Concerned(t) == OutputsOf(t) # {} \/ Inputs[t] \cap Mine # {}

\* What becomes of the wallet w when it hears of t, in a block or not.
Heard(w, u, t, block) ==
  /\ u \in Wallets /\ DOMAIN w \subseteq DOMAIN u /\ DOMAIN u \subseteq DOMAIN w \cup {t}
  /\ t \in DOMAIN w \/ ConcernsMe(w, t) => t \in DOMAIN u
  /\ \A x \in DOMAIN w : x # t \/ block = none => u[x].hashBlock = w[x].hashBlock
  /\ t \in DOMAIN u => (t \in DOMAIN w /\ block = none) \/ u[t].hashBlock = block
  /\ \A x \in DOMAIN u : u[x].cache = none \/ (x \in DOMAIN w /\ u[x].cache = w[x].cache)
  /\ t \in DOMAIN u => \A x \in Parents(t) \cap DOMAIN u : u[x].cache = none

\* No credit is cached.
Dirty(w) == \A t \in DOMAIN w : w[t].cache = none

\* What a mapWallet is.
LEMMA WalletsIs ==
  ASSUME NEW w \in Wallets
  PROVE  /\ DOMAIN w \subseteq Tx /\ w = [t \in DOMAIN w |-> w[t]]
         /\ \A t \in DOMAIN w : /\ w[t] \in Records
                                /\ w[t] = [hashBlock |-> w[t].hashBlock, cache |-> w[t].cache]
<1>1. PICK S \in SUBSET Tx : w \in [S -> Records]
  BY DEF Wallets
<1>2. \A r \in Records : r = [hashBlock |-> r.hashBlock, cache |-> r.cache]
  BY DEF Records
<1> QED  BY <1>1, <1>2

\* A function from transactions to records is one.
LEMMA WalletsType ==
  ASSUME NEW S \in SUBSET Tx, NEW w, w = [t \in S |-> w[t]], \A t \in S : w[t] \in Records
  PROVE  w \in Wallets
<1>1. w \in [S -> Records]
  OBVIOUS
<1> QED  BY <1>1 DEF Wallets

\* AddToWallet.
LEMMA AddToWalletIs ==
  ASSUME NEW w \in Wallets, NEW t \in Tx, NEW block \in Chains \cup {none}
  PROVE  LET u == AddToWallet(w, t, block) IN
         /\ u \in Wallets /\ DOMAIN u = DOMAIN w \cup {t}
         /\ \A x \in DOMAIN w : x # t => u[x] = w[x]
         /\ u[t].cache = none
         /\ u[t].hashBlock = IF block = none /\ t \in DOMAIN w THEN w[t].hashBlock ELSE block
<1> DEFINE S == DOMAIN w \cup {t}
           new == [hashBlock |-> IF block = none /\ t \in DOMAIN w THEN w[t].hashBlock ELSE block,
                   cache |-> none]
           u == AddToWallet(w, t, block)
<1>1. u = [x \in S |-> IF x # t THEN w[x] ELSE new]
  BY DEF AddToWallet
<1>2. new \in Records
  BY WalletsIs DEF Records
<1>3. /\ new.cache = none
      /\ new.hashBlock = IF block = none /\ t \in DOMAIN w THEN w[t].hashBlock ELSE block
  OBVIOUS
<1> HIDE DEF new, u
<1>4. u = [x \in S |-> u[x]] /\ S \in SUBSET Tx /\ \A x \in S : u[x] \in Records
  BY <1>1, <1>2, WalletsIs
<1>5. u \in Wallets
  BY <1>4, WalletsType
<1> QED  BY <1>1, <1>3, <1>5 DEF u

\* MarkDirty.
LEMMA MarkDirtyIs ==
  ASSUME NEW w \in Wallets, NEW S
  PROVE  LET u == MarkDirty(w, S) IN
         /\ u \in Wallets /\ DOMAIN u = DOMAIN w
         /\ \A x \in DOMAIN w : /\ u[x].hashBlock = w[x].hashBlock
                                /\ u[x].cache = IF x \in S THEN none ELSE w[x].cache
<1> DEFINE u == MarkDirty(w, S)
<1>1. u = [x \in DOMAIN w |-> IF x \in S THEN [w[x] EXCEPT !.cache = none] ELSE w[x]]
  BY DEF MarkDirty
<1>2. \A x \in DOMAIN w :
        /\ [w[x] EXCEPT !.cache = none] = [hashBlock |-> w[x].hashBlock, cache |-> none]
        /\ [hashBlock |-> w[x].hashBlock, cache |-> none] \in Records
  BY WalletsIs DEF Records
<1> HIDE DEF u
<1>3. /\ u = [x \in DOMAIN w |-> u[x]] /\ DOMAIN w \in SUBSET Tx
      /\ \A x \in DOMAIN w : /\ u[x] \in Records
                             /\ u[x].hashBlock = w[x].hashBlock
                             /\ u[x].cache = IF x \in S THEN none ELSE w[x].cache
  BY <1>1, <1>2, WalletsIs
<1>4. u \in Wallets
  BY <1>3, WalletsType
<1> QED  BY <1>3, <1>4 DEF u

\* SyncTransaction is how the wallet hears of a transaction ...
LEMMA SyncHeard ==
  ASSUME NEW w \in Wallets, NEW t \in Tx, NEW block \in Chains \cup {none}
  PROVE  Heard(w, SyncTransaction(w, t, block), t, block)
<1> DEFINE a == AddToWallet(w, t, block)
           added == AddToWalletIfInvolvingMe(w, t, block)
           u == SyncTransaction(w, t, block)
           dirty == MarkDirty(a, Parents(t))
<1>1. /\ a \in Wallets /\ DOMAIN a = DOMAIN w \cup {t}
      /\ \A x \in DOMAIN w : x # t => a[x] = w[x]
      /\ a[t].cache = none
      /\ a[t].hashBlock = IF block = none /\ t \in DOMAIN w THEN w[t].hashBlock ELSE block
  BY AddToWalletIs
<1> HIDE DEF a
<1>2. /\ dirty \in Wallets /\ DOMAIN dirty = DOMAIN a
      /\ \A x \in DOMAIN a : /\ dirty[x].hashBlock = a[x].hashBlock
                             /\ dirty[x].cache = IF x \in Parents(t) THEN none ELSE a[x].cache
  BY <1>1, MarkDirtyIs
<1> HIDE DEF dirty
<1>3. CASE t \in DOMAIN w \/ ConcernsMe(w, t)
  <2>1. u = dirty
    BY <1>1, <1>3 DEF SyncTransaction, AddToWalletIfInvolvingMe, a, dirty
  <2> HIDE DEF u
  <2>2. Heard(w, u, t, block)
    BY <1>1, <1>2, <2>1 DEF Heard
  <2> QED  BY <2>2 DEF u
<1>4. CASE ~(t \in DOMAIN w \/ ConcernsMe(w, t))
  <2>1. u = w
    BY <1>4 DEF SyncTransaction, AddToWalletIfInvolvingMe
  <2> HIDE DEF u
  <2>2. Heard(w, u, t, block)
    BY <1>4, <2>1 DEF Heard
  <2> QED  BY <2>2 DEF u
<1> QED  BY <1>3, <1>4

\* ... and AddToWalletIfInvolvingMe, where no credit is cached.
LEMMA AddHeard ==
  ASSUME NEW w \in Wallets, Dirty(w), NEW t \in Tx, NEW block \in Chains \cup {none}
  PROVE  LET u == AddToWalletIfInvolvingMe(w, t, block) IN Heard(w, u, t, block) /\ Dirty(u)
<1> DEFINE a == AddToWallet(w, t, block)
           u == AddToWalletIfInvolvingMe(w, t, block)
<1>1. /\ a \in Wallets /\ DOMAIN a = DOMAIN w \cup {t}
      /\ \A x \in DOMAIN w : x # t => a[x] = w[x]
      /\ a[t].cache = none
      /\ a[t].hashBlock = IF block = none /\ t \in DOMAIN w THEN w[t].hashBlock ELSE block
  <2>1. w \in Wallets /\ t \in Tx /\ block \in Chains \cup {none}
    OBVIOUS
  <2> QED  BY ONLY <2>1, AddToWalletIs
<1> HIDE DEF a
<1>2. \/ u = a
      \/ u = w /\ ~(t \in DOMAIN w \/ ConcernsMe(w, t))
  BY DEF AddToWalletIfInvolvingMe, a
<1> HIDE DEF u
<1>3. Dirty(u)
  BY <1>1, <1>2 DEF Dirty
<1>4. Heard(w, u, t, block)
  BY <1>1, <1>2, <1>3 DEF Heard, Dirty
<1> QED  BY <1>3, <1>4 DEF u

\* What becomes of w when it hears of the first i of ts, one after the other.
HeardAll(w, u, ts, i, block) ==
  /\ u \in Wallets /\ DOMAIN w \subseteq DOMAIN u
  /\ \A x \in DOMAIN u : x \in DOMAIN w \/ \E j \in 1 .. i : x = ts[j]
  /\ \A x \in DOMAIN w : block = none \/ (\A j \in 1 .. i : x # ts[j]) => u[x].hashBlock = w[x].hashBlock
  /\ \A j \in 1 .. i :
       ts[j] \in DOMAIN u => (ts[j] \in DOMAIN w /\ block = none) \/ u[ts[j]].hashBlock = block
  /\ \A x \in DOMAIN u : u[x].cache = none \/ (x \in DOMAIN w /\ u[x].cache = w[x].cache)
  /\ \A j \in 1 .. i : OutputsOf(ts[j]) # {} => ts[j] \in DOMAIN u
  /\ \A j \in 1 .. i : \A o \in Inputs[ts[j]] \cap Mine :
       /\ o[1] \in DOMAIN w \/ (\E k \in 1 .. j - 1 : o[1] = ts[k]) => ts[j] \in DOMAIN u
       /\ o[1] \in DOMAIN w => u[o[1]].cache = none

\* It has heard of none.
LEMMA HeardNothing ==
  ASSUME NEW w \in Wallets, NEW ts, NEW block
  PROVE  HeardAll(w, w, ts, 0, block)
BY DEF HeardAll

\* It hears of one more.
LEMMA HeardOneMore ==
  ASSUME NEW w \in Wallets, NEW ts \in Seq(Tx), NEW block, NEW i \in 1 .. Len(ts),
         NEW v, HeardAll(w, v, ts, i - 1, block), NEW u, Heard(v, u, ts[i], block)
  PROVE  HeardAll(w, u, ts, i, block)
<1> DEFINE t == ts[i]
<1>1. \A j \in 1 .. i : j = i \/ j \in 1 .. i - 1
  OBVIOUS
<1>2. i \in 1 .. i /\ \A j \in 1 .. i - 1 : j \in 1 .. i
  OBVIOUS
<1>3. u \in Wallets /\ DOMAIN w \subseteq DOMAIN v /\ DOMAIN v \subseteq DOMAIN u /\ DOMAIN u \subseteq DOMAIN v \cup {t}
  BY DEF Heard, HeardAll
<1>4. \A x \in DOMAIN u : x \in DOMAIN w \/ \E j \in 1 .. i : x = ts[j]
  BY <1>2, <1>3 DEF HeardAll
<1>5. ASSUME NEW x \in DOMAIN w, block = none \/ (\A j \in 1 .. i : x # ts[j])
      PROVE  u[x].hashBlock = w[x].hashBlock
  <2>1. v[x].hashBlock = w[x].hashBlock
    BY <1>2, <1>5 DEF HeardAll
  <2>2. u[x].hashBlock = v[x].hashBlock
    BY <1>2, <1>3, <1>5 DEF Heard
  <2> QED  BY <2>1, <2>2
<1>6. ASSUME NEW j \in 1 .. i, ts[j] \in DOMAIN u
      PROVE  (ts[j] \in DOMAIN w /\ block = none) \/ u[ts[j]].hashBlock = block
  <2>1. CASE ts[j] = t
    <3>1. (t \in DOMAIN v /\ block = none) \/ u[t].hashBlock = block
      BY <1>6, <2>1 DEF Heard
    <3>2. ASSUME t \in DOMAIN v, block = none, t \notin DOMAIN w PROVE u[t].hashBlock = block
      <4>1. PICK k \in 1 .. i - 1 : t = ts[k]
        BY <3>2 DEF HeardAll
      <4>2. v[t].hashBlock = block
        BY <3>2, <4>1 DEF HeardAll
      <4> QED  BY <3>2, <4>2 DEF Heard
    <3> QED  BY <2>1, <3>1, <3>2
  <2>2. CASE ts[j] # t
    <3>1. j \in 1 .. i - 1 /\ ts[j] \in DOMAIN v
      BY <1>1, <1>3, <1>6, <2>2
    <3>2. (ts[j] \in DOMAIN w /\ block = none) \/ v[ts[j]].hashBlock = block
      BY <3>1 DEF HeardAll
    <3>3. u[ts[j]].hashBlock = v[ts[j]].hashBlock
      BY <2>2, <3>1 DEF Heard
    <3> QED  BY <3>2, <3>3
  <2> QED  BY <2>1, <2>2
<1>7. ASSUME NEW x \in DOMAIN u, u[x].cache # none PROVE x \in DOMAIN w /\ u[x].cache = w[x].cache
  <2>1. x \in DOMAIN v /\ u[x].cache = v[x].cache
    BY <1>7 DEF Heard
  <2> QED  BY <1>7, <2>1 DEF HeardAll
<1>8. ASSUME NEW j \in 1 .. i, OutputsOf(ts[j]) # {} PROVE ts[j] \in DOMAIN u
  <2>1. CASE j = i
    BY <1>8, <2>1 DEF Heard, ConcernsMe
  <2>2. CASE j \in 1 .. i - 1
    BY <1>3, <1>8, <2>2 DEF HeardAll
  <2> QED  BY <1>1, <2>1, <2>2
<1>9. ASSUME NEW j \in 1 .. i, NEW o \in Inputs[ts[j]] \cap Mine
      PROVE  /\ o[1] \in DOMAIN w \/ (\E k \in 1 .. j - 1 : o[1] = ts[k]) => ts[j] \in DOMAIN u
             /\ o[1] \in DOMAIN w => u[o[1]].cache = none
  <2>1. CASE j = i
    <3>1. ASSUME o[1] \in DOMAIN w \/ \E k \in 1 .. i - 1 : o[1] = ts[k] PROVE o[1] \in DOMAIN v /\ t \in DOMAIN u
      <4>1. ASSUME NEW k \in 1 .. i - 1, o[1] = ts[k] PROVE o[1] \in DOMAIN v
        <5>1. o \in OutputsOf(ts[k])
          BY <4>1 DEF OutputsOf
        <5> QED  BY <4>1, <5>1 DEF HeardAll
      <4>2. o[1] \in DOMAIN v
        BY <1>3, <3>1, <4>1
      <4>3. IsFromMe(v, t)
        BY <2>1, <4>2 DEF IsFromMe
      <4> QED  BY <4>2, <4>3 DEF Heard, ConcernsMe
    <3>2. o[1] \in Parents(t)
      BY <2>1 DEF Parents
    <3> QED  BY <1>3, <2>1, <3>1, <3>2 DEF Heard
  <2>2. CASE j \in 1 .. i - 1
    <3>1. /\ o[1] \in DOMAIN w \/ (\E k \in 1 .. j - 1 : o[1] = ts[k]) => ts[j] \in DOMAIN v
          /\ o[1] \in DOMAIN w => v[o[1]].cache = none
      BY <2>2 DEF HeardAll
    <3>2. o[1] \in DOMAIN w => u[o[1]].cache = none
      BY <1>3, <3>1 DEF Heard
    <3> QED  BY <1>3, <3>1, <3>2
  <2> QED  BY <1>1, <2>1, <2>2
<1> HIDE DEF t
<1> QED  BY <1>3, <1>4, <1>5, <1>6, <1>7, <1>8, <1>9 DEF HeardAll

\* SyncAll.
LEMMA SyncAllHeard ==
  ASSUME NEW w \in Wallets, NEW ts \in Seq(Tx), NEW block \in Chains \cup {none}
  PROVE  HeardAll(w, SyncAll(w, ts, block), ts, Len(ts), block)
<1> DEFINE F == [e \in Wallets \X Tx |-> SyncTransaction(e[1], e[2], block)]
           Synced(f) == f = [i \in 0 .. Len(ts) |->
                               IF i = 0 THEN w ELSE SyncTransaction(f[i - 1], ts[i], block)]
           h == CHOOSE f : Synced(f)
<1>1. \E f : Synced(f)
  <2>1. F \in [Wallets \X Tx -> Wallets]
    BY SyncHeard DEF Heard
  <2>2. PICK g : IsResults(g, Wallets, F, w, ts)
    <3> HIDE DEF F
    <3> QED  BY <2>1, ResultsExist
  <2>3. g \in [0 .. Len(ts) -> Wallets] /\ g[0] = w /\ \A i \in 1 .. Len(ts) : g[i] = F[<<g[i - 1], ts[i]>>]
    <3> HIDE DEF F
    <3> QED  BY <2>2 DEF IsResults
  <2>4. \A i \in 1 .. Len(ts) : g[i] = SyncTransaction(g[i - 1], ts[i], block)
    <3>1. SUFFICES ASSUME NEW i \in 1 .. Len(ts) PROVE g[i] = SyncTransaction(g[i - 1], ts[i], block)
      OBVIOUS
    <3>2. g[i - 1] \in Wallets /\ ts[i] \in Tx
      BY <2>3
    <3> QED  BY <2>3, <3>2
  <2> QED  BY <2>3, <2>4
<1>2. Synced(h)
  BY <1>1
<1>3. h[0] = w /\ \A i \in 1 .. Len(ts) : h[i] = SyncTransaction(h[i - 1], ts[i], block)
  <2>1. 0 \in 0 .. Len(ts) /\ \A i \in 1 .. Len(ts) : i \in 0 .. Len(ts) /\ i # 0
    OBVIOUS
  <2> HIDE DEF h
  <2> QED  BY <1>2, <2>1
<1>4. SyncAll(w, ts, block) = h[Len(ts)]
  BY DEF SyncAll
<1> HIDE DEF h
<1> DEFINE Bad == {i \in 0 .. Len(ts) : ~HeardAll(w, h[i], ts, i, block)}
<1>5. ASSUME Bad # {} PROVE FALSE
  <2>1. PICK i \in Bad : \A m \in Bad : i <= m
    <3>1. Bad \in SUBSET Nat  OBVIOUS
    <3> HIDE DEF Bad
    <3> QED  BY <1>5, <3>1, SmallestNumber
  <2>2. i # 0
    BY <1>3, <2>1, HeardNothing
  <2>3. i \in 1 .. Len(ts) /\ i - 1 \in 0 .. Len(ts) /\ ~(i <= i - 1) /\ ts[i] \in Tx
    BY <2>1, <2>2
  <2>4. HeardAll(w, h[i - 1], ts, i - 1, block)
    BY <2>1, <2>3
  <2>5. Heard(h[i - 1], h[i], ts[i], block)
    BY <1>3, <2>3, <2>4, SyncHeard DEF HeardAll
  <2>6. HeardAll(w, h[i], ts, i, block)
    BY <2>3, <2>4, <2>5, HeardOneMore
  <2> QED  BY <2>1, <2>6
<1>6. Len(ts) \in 0 .. Len(ts)
  OBVIOUS
<1> QED  BY <1>4, <1>5, <1>6

\* A block that is rescanned, while no credit is cached.
LEMMA ScanBlockHeard ==
  ASSUME NEW w \in Wallets, Dirty(w), NEW ts \in Seq(Tx), NEW block \in Chains \cup {none}
  PROVE  /\ HeardAll(w, ScanBlock(w, ts, block), ts, Len(ts), block)
         /\ Dirty(ScanBlock(w, ts, block))
<1> DEFINE D == {x \in Wallets : Dirty(x)}
           F == [e \in D \X Tx |-> AddToWalletIfInvolvingMe(e[1], e[2], block)]
           Scanned(f) == f = [i \in 0 .. Len(ts) |->
                               IF i = 0 THEN w ELSE AddToWalletIfInvolvingMe(f[i - 1], ts[i], block)]
           h == CHOOSE f : Scanned(f)
<1>1. \E f : Scanned(f)
  <2>1. F \in [D \X Tx -> D]
    BY AddHeard DEF Heard
  <2>2. PICK g : IsResults(g, D, F, w, ts)
    <3>1. w \in D  OBVIOUS
    <3> HIDE DEF F, D
    <3> QED  BY <2>1, <3>1, ResultsExist
  <2>3. g \in [0 .. Len(ts) -> D] /\ g[0] = w /\ \A i \in 1 .. Len(ts) : g[i] = F[<<g[i - 1], ts[i]>>]
    <3> HIDE DEF F, D
    <3> QED  BY <2>2 DEF IsResults
  <2>4. \A i \in 1 .. Len(ts) : g[i] = AddToWalletIfInvolvingMe(g[i - 1], ts[i], block)
    <3>1. SUFFICES ASSUME NEW i \in 1 .. Len(ts) PROVE g[i] = AddToWalletIfInvolvingMe(g[i - 1], ts[i], block)
      OBVIOUS
    <3>2. g[i - 1] \in D /\ ts[i] \in Tx
      BY <2>3
    <3> QED  BY <2>3, <3>2
  <2> QED  BY <2>3, <2>4
<1>2. Scanned(h)
  BY <1>1
<1>3. h[0] = w /\ \A i \in 1 .. Len(ts) : h[i] = AddToWalletIfInvolvingMe(h[i - 1], ts[i], block)
  <2>1. 0 \in 0 .. Len(ts) /\ \A i \in 1 .. Len(ts) : i \in 0 .. Len(ts) /\ i # 0
    OBVIOUS
  <2> HIDE DEF h
  <2> QED  BY <1>2, <2>1
<1>4. ScanBlock(w, ts, block) = h[Len(ts)]
  BY DEF ScanBlock
<1> HIDE DEF h
<1> DEFINE Bad == {i \in 0 .. Len(ts) : ~(HeardAll(w, h[i], ts, i, block) /\ Dirty(h[i]))}
<1>5. ASSUME Bad # {} PROVE FALSE
  <2>1. PICK i \in Bad : \A m \in Bad : i <= m
    <3>1. Bad \in SUBSET Nat  OBVIOUS
    <3> HIDE DEF Bad
    <3> QED  BY <1>5, <3>1, SmallestNumber
  <2>2. i # 0
    BY <1>3, <2>1, HeardNothing
  <2>3. i \in 1 .. Len(ts) /\ i - 1 \in 0 .. Len(ts) /\ ~(i <= i - 1) /\ ts[i] \in Tx
    BY <2>1, <2>2
  <2>4. HeardAll(w, h[i - 1], ts, i - 1, block) /\ Dirty(h[i - 1])
    BY <2>1, <2>3
  <2>5. Heard(h[i - 1], h[i], ts[i], block) /\ Dirty(h[i])
    BY <1>3, <2>3, <2>4, AddHeard DEF HeardAll
  <2>6. HeardAll(w, h[i], ts, i, block)
    BY <2>3, <2>4, <2>5, HeardOneMore
  <2> QED  BY <2>1, <2>5, <2>6
<1>6. Len(ts) \in 0 .. Len(ts)
  OBVIOUS
<1> QED  BY <1>4, <1>5, <1>6
-----------------------------------------------------------------------------
(***************************************************************************)
(* A wallet that follows a chain.                                          *)
(***************************************************************************)
BlockIn(c, t) == IF t \in Funding THEN <<>> ELSE SubSeq(c, 1, Height(c, t))
Follows(w, c) ==
  \A t \in Confirmed(c) : Concerned(t) => t \in DOMAIN w /\ w[t].hashBlock = BlockIn(c, t)

\* The first blocks of a chain.
LEMMA ChainPrefix ==
  ASSUME NEW c, ChainValid(c), NEW n \in 0 .. Len(c)
  PROVE  LET a == SubSeq(c, 1, n) IN
         /\ ChainValid(a) /\ Len(a) = n /\ \A i \in 1 .. n : a[i] = c[i]
         /\ Confirmed(a) \subseteq Confirmed(c)
<1> DEFINE a == SubSeq(c, 1, n)
<1>1. c \in Chains /\ Len(c) \in Nat /\ DOMAIN c = 1 .. Len(c)
  BY DEF ChainValid, Chains
<1>2. a \in Chains /\ Len(a) = n /\ DOMAIN a = 1 .. n /\ \A i \in 1 .. n : a[i] = c[i]
  BY <1>1 DEF Chains
<1>3. ASSUME NEW i \in DOMAIN a PROVE ValidBlock(SubSeq(a, 1, i - 1), a[i])
  <2>1. i \in DOMAIN c /\ a[i] = c[i] /\ SubSeq(a, 1, i - 1) = SubSeq(c, 1, i - 1)
    BY <1>1, <1>2 DEF Chains
  <2> QED  BY <2>1 DEF ChainValid
<1>4. Confirmed(a) \subseteq Confirmed(c)
  BY <1>1, MinedPrefix DEF Confirmed
<1> HIDE DEF a
<1>5. ChainValid(a)
  BY <1>2, <1>3 DEF ChainValid
<1> QED  BY <1>2, <1>4, <1>5 DEF a

\* Where a transaction of a chain is.
LEMMA HeightIs ==
  ASSUME NEW c, ChainValid(c), NEW i \in 1 .. Len(c), NEW t, t \in Range(c[i])
  PROVE  Height(c, t) = i /\ t \in Mined(c) /\ t \in Tx /\ t \notin Funding
<1>1. i \in DOMAIN c
  BY DEF ChainValid, Chains
<1>2. t \in Mined(c)
  BY <1>1 DEF Mined
<1>3. Height(c, t) = i
  BY <1>1, ChainFacts DEF Height
<1> QED  BY <1>2, <1>3, ChainFacts

\* Every transaction of a chain is somewhere.
LEMMA MinedAt ==
  ASSUME NEW c, ChainValid(c), NEW t \in Mined(c)
  PROVE  /\ Height(c, t) \in 1 .. Len(c) /\ t \in Range(c[Height(c, t)])
         /\ t \in Tx /\ t \notin Funding
<1>1. PICK i \in DOMAIN c : t \in Range(c[i])
  BY DEF Mined
<1>2. i \in 1 .. Len(c)
  BY <1>1 DEF ChainValid, Chains
<1> QED  BY <1>1, <1>2, HeightIs

\* It is in the same place of a part of the chain.
LEMMA BlockInPrefix ==
  ASSUME NEW c, ChainValid(c), NEW n \in 0 .. Len(c), NEW t \in Confirmed(SubSeq(c, 1, n))
  PROVE  BlockIn(SubSeq(c, 1, n), t) = BlockIn(c, t)
<1> DEFINE a == SubSeq(c, 1, n)
<1>1. /\ ChainValid(a) /\ Len(a) = n /\ \A i \in 1 .. n : a[i] = c[i]
      /\ c \in Chains /\ Len(c) \in Nat
  <2>1. c \in Chains /\ Len(c) \in Nat
    BY DEF ChainValid, Chains
  <2>2. ChainValid(a) /\ Len(a) = n /\ \A i \in 1 .. n : a[i] = c[i]
    BY ChainPrefix
  <2> QED  BY <2>1, <2>2
<1>2. SUFFICES ASSUME t \notin Funding PROVE SubSeq(a, 1, Height(a, t)) = SubSeq(c, 1, Height(c, t))
  BY DEF BlockIn
<1>3. Height(a, t) \in 1 .. n /\ t \in Range(a[Height(a, t)])
  <2> HIDE DEF a
  <2>1. t \in Mined(a)
    BY <1>2 DEF Confirmed, a
  <2> QED  BY <1>1, <2>1, MinedAt
<1> DEFINE i == Height(a, t)
<1>4. i \in 1 .. Len(c) /\ t \in Range(c[i])
  BY <1>1, <1>3
<1> HIDE DEF i
<1>5. Height(c, t) = i
  BY <1>4, HeightIs
<1>6. SubSeq(a, 1, i) = SubSeq(c, 1, i)
  BY <1>1, <1>3 DEF Chains, i
<1> QED  BY <1>5, <1>6 DEF i

\* What follows a chain follows any part of it.
LEMMA FollowsPrefix ==
  ASSUME NEW c, ChainValid(c), NEW n \in 0 .. Len(c), NEW w, Follows(w, c)
  PROVE  Follows(w, SubSeq(c, 1, n))
<1>1. ASSUME NEW t \in Confirmed(SubSeq(c, 1, n)), Concerned(t)
      PROVE  t \in DOMAIN w /\ w[t].hashBlock = BlockIn(SubSeq(c, 1, n), t)
  <2>1. t \in Confirmed(c) /\ BlockIn(SubSeq(c, 1, n), t) = BlockIn(c, t)
    BY ChainPrefix, BlockInPrefix
  <2> QED  BY <1>1, <2>1 DEF Follows
<1> QED  BY <1>1 DEF Follows

\* It still does after it heard of transactions that are in no block.
LEMMA FollowsStill ==
  ASSUME NEW w, NEW c, Follows(w, c), NEW ts, NEW i, NEW u, HeardAll(w, u, ts, i, none)
  PROVE  Follows(u, c)
BY DEF Follows, HeardAll

\* A wallet that hears of all of the next block follows the longer chain.
LEMMA FollowsBlock ==
  ASSUME NEW c, ChainValid(c), NEW vtx \in Seq(Tx), ValidBlock(c, vtx),
         NEW w, Follows(w, c), NEW u, HeardAll(w, u, vtx, Len(vtx), Append(c, vtx))
  PROVE  Follows(u, Append(c, vtx))
<1> DEFINE a == Append(c, vtx)
<1>1. /\ ChainValid(a) /\ c \in Chains /\ a \in Chains /\ Len(c) \in Nat /\ Len(a) = Len(c) + 1
      /\ a[Len(c) + 1] = vtx /\ SubSeq(a, 1, Len(c)) = c /\ SubSeq(a, 1, Len(c) + 1) = a
      /\ Len(c) \in 0 .. Len(a) /\ Len(c) + 1 \in 1 .. Len(a)
  BY ChainGrows DEF ChainValid, Chains
<1>2. Confirmed(a) = Confirmed(c) \cup Range(vtx)
  BY <1>1, MinedAppend DEF Confirmed
<1>3. a # none
  BY <1>1, WalletAssumption DEF Chains
<1> HIDE DEF a
<1>4. \A t : t \in Range(vtx) <=> \E j \in 1 .. Len(vtx) : t = vtx[j]
  BY DEF Range
<1>5. ASSUME NEW t \in Confirmed(c), Concerned(t)
      PROVE  t \in DOMAIN u /\ u[t].hashBlock = BlockIn(a, t)
  <2>1. BlockIn(c, t) = BlockIn(a, t)
    BY <1>1, BlockInPrefix
  <2>2. \A j \in 1 .. Len(vtx) : t # vtx[j]
    BY <1>1, ValidBlockIs
  <2>3. t \in DOMAIN w /\ w[t].hashBlock = BlockIn(c, t)
    BY <1>5 DEF Follows
  <2> QED  BY <2>1, <2>2, <2>3 DEF HeardAll
<1>6. ASSUME NEW j \in 1 .. Len(vtx), Concerned(vtx[j])
      PROVE  vtx[j] \in DOMAIN u /\ u[vtx[j]].hashBlock = BlockIn(a, vtx[j])
  <2>1. ASSUME NEW o \in Inputs[vtx[j]], o \in Mine PROVE vtx[j] \in DOMAIN u
    <3>1. o[1] \in Confirmed(c) \/ \E k \in 1 .. j - 1 : o[1] = vtx[k]
      BY <1>1, ValidBlockIs
    <3>2. Concerned(o[1])
      BY <2>1 DEF Concerned, OutputsOf
    <3>3. o[1] \in DOMAIN w \/ \E k \in 1 .. j - 1 : o[1] = vtx[k]
      BY <3>1, <3>2 DEF Follows
    <3>4. o \in Inputs[vtx[j]] \cap Mine
      BY <2>1
    <3> QED  BY <3>3, <3>4 DEF HeardAll
  <2>2. vtx[j] \in DOMAIN u
    BY <1>6, <2>1 DEF Concerned, HeardAll
  <2>3. u[vtx[j]].hashBlock = a
    BY <1>3, <2>2 DEF HeardAll, a
  <2>4. vtx[j] \in Range(a[Len(c) + 1])
    BY <1>1, <1>4
  <2>5. Height(a, vtx[j]) = Len(c) + 1 /\ vtx[j] \notin Funding
    BY <1>1, <2>4, HeightIs
  <2> QED  BY <1>1, <2>2, <2>3, <2>5 DEF BlockIn
<1>7. Follows(u, a)
  BY <1>2, <1>4, <1>5, <1>6 DEF Follows
<1> QED  BY <1>7 DEF a

\* A block that the wallet has for a transaction is one that holds it.
InBlock(t, hash) ==
  \/ hash = none
  \/ t \in Funding /\ hash = <<>>
  \/ t \notin Funding /\ hash \in Chains /\ hash # <<>> /\ t \in Range(Last(hash))
RecordsSound(w) == \A t \in DOMAIN w : InBlock(t, w[t].hashBlock)

\* It stays so when the wallet hears of transactions of a block, or of none.
LEMMA RecordsStaySound ==
  ASSUME NEW w, RecordsSound(w), NEW ts, NEW n, NEW block, NEW u, HeardAll(w, u, ts, n, block),
         \/ block = none
         \/ block \in Chains /\ block # <<>> /\ \A j \in 1 .. n : ts[j] \in Range(Last(block)) \ Funding
  PROVE  RecordsSound(u)
<1>1. ASSUME NEW t \in DOMAIN u PROVE InBlock(t, u[t].hashBlock)
  <2>1. ASSUME NEW j \in 1 .. n, t = ts[j], u[t].hashBlock = block PROVE InBlock(t, u[t].hashBlock)
    BY <2>1 DEF InBlock
  <2>2. ASSUME t \in DOMAIN w, u[t].hashBlock = w[t].hashBlock PROVE InBlock(t, u[t].hashBlock)
    BY <2>2 DEF RecordsSound
  <2>3. CASE \E j \in 1 .. n : t = ts[j]
    <3>1. PICK j \in 1 .. n : t = ts[j]
      BY <2>3
    <3>2. (t \in DOMAIN w /\ block = none) \/ u[t].hashBlock = block
      BY <3>1 DEF HeardAll
    <3>3. t \in DOMAIN w /\ block = none => u[t].hashBlock = w[t].hashBlock
      BY DEF HeardAll
    <3> QED  BY <2>1, <2>2, <3>1, <3>2, <3>3
  <2>4. CASE ~\E j \in 1 .. n : t = ts[j]
    <3>1. t \in DOMAIN w
      BY <2>4 DEF HeardAll
    <3>2. u[t].hashBlock = w[t].hashBlock
      BY <2>4, <3>1 DEF HeardAll
    <3> QED  BY <2>2, <3>1, <3>2
  <2> QED  BY <2>3, <2>4
<1> QED  BY <1>1 DEF RecordsSound

\* A block on top of a chain: what the lemmas above need to know of it.
LEMMA BlockOnTop ==
  ASSUME NEW c, ChainValid(c), NEW vtx \in Seq(Tx), ValidBlock(c, vtx)
  PROVE  LET a == Append(c, vtx) IN
         /\ ChainValid(a) /\ a \in Chains /\ a # <<>>
         /\ \A j \in 1 .. Len(vtx) : vtx[j] \in Range(Last(a)) \ Funding
<1> DEFINE a == Append(c, vtx)
<1>1. ChainValid(a) /\ a \in Chains /\ a # <<>> /\ Last(a) = vtx /\ c \in Chains
  <2>1. ChainValid(a)
    BY ChainGrows
  <2>2. c \in Chains
    BY DEF ChainValid
  <2>3. a \in Chains /\ Len(a) = Len(c) + 1 /\ Len(c) \in Nat /\ a[Len(c) + 1] = vtx
    BY <2>2 DEF Chains
  <2> HIDE DEF a
  <2>4. a # <<>>
    BY <2>3
  <2> QED  BY <2>1, <2>2, <2>3, <2>4 DEF Last
<1>2. \A j \in 1 .. Len(vtx) : vtx[j] \notin Funding
  BY <1>1, ValidBlockIs DEF Confirmed
<1> HIDE DEF a
<1>3. \A j \in 1 .. Len(vtx) : vtx[j] \in Range(Last(a)) \ Funding
  BY <1>1, <1>2 DEF Range
<1> QED  BY <1>1, <1>3 DEF a

\* The blocks of a chain are on top of each other.
LEMMA BlockAt ==
  ASSUME NEW c, ChainValid(c), NEW i \in 1 .. Len(c)
  PROVE  /\ c[i] \in Seq(Tx) /\ ChainValid(SubSeq(c, 1, i - 1)) /\ ValidBlock(SubSeq(c, 1, i - 1), c[i])
         /\ SubSeq(c, 1, i) = Append(SubSeq(c, 1, i - 1), c[i])
         /\ SubSeq(c, 1, i) \in Chains
<1>1. c \in Chains /\ Len(c) \in Nat /\ i \in DOMAIN c /\ i - 1 \in 0 .. Len(c)
  BY DEF ChainValid, Chains
<1>2. c[i] \in Seq(Tx) /\ ValidBlock(SubSeq(c, 1, i - 1), c[i])
  BY <1>1 DEF ChainValid, Chains
<1>3. ChainValid(SubSeq(c, 1, i - 1))
  BY <1>1, ChainPrefix
<1>4. SubSeq(c, 1, i) = Append(SubSeq(c, 1, i - 1), c[i]) /\ SubSeq(c, 1, i) \in Chains
  BY <1>1 DEF Chains
<1> QED  BY <1>2, <1>3, <1>4

\* A wallet that is as right as it can be for the first i blocks of c.
Scanned(w, u, c, i) ==
  u \in Wallets /\ Dirty(u) /\ RecordsSound(u) /\ DOMAIN w \subseteq DOMAIN u /\ Follows(u, SubSeq(c, 1, i))

\* One more block is scanned.
LEMMA ScanOneMore ==
  ASSUME NEW c, ChainValid(c), NEW i \in 1 .. Len(c), NEW w, NEW v, Scanned(w, v, c, i - 1)
  PROVE  Scanned(w, ScanBlock(v, c[i], SubSeq(c, 1, i)), c, i)
<1> DEFINE b == SubSeq(c, 1, i - 1)
           a == SubSeq(c, 1, i)
           vtx == c[i]
           u == ScanBlock(v, vtx, a)
<1>1. vtx \in Seq(Tx) /\ ChainValid(b) /\ ValidBlock(b, vtx) /\ a = Append(b, vtx) /\ a \in Chains
  BY BlockAt
<1>2. v \in Wallets /\ Dirty(v) /\ RecordsSound(v) /\ DOMAIN w \subseteq DOMAIN v /\ Follows(v, b)
  BY DEF Scanned
<1> HIDE DEF b, a, vtx
<1>3. HeardAll(v, u, vtx, Len(vtx), a) /\ Dirty(u)
  BY <1>1, <1>2, ScanBlockHeard
<1> HIDE DEF u
<1>4. Follows(u, a)
  BY <1>1, <1>2, <1>3, FollowsBlock
<1>5. a # <<>> /\ \A j \in 1 .. Len(vtx) : vtx[j] \in Range(Last(a)) \ Funding
  BY <1>1, BlockOnTop
<1>6. RecordsSound(u)
  BY <1>1, <1>2, <1>3, <1>5, RecordsStaySound
<1>7. u \in Wallets /\ DOMAIN w \subseteq DOMAIN u
  BY <1>2, <1>3 DEF HeardAll
<1> QED  BY <1>3, <1>4, <1>6, <1>7 DEF Scanned, u, a, vtx

\* A rescan from where the wallet is right, or below, makes it follow the chain.
LEMMA ScanFollows ==
  ASSUME NEW c, ChainValid(c), NEW w \in Wallets, Dirty(w), RecordsSound(w),
         NEW height \in Nat, height <= Len(c), c # <<>>, Follows(w, Front(c))
  PROVE  Scanned(w, Scan(w, c, height), c, Len(c))
<1> DEFINE D == {x \in Wallets : Dirty(x)}
           s == [i \in 1 .. Len(c) |-> i]
           F == [e \in D \X (1 .. Len(c)) |->
                   IF e[2] < height THEN e[1] ELSE ScanBlock(e[1], c[e[2]], SubSeq(c, 1, e[2]))]
           B(v, i) == ScanBlock(v, c[i], SubSeq(c, 1, i))
           Scans(f) == f = [i \in 0 .. Len(c) |-> IF i = 0 THEN w
                              ELSE IF i < height THEN f[i - 1] ELSE B(f[i - 1], i)]
           h == CHOOSE f : Scans(f)
<1>0. c \in Chains /\ Len(c) \in Nat /\ Len(c) > 0
  BY DEF ChainValid, Chains
<1>1. \E f : Scans(f)
  <2>1. F \in [D \X (1 .. Len(c)) -> D]
    <3>1. ASSUME NEW v \in D, NEW i \in 1 .. Len(c) PROVE ScanBlock(v, c[i], SubSeq(c, 1, i)) \in D
      <4>1. c[i] \in Seq(Tx) /\ SubSeq(c, 1, i) \in Chains \cup {none} /\ v \in Wallets /\ Dirty(v)
        BY BlockAt
      <4> QED  BY <4>1, ScanBlockHeard DEF HeardAll
    <3> HIDE DEF D
    <3> QED  BY <3>1
  <2>2. s \in Seq(1 .. Len(c)) /\ Len(s) = Len(c) /\ \A i \in 1 .. Len(c) : s[i] = i
    BY <1>0
  <2>3. w \in D
    OBVIOUS
  <2>4. PICK g : IsResults(g, D, F, w, s)
    <3> HIDE DEF F, D, s
    <3> QED  BY <2>1, <2>2, <2>3, ResultsExist
  <2>5. g \in [0 .. Len(c) -> D] /\ g[0] = w /\ \A i \in 1 .. Len(c) : g[i] = F[<<g[i - 1], i>>]
    <3> HIDE DEF F, D, s
    <3> QED  BY <2>2, <2>4 DEF IsResults
  <2>6. \A i \in 1 .. Len(c) :
          g[i] = IF i < height THEN g[i - 1] ELSE ScanBlock(g[i - 1], c[i], SubSeq(c, 1, i))
    <3>1. SUFFICES ASSUME NEW i \in 1 .. Len(c)
                   PROVE  g[i] = IF i < height THEN g[i - 1] ELSE ScanBlock(g[i - 1], c[i], SubSeq(c, 1, i))
      OBVIOUS
    <3>2. g[i - 1] \in D
      <4> HIDE DEF D, F
      <4> QED  BY <1>0, <2>5
    <3>3. g[i] = F[<<g[i - 1], i>>]
      BY <2>5
    <3> HIDE DEF D
    <3> QED  BY <3>2, <3>3
  <2>7. \A i \in 1 .. Len(c) : g[i] = IF i < height THEN g[i - 1] ELSE B(g[i - 1], i)
    BY <2>6
  <2> HIDE DEF D, F, s, B
  <2>8. Scans(g)
    BY <1>0, <2>5, <2>7
  <2> HIDE DEF Scans
  <2> QED  BY <2>8
<1>2. Scans(h)
  BY <1>1
<1>3. h[0] = w /\ \A i \in 1 .. Len(c) :
        h[i] = IF i < height THEN h[i - 1] ELSE ScanBlock(h[i - 1], c[i], SubSeq(c, 1, i))
  <2> HIDE DEF h, B
  <2>1. h[0] = w /\ \A i \in 1 .. Len(c) : h[i] = IF i < height THEN h[i - 1] ELSE B(h[i - 1], i)
    BY <1>0, <1>2
  <2> QED  BY <2>1 DEF B
<1>4. Scan(w, c, height) = h[Len(c)]
  BY DEF Scan
<1> HIDE DEF h, Scans, F, D, s, B
<1>5. ASSUME NEW i \in 0 .. Len(c) - 1 PROVE Scanned(w, w, c, i)
  <2>1. ChainValid(Front(c)) /\ Len(Front(c)) = Len(c) - 1
    BY ChainShrinks
  <2>2. SubSeq(Front(c), 1, i) = SubSeq(c, 1, i)
    BY <1>0 DEF Front, Chains
  <2>3. Follows(w, SubSeq(c, 1, i))
    BY <2>1, <2>2, FollowsPrefix
  <2> QED  BY <2>3 DEF Scanned
<1> DEFINE Bad == {i \in 0 .. Len(c) : ~(Scanned(w, h[i], c, i) /\ (i < height => h[i] = w))}
<1>6. ASSUME Bad # {} PROVE FALSE
  <2>1. PICK i \in Bad : \A m \in Bad : i <= m
    <3>1. Bad \in SUBSET Nat
      BY <1>0
    <3> HIDE DEF Bad
    <3> QED  BY <1>6, <3>1, SmallestNumber
  <2>2. i # 0
    BY <1>0, <1>3, <1>5, <2>1
  <2>3. i \in 1 .. Len(c) /\ i - 1 \in 0 .. Len(c) /\ ~(i <= i - 1)
    BY <1>0, <2>1, <2>2
  <2>4. Scanned(w, h[i - 1], c, i - 1) /\ (i - 1 < height => h[i - 1] = w)
    BY <2>1, <2>3
  <2>5. CASE i < height
    <3>1. h[i] = w /\ i \in 0 .. Len(c) - 1
      BY <1>0, <1>3, <2>3, <2>4, <2>5
    <3> QED  BY <1>5, <2>1, <3>1
  <2>6. CASE ~(i < height)
    <3>1. h[i] = ScanBlock(h[i - 1], c[i], SubSeq(c, 1, i))
      BY <1>3, <2>3, <2>6
    <3>2. Scanned(w, h[i], c, i)
      BY <2>3, <2>4, <3>1, ScanOneMore
    <3> QED  BY <2>1, <2>6, <3>2
  <2> QED  BY <2>5, <2>6
<1>7. Len(c) \in 0 .. Len(c)
  BY <1>0
<1>8. Scanned(w, h[Len(c)], c, Len(c))
  BY <1>6, <1>7
<1> QED  BY <1>4, <1>8
-----------------------------------------------------------------------------
(***************************************************************************)
(* A wallet that is right about a chain c and a pool p.                    *)
(***************************************************************************)
\* The coins that are spent.
Spent(c, p) == DOMAIN p.mapNextTx \cup UNION {Inputs[s] : s \in Mined(c)}

PoolHeard(w, p) == \A s \in p.mapTx : Concerned(s) => s \in DOMAIN w
CreditsFree(w, c, p) ==
  \A t \in DOMAIN w : w[t].cache # none => w[t].cache \subseteq OutputsOf(t) \ Spent(c, p)

Right(w, c, p) ==
  w \in Wallets /\ RecordsSound(w) /\ Follows(w, c) /\ PoolHeard(w, p) /\ CreditsFree(w, c, p)

\* What it hears of spends what a cached credit counts: the credit is forgotten.
LEMMA CreditsStayFree ==
  ASSUME NEW w, NEW c, NEW p, CreditsFree(w, c, p),
         NEW ts, NEW n, NEW block, NEW u, HeardAll(w, u, ts, n, block),
         NEW d, NEW q, Spent(d, q) \subseteq Spent(c, p) \cup UNION {Inputs[ts[j]] : j \in 1 .. n}
  PROVE  CreditsFree(u, d, q)
<1>1. SUFFICES ASSUME NEW t \in DOMAIN u, u[t].cache # none, NEW o \in u[t].cache
               PROVE  o \in OutputsOf(t) /\ o \notin Spent(d, q)
  BY DEF CreditsFree
<1>2. t \in DOMAIN w /\ u[t].cache = w[t].cache
  BY <1>1 DEF HeardAll
<1>3. o \in OutputsOf(t) /\ o \notin Spent(c, p)
  BY <1>1, <1>2 DEF CreditsFree
<1>4. ASSUME NEW j \in 1 .. n, o \in Inputs[ts[j]] PROVE FALSE
  <2>1. o \in Inputs[ts[j]] \cap Mine /\ o[1] = t
    BY <1>3, <1>4 DEF OutputsOf
  <2> QED  BY <1>1, <1>2, <2>1 DEF HeardAll
<1> QED  BY <1>3, <1>4

\* It hears of one transaction that is in no block yet ...
LEMMA HeardOne ==
  ASSUME NEW w \in Wallets, NEW t \in Tx, NEW u, Heard(w, u, t, none)
  PROVE  HeardAll(w, u, <<t>>, 1, none)
<1>1. <<t>> \in Seq(Tx) /\ 1 \in 1 .. Len(<<t>>) /\ <<t>>[1] = t /\ 1 - 1 = 0
  OBVIOUS
<1>2. HeardAll(w, w, <<t>>, 0, none)
  BY HeardNothing
<1> DEFINE ts == <<t>>
           i == 1
<1> HIDE DEF ts, i
<1>3. ts \in Seq(Tx) /\ i \in 1 .. Len(ts) /\ ts[i] = t /\ HeardAll(w, w, ts, i - 1, none)
  BY <1>1, <1>2 DEF ts, i
<1>4. HeardAll(w, u, ts, i, none)
  BY <1>3, HeardOneMore
<1> QED  BY <1>4 DEF ts, i

\* ... which stays with the pool, or comes into it.
LEMMA HearingKeepsRight ==
  ASSUME NEW w, NEW c, NEW p, Right(w, c, p), NEW t \in Tx, NEW u, Heard(w, u, t, none)
  PROVE  Right(u, c, p)
<1>1. HeardAll(w, u, <<t>>, 1, none)
  BY HeardOne DEF Right
<1>2. CreditsFree(u, c, p)
  BY <1>1, CreditsStayFree DEF Right
<1>3. RecordsSound(u)
  BY <1>1, RecordsStaySound DEF Right
<1>4. Follows(u, c)
  BY <1>1, FollowsStill DEF Right
<1>5. u \in Wallets /\ PoolHeard(u, p)
  BY DEF Right, Heard, PoolHeard
<1> QED  BY <1>2, <1>3, <1>4, <1>5 DEF Right

LEMMA AcceptanceKeepsRight ==
  ASSUME NEW w, NEW c, NEW p, Right(w, c, p), NEW t \in Tx, Acceptable(c, p, t),
         NEW u, Heard(w, u, t, none)
  PROVE  Right(u, c, AddUnchecked(p, t))
<1> DEFINE q == AddUnchecked(p, t)
<1>1. HeardAll(w, u, <<t>>, 1, none)
  BY HeardOne DEF Right
<1>2. q.mapTx = p.mapTx \cup {t} /\ DOMAIN q.mapNextTx = DOMAIN p.mapNextTx \cup Inputs[t]
  BY DEF AddUnchecked
<1>3. 1 \in 1 .. 1 /\ <<t>>[1] = t
  OBVIOUS
<1> HIDE DEF q
<1>4. Spent(c, q) \subseteq Spent(c, p) \cup UNION {Inputs[<<t>>[j]] : j \in 1 .. 1}
  BY <1>2, <1>3 DEF Spent
<1>5. CreditsFree(u, c, q)
  BY <1>1, <1>4, CreditsStayFree DEF Right
<1>6. Right(u, c, p)
  BY HearingKeepsRight
<1>7. ASSUME Concerned(t) PROVE t \in DOMAIN u
  <2>1. ASSUME NEW o \in Inputs[t], o \in Mine PROVE o[1] \in DOMAIN w
    <3>1. Concerned(o[1])
      BY <2>1 DEF Concerned, OutputsOf
    <3>2. o[1] \in p.mapTx \/ o[1] \in Confirmed(c)
      BY DEF Acceptable, Fits, Available, Unspent
    <3> QED  BY <3>1, <3>2 DEF Right, PoolHeard, Follows
  <2>2. ConcernsMe(w, t)
    BY <1>7, <2>1 DEF Concerned, ConcernsMe, IsFromMe
  <2> QED  BY <2>2 DEF Heard
<1>8. PoolHeard(u, q)
  BY <1>2, <1>6, <1>7 DEF Right, PoolHeard
<1> QED  BY <1>5, <1>6, <1>8 DEF Right, q

\* What the pool spends.
LEMMA PoolSpends ==
  ASSUME NEW c, NEW p, Minable(c, p)
  PROVE  DOMAIN p.mapNextTx = UNION {Inputs[t] : t \in p.mapTx}
BY DEF Minable, Sound, Exact

\* A transaction the wallet knows of that spends a coin of the wallet counts, if
\* the coin is spent.
LEMMA SpentIsSeen ==
  ASSUME NEW c, ChainValid(c), NEW p, Minable(c, p), NEW w, Right(w, c, p),
         NEW o \in Mine, o \in Spent(c, p)
  PROVE  IsSpent(c, p, w, o)
<1>1. PICK s : o \in Inputs[s] /\ (s \in p.mapTx \/ s \in Mined(c))
  BY PoolSpends DEF Spent
<1>2. Concerned(s)
  BY <1>1 DEF Concerned
<1>3. s \in DOMAIN w
  BY <1>1, <1>2 DEF Right, PoolHeard, Follows, Confirmed
<1>4. c \in Chains /\ Len(c) \in Nat
  BY DEF ChainValid, Chains
<1>5. ASSUME InMainChain(c, w, s) PROVE Depth(c, p, w, s) >= 0
  <2>1. w[s].hashBlock \in Chains /\ Len(w[s].hashBlock) <= Len(c)
    BY <1>3, <1>5, WalletsIs DEF InMainChain, IsPrefix, Right, Records
  <2>2. Len(w[s].hashBlock) \in Nat
    BY <2>1 DEF Chains
  <2> QED  BY <1>4, <1>5, <2>1, <2>2 DEF Depth
<1>6. CASE s \in p.mapTx
  BY <1>1, <1>3, <1>5, <1>6 DEF IsSpent, Depth
<1>7. CASE s \in Mined(c)
  <2>1. Height(c, s) \in 1 .. Len(c) /\ s \notin Funding
    BY <1>7, MinedAt
  <2>2. w[s].hashBlock = SubSeq(c, 1, Height(c, s))
    BY <1>2, <1>7, <2>1 DEF Right, Follows, Confirmed, BlockIn
  <2>3. InMainChain(c, w, s)
    <3> DEFINE b == SubSeq(c, 1, Height(c, s))
    <3>1. b \in Chains /\ Len(b) = Height(c, s) /\ SubSeq(b, 1, Len(b)) = SubSeq(c, 1, Len(b))
      BY <1>4, <2>1 DEF Chains
    <3>2. b # none
      BY <3>1, WalletAssumption DEF Chains
    <3> HIDE DEF b
    <3>3. IsPrefix(b, c)
      BY <2>1, <3>1 DEF IsPrefix
    <3> QED  BY <2>2, <3>2, <3>3 DEF InMainChain, b
  <2> QED  BY <1>1, <1>3, <1>5, <2>3 DEF IsSpent
<1> QED  BY <1>1, <1>6, <1>7
\* A transaction that has a block of the chain is in the chain, there.
LEMMA InMainChainIs ==
  ASSUME NEW c, ChainValid(c), NEW p, NEW w, Right(w, c, p), NEW t \in DOMAIN w, InMainChain(c, w, t)
  PROVE  /\ Depth(c, p, w, t) \in Nat /\ Depth(c, p, w, t) >= 1
         /\ \/ t \in Funding
            \/ /\ t \notin Funding /\ t \in Mined(c) /\ Height(c, t) \in 1 .. Len(c)
               /\ Depth(c, p, w, t) = Len(c) - Height(c, t) + 1
<1> DEFINE b == w[t].hashBlock
<1>1. c \in Chains /\ Len(c) \in Nat
  BY DEF ChainValid, Chains
<1>2. b \in Chains /\ Len(b) \in Nat /\ Len(b) <= Len(c) /\ b = SubSeq(c, 1, Len(b)) /\ b # none
  <2>1. b \in Chains /\ b # none /\ IsPrefix(b, c)
    BY WalletsIs DEF InMainChain, Right, Records
  <2> HIDE DEF b
  <2>2. Len(b) \in Nat /\ SubSeq(b, 1, Len(b)) = b
    BY <2>1 DEF Chains
  <2> QED  BY <2>1, <2>2 DEF IsPrefix
<1>3. Depth(c, p, w, t) = Len(c) - Len(b) + 1
  BY DEF Depth
<1>4. InBlock(t, b)
  BY DEF Right, RecordsSound
<1> HIDE DEF b
<1>5. ASSUME t \notin Funding
      PROVE  t \in Mined(c) /\ Height(c, t) = Len(b) /\ Len(b) \in 1 .. Len(c)
  <2>1. b # <<>> /\ t \in Range(Last(b))
    BY <1>2, <1>4, <1>5 DEF InBlock
  <2>2. Len(b) \in 1 .. Len(c)
    BY <1>2, <2>1 DEF Chains
  <2>3. Last(b) = c[Len(b)]
    BY <1>1, <1>2, <2>2 DEF Last, Chains
  <2> QED  BY <2>1, <2>2, <2>3, HeightIs
<1> QED  BY <1>1, <1>2, <1>3, <1>5

\* One that is of the chain has it.
LEMMA ConfirmedIsSeen ==
  ASSUME NEW c, ChainValid(c), NEW p, NEW w, Right(w, c, p), NEW t \in Confirmed(c), Concerned(t)
  PROVE  t \in DOMAIN w /\ InMainChain(c, w, t)
<1>1. c \in Chains /\ Len(c) \in Nat
  BY DEF ChainValid, Chains
<1>2. t \in DOMAIN w /\ w[t].hashBlock = BlockIn(c, t)
  BY DEF Right, Follows
<1>3. none \notin Chains
  BY WalletAssumption DEF Chains
<1>4. PICK n \in 0 .. Len(c) : BlockIn(c, t) = SubSeq(c, 1, n)
  <2>1. CASE t \in Funding
    <3>1. <<>> = SubSeq(c, 1, 0)
      BY <1>1 DEF Chains
    <3> QED  BY <1>1, <2>1, <3>1 DEF BlockIn
  <2>2. CASE t \notin Funding
    <3>1. Height(c, t) \in 1 .. Len(c)
      BY <2>2, MinedAt DEF Confirmed
    <3> QED  BY <1>1, <2>2, <3>1 DEF BlockIn
  <2> QED  BY <2>1, <2>2
<1> DEFINE b == SubSeq(c, 1, n)
<1>5. b \in Chains /\ Len(b) = n /\ SubSeq(b, 1, n) = SubSeq(c, 1, n)
  BY <1>1 DEF Chains
<1> HIDE DEF b
<1>6. b # none /\ IsPrefix(b, c)
  BY <1>1, <1>3, <1>5 DEF IsPrefix
<1> QED  BY <1>2, <1>4, <1>6 DEF InMainChain, b

\* A wallet that is right offers nothing but coins that can be spent ...
LEMMA OffersSound ==
  ASSUME NEW c, ChainValid(c), NEW p, Minable(c, p), NEW w, Right(w, c, p),
         NEW o \in AvailableCoins(c, p, w)
  PROVE  Available(c, p, o) /\ o \notin DOMAIN p.mapNextTx
<1> DEFINE t == o[1]
<1>1. /\ o \in Mine /\ t \in DOMAIN w /\ ~IsSpent(c, p, w, o)
      /\ IsTrusted(c, p, w, t) /\ Ripe(c, p, w, t)
  BY DEF AvailableCoins
<1>2. o \notin Spent(c, p)
  BY <1>1, SpentIsSeen
<1> HIDE DEF t
<1>3. CASE InMainChain(c, w, t)
  <2>1. /\ Depth(c, p, w, t) \in Nat
        /\ \/ t \in Funding
           \/ /\ t \notin Funding /\ t \in Mined(c) /\ Height(c, t) \in 1 .. Len(c)
              /\ Depth(c, p, w, t) = Len(c) - Height(c, t) + 1
    BY <1>1, <1>3, InMainChainIs
  <2>2. Unspent(c, o)
    BY <1>2, <2>1 DEF Unspent, Confirmed, Spent, t
  <2>3. Len(c) \in Nat /\ Maturity \in Nat
    BY MempoolAssumption DEF ChainValid, Chains
  <2>4. Mature(c, o)
    BY <1>1, <2>1, <2>3, MempoolAssumption DEF Mature, Ripe, t
  <2> QED  BY <1>2, <2>2, <2>4 DEF Available, Spent
<1>4. CASE ~InMainChain(c, w, t)
  <2>1. t \in p.mapTx
    BY <1>1, <1>4 DEF IsTrusted, Depth
  <2> QED  BY <1>2, <2>1 DEF Available, Spent, t
<1> QED  BY <1>3, <1>4

\* ... and every coin of its that is in the chain, ripe and not spent.
LEMMA OffersComplete ==
  ASSUME NEW c, ChainValid(c), NEW p, Minable(c, p), NEW w, Right(w, c, p),
         NEW o \in Mine, o \notin DOMAIN p.mapNextTx, Unspent(c, o),
         o[1] \in Generated => Len(c) - Height(c, o[1]) >= Maturity
  PROVE  o \in AvailableCoins(c, p, w)
<1> DEFINE t == o[1]
<1>1. t \in Confirmed(c) /\ Concerned(t)
  BY DEF Unspent, Concerned, OutputsOf
<1>2. t \in DOMAIN w /\ InMainChain(c, w, t)
  BY <1>1, ConfirmedIsSeen
<1>3. /\ Depth(c, p, w, t) \in Nat /\ Depth(c, p, w, t) >= 1
      /\ \/ t \in Funding
         \/ /\ t \notin Funding /\ t \in Mined(c) /\ Height(c, t) \in 1 .. Len(c)
            /\ Depth(c, p, w, t) = Len(c) - Height(c, t) + 1
  BY <1>2, InMainChainIs
<1>4. Ripe(c, p, w, t)
  <2>1. Len(c) \in Nat /\ Maturity \in Nat
    BY MempoolAssumption DEF ChainValid, Chains
  <2> QED  BY <1>3, <2>1, MempoolAssumption DEF Ripe
<1>5. IsTrusted(c, p, w, t)
  BY <1>3 DEF IsTrusted
<1>6. ASSUME NEW s \in DOMAIN w, o \in Inputs[s], Depth(c, p, w, s) >= 0 PROVE FALSE
  <2>1. s \in Tx
    BY WalletsIs DEF Right
  <2>2. CASE InMainChain(c, w, s)
    <3>1. s \in Funding \/ s \in Mined(c)
      BY <2>2, InMainChainIs
    <3> QED  BY <1>6, <2>1, <3>1, MempoolAssumption DEF Unspent
  <2>3. CASE ~InMainChain(c, w, s)
    <3>1. s \in p.mapTx
      BY <1>6, <2>3 DEF Depth
    <3> QED  BY <1>6, <3>1, PoolSpends
  <2> QED  BY <2>2, <2>3
<1>7. ~IsSpent(c, p, w, o)
  BY <1>6 DEF IsSpent
<1> QED  BY <1>2, <1>4, <1>5, <1>7 DEF AvailableCoins

\* GetBalance caches what is right.
LEMMA BalanceKeepsRight ==
  ASSUME PoolInv, Right(mapWallet, chain, pool), GetBalance
  PROVE  Right(mapWallet', chain, pool) /\ \A l : Follows(mapWallet, l) => Follows(mapWallet', l)
<1> DEFINE w == mapWallet
           u == mapWallet'
           free(t) == {o \in OutputsOf(t) : ~IsSpent(chain, pool, w, o)}
           asked(t) == /\ w[t].cache = none
                       /\ IsTrusted(chain, pool, w, t)
                       /\ t \in Coinbases => Ripe(chain, pool, w, t)
<1>1. u = [t \in DOMAIN w |-> IF asked(t) THEN [w[t] EXCEPT !.cache = free(t)] ELSE w[t]]
  BY DEF GetBalance
<1>2. \A t : free(t) \subseteq OutputsOf(t) \ Spent(chain, pool) /\ free(t) \subseteq Mine
  BY SpentIsSeen DEF PoolInv, OutputsOf
<1>3. w \in Wallets
  BY DEF Right
<1> HIDE DEF free, asked
<1>4. \A t \in DOMAIN w :
        /\ [w[t] EXCEPT !.cache = free(t)] = [hashBlock |-> w[t].hashBlock, cache |-> free(t)]
        /\ [hashBlock |-> w[t].hashBlock, cache |-> free(t)] \in Records
  BY <1>2, <1>3, WalletsIs DEF Records
<1> HIDE DEF u
<1>5. /\ u = [t \in DOMAIN w |-> u[t]] /\ DOMAIN u = DOMAIN w
      /\ \A t \in DOMAIN w : /\ u[t] \in Records /\ u[t].hashBlock = w[t].hashBlock
                             /\ u[t].cache = free(t) \/ u[t].cache = w[t].cache
  BY <1>1, <1>3, <1>4, WalletsIs
<1>6. u \in Wallets
  BY <1>3, <1>5, WalletsIs, WalletsType
<1>7. CreditsFree(u, chain, pool)
  BY <1>2, <1>5 DEF Right, CreditsFree
<1>8. RecordsSound(u) /\ PoolHeard(u, pool)
  BY <1>5 DEF Right, RecordsSound, PoolHeard
<1>9. \A l : Follows(w, l) => Follows(u, l)
  BY <1>5 DEF Follows
<1> QED  BY <1>6, <1>7, <1>8, <1>9 DEF Right, u
-----------------------------------------------------------------------------
(***************************************************************************)
(* The invariant of the wallet.                                            *)
(***************************************************************************)
\* What is on disk: coins of a part of the chain, and the locator of a chain.
DiskInv ==
  /\ \E n \in 0 .. Len(chain) : saved = SubSeq(chain, 1, n)
  /\ ChainValid(locator)

WalletInv == PoolInv /\ Right(mapWallet, chain, pool) /\ DiskInv

\* A locator above the tip is one of blocks the wallet has heard of and that no
\* others took the place of.
LocatorHeard == IsPrefix(chain, locator) => Follows(mapWallet, locator)

\* A chain that begins with another one.
LEMMA PrefixIs ==
  ASSUME NEW a \in Chains, NEW c \in Chains, IsPrefix(a, c)
  PROVE  Len(a) \in 0 .. Len(c) /\ a = SubSeq(c, 1, Len(a))
<1>1. Len(a) \in Nat /\ Len(c) \in Nat /\ SubSeq(a, 1, Len(a)) = a
  BY DEF Chains
<1> QED  BY <1>1 DEF IsPrefix

\* The transactions of the pool that a block contradicts can be listed.
LEMMA ListIs ==
  ASSUME NEW S \in SUBSET Tx
  PROVE  SetToSeq(S) \in Seq(Tx)
<1>1. IsFiniteSet(Tx)
  <2>1. HashOrder \in Seq(Tx) /\ Range(HashOrder) = Tx
    BY WalletAssumption
  <2>2. Len(HashOrder) \in Nat /\ HashOrder \in [1 .. Len(HashOrder) -> Tx]
    BY <2>1
  <2>3. \A t \in Tx : \E i \in 1 .. Len(HashOrder) : HashOrder[i] = t
    BY <2>1, <2>2 DEF Range
  <2>4. HashOrder \in Surjection(1 .. Len(HashOrder), Tx)
    BY <2>2, <2>3 DEF Surjection
  <2> QED  BY <2>2, <2>4, FS_NatSurjection DEF ExistsSurjection
<1>2. IsFiniteSet(S)
  BY <1>1, FS_Subset
<1>3. Cardinality(S) \in Nat /\ ExistsBijection(1 .. Cardinality(S), S)
  BY <1>2, FS_CardinalityType
<1>4. \E f \in [1 .. Cardinality(S) -> S] : IsInjective(f)
  BY <1>3 DEF ExistsBijection, Bijection, Injection
<1>5. SetToSeq(S) \in [1 .. Cardinality(S) -> S]
  BY <1>4 DEF SetToSeq
<1> QED  BY <1>3, <1>5

\* A wallet that hears once more of a block still follows what is above it.
LEMMA FollowsAbove ==
  ASSUME NEW l, ChainValid(l), NEW i \in 1 .. Len(l), NEW w, Follows(w, l),
         NEW u, HeardAll(w, u, l[i], Len(l[i]), SubSeq(l, 1, i))
  PROVE  Follows(u, l)
<1>1. SubSeq(l, 1, i) # none /\ l[i] \in Seq(Tx)
  BY BlockAt, WalletAssumption DEF Chains
<1>2. ASSUME NEW t \in Confirmed(l), Concerned(t)
      PROVE  t \in DOMAIN u /\ u[t].hashBlock = BlockIn(l, t)
  <2>1. t \in DOMAIN w /\ w[t].hashBlock = BlockIn(l, t)
    BY <1>2 DEF Follows
  <2>2. t \in DOMAIN u
    BY <2>1 DEF HeardAll
  <2>3. CASE \E j \in 1 .. Len(l[i]) : t = l[i][j]
    <3>1. PICK j \in 1 .. Len(l[i]) : t = l[i][j]
      BY <2>3
    <3>2. u[t].hashBlock = SubSeq(l, 1, i)
      BY <1>1, <2>2, <3>1 DEF HeardAll
    <3>3. t \in Range(l[i])
      BY <1>1, <3>1 DEF Range
    <3>4. Height(l, t) = i /\ t \notin Funding
      BY <3>3, HeightIs
    <3> QED  BY <2>2, <3>2, <3>4 DEF BlockIn
  <2>4. CASE ~\E j \in 1 .. Len(l[i]) : t = l[i][j]
    BY <2>1, <2>2, <2>4 DEF HeardAll
  <2> QED  BY <2>3, <2>4
<1> QED  BY <1>2 DEF Follows

\* A block is connected: those that it throws out of the pool, and then those of
\* the block, one after the other.
LEMMA ConnectRight ==
  ASSUME NEW c, ChainValid(c), NEW p, Minable(c, p), NEW w, Right(w, c, p),
         NEW vtx \in Seq(Tx), ValidBlock(c, vtx), NEW q, q = RemoveForBlock(p, vtx),
         NEW ts \in Seq(Tx), NEW u, u = SyncAll(SyncAll(w, ts, none), vtx, Append(c, vtx))
  PROVE  /\ Right(u, Append(c, vtx), q)
         /\ \A l : ChainValid(l) /\ IsPrefix(Append(c, vtx), l) /\ Follows(w, l) => Follows(u, l)
<1> DEFINE a == Append(c, vtx)
           v == SyncAll(w, ts, none)
<1>1. /\ ChainValid(a) /\ a \in Chains /\ a # <<>> /\ c \in Chains
      /\ \A j \in 1 .. Len(vtx) : vtx[j] \in Range(Last(a)) \ Funding
  BY BlockOnTop DEF ChainValid
<1>2. Len(c) \in Nat /\ Len(a) = Len(c) + 1 /\ a[Len(a)] = vtx /\ Mined(a) = Mined(c) \cup Range(vtx)
  BY <1>1, MinedAppend DEF Chains
<1>3. HeardAll(w, v, ts, Len(ts), none)
  BY SyncAllHeard DEF Right
<1> HIDE DEF v
<1>4. v \in Wallets /\ RecordsSound(v) /\ Follows(v, c) /\ CreditsFree(v, c, p)
  <2>1. v \in Wallets
    BY <1>3 DEF HeardAll
  <2>2. RecordsSound(v)
    BY <1>3, RecordsStaySound DEF Right
  <2>3. Follows(v, c)
    BY <1>3, FollowsStill DEF Right
  <2>4. CreditsFree(v, c, p)
    <3>1. Spent(c, p) \subseteq Spent(c, p) \cup UNION {Inputs[ts[j]] : j \in 1 .. Len(ts)}
      OBVIOUS
    <3> QED  BY <1>3, <3>1, CreditsStayFree DEF Right
  <2> QED  BY <2>1, <2>2, <2>3, <2>4
<1> HIDE DEF a
<1>5. HeardAll(v, u, vtx, Len(vtx), a)
  BY <1>1, <1>4, SyncAllHeard DEF a, v
<1>6. Follows(u, a)
  BY <1>4, <1>5, FollowsBlock DEF a
<1>7. RecordsSound(u)
  BY <1>1, <1>4, <1>5, RecordsStaySound
<1>8. Sound(q) /\ q.mapTx \subseteq p.mapTx
  BY RemoveForBlockReduces DEF Reduced
<1>9. CreditsFree(u, a, q)
  <2>1. DOMAIN q.mapNextTx \subseteq DOMAIN p.mapNextTx
    BY <1>8, PoolSpends DEF Sound, Exact
  <2>2. \A s \in Range(vtx) : \E j \in 1 .. Len(vtx) : s = vtx[j]
    BY DEF Range
  <2>3. Spent(a, q) \subseteq Spent(c, p) \cup UNION {Inputs[vtx[j]] : j \in 1 .. Len(vtx)}
    BY <1>2, <2>1, <2>2 DEF Spent
  <2> QED  BY <1>4, <1>5, <2>3, CreditsStayFree
<1>10. u \in Wallets /\ PoolHeard(u, q)
  <2>1. DOMAIN w \subseteq DOMAIN v /\ DOMAIN v \subseteq DOMAIN u /\ u \in Wallets
    BY <1>3, <1>5 DEF HeardAll
  <2> QED  BY <1>8, <2>1 DEF Right, PoolHeard
<1>11. ASSUME NEW l, ChainValid(l), IsPrefix(a, l), Follows(w, l) PROVE Follows(u, l)
  <2>1. l \in Chains
    BY <1>11 DEF ChainValid
  <2>2. Len(a) \in 0 .. Len(l) /\ a = SubSeq(l, 1, Len(a))
    BY <1>1, <1>11, <2>1, PrefixIs
  <2>3. Len(a) \in 1 .. Len(l)
    BY <1>2, <2>2
  <2>4. l[Len(a)] = vtx
    BY <1>2, <2>1, <2>2, <2>3 DEF Chains
  <2>5. Follows(v, l)
    BY <1>3, <1>11, FollowsStill
  <2>6. HeardAll(v, u, l[Len(a)], Len(l[Len(a)]), SubSeq(l, 1, Len(a)))
    BY <1>5, <2>2, <2>4
  <2> QED  BY <1>11, <2>3, <2>5, <2>6, FollowsAbove
<1> QED  BY <1>6, <1>7, <1>9, <1>10, <1>11 DEF Right, a

LEMMA ConnectStep ==
  ASSUME WalletInv, NEW vtx \in Blocks, Connect(vtx)
  PROVE  WalletInv' /\ (LocatorHeard => LocatorHeard')
<1> DEFINE a == Append(chain, vtx)
           ts == SetToSeq(pool.mapTx \ (pool'.mapTx \cup Range(vtx)))
<1>1. ConnectTip(vtx) /\ chain' = a /\ pool' = RemoveForBlock(pool, vtx) /\ ValidBlock(chain, vtx)
  BY DEF Connect, ConnectTip, ConnectChecked
<1>2. PoolInv'
  BY <1>1, BlocksType, ConnectTipKeeps DEF WalletInv, ConnectTip
<1>3. vtx \in Seq(Tx)
  BY BlocksType
<1>4. ts \in Seq(Tx)
  <2>1. pool.mapTx \subseteq Tx
    BY DEF WalletInv, PoolInv, Minable, Sound, Ordinary
  <2> QED  BY <2>1, ListIs
<1>5. mapWallet' = SyncAll(SyncAll(mapWallet, ts, none), vtx, a)
  BY <1>1 DEF Connect
<1> HIDE DEF ts
<1>6. /\ Right(mapWallet', a, pool')
      /\ \A l : ChainValid(l) /\ IsPrefix(a, l) /\ Follows(mapWallet, l) => Follows(mapWallet', l)
  BY <1>1, <1>3, <1>4, <1>5, ConnectRight DEF WalletInv, PoolInv
<1>7. /\ chain \in Chains /\ Len(chain) \in Nat /\ a \in Chains /\ Len(a) = Len(chain) + 1
      /\ SubSeq(a, 1, Len(a)) = a /\ \A n \in 0 .. Len(chain) : SubSeq(a, 1, n) = SubSeq(chain, 1, n)
  BY <1>3 DEF WalletInv, PoolInv, ChainValid, Chains
<1>8. \/ saved' = saved /\ locator' = locator
      \/ saved' = a /\ locator' \in {locator, chain}
  BY <1>1 DEF Connect, MayFlush, diskVars
<1> HIDE DEF a
<1>9. DiskInv'
  <2>1. \E n \in 0 .. Len(a) : saved' = SubSeq(a, 1, n)
    <3>1. CASE saved' = saved
      <4>1. PICK n \in 0 .. Len(chain) : saved = SubSeq(chain, 1, n)
        BY DEF WalletInv, DiskInv
      <4> QED  BY <1>7, <3>1, <4>1
    <3>2. CASE saved' = a
      <4>1. Len(a) \in 0 .. Len(a)
        BY <1>7
      <4> QED  BY <1>7, <3>2, <4>1
    <3> QED  BY <1>8, <3>1, <3>2
  <2>2. ChainValid(locator')
    BY <1>8 DEF WalletInv, DiskInv, PoolInv
  <2>3. ChainValid(locator)'
    BY <2>2 DEF ChainValid
  <2> QED  BY <1>1, <2>1, <2>3 DEF DiskInv
<1>10. WalletInv'
  BY <1>1, <1>2, <1>6, <1>9 DEF WalletInv, Right, RecordsSound, Follows, PoolHeard, CreditsFree
<1>11. ASSUME LocatorHeard, IsPrefix(a, locator') PROVE Follows(mapWallet', locator')
  <2>1. locator' = locator
    BY <1>7, <1>8, <1>11 DEF IsPrefix
  <2>2. ChainValid(locator) /\ locator \in Chains
    BY DEF WalletInv, DiskInv, ChainValid
  <2>3. Len(a) \in 0 .. Len(locator) /\ a = SubSeq(locator, 1, Len(a))
    BY <1>7, <1>11, <2>1, <2>2, PrefixIs
  <2>4. SubSeq(chain, 1, Len(chain)) = SubSeq(locator, 1, Len(chain)) /\ Len(chain) <= Len(locator)
    <3>1. \A n \in 0 .. Len(a) : SubSeq(SubSeq(locator, 1, Len(a)), 1, n) = SubSeq(locator, 1, n)
      BY <2>2, <2>3 DEF Chains
    <3>2. Len(chain) \in 0 .. Len(a) /\ SubSeq(a, 1, Len(chain)) = SubSeq(chain, 1, Len(chain))
      BY <1>7
    <3> QED  BY <1>7, <2>3, <3>1, <3>2
  <2>5. Follows(mapWallet, locator)
    BY <1>11, <2>4 DEF LocatorHeard, IsPrefix
  <2> QED  BY <1>6, <1>11, <2>1, <2>2, <2>5
<1>12. LocatorHeard => LocatorHeard'
  BY <1>1, <1>11 DEF LocatorHeard, Follows
<1> QED  BY <1>10, <1>12
\* The tip is disconnected: the wallet hears of its transactions, which are in no
\* block now.
LEMMA DisconnectStep ==
  ASSUME WalletInv, Disconnect
  PROVE  WalletInv' /\ LocatorHeard'
<1> DEFINE c == Front(chain)
           vtx == Last(chain)
           w == mapWallet
           u == SyncAll(w, vtx, none)
<1>1. /\ DisconnectTip /\ chain # <<>> /\ chain' = c /\ mapWallet' = u
      /\ saved' = c /\ locator' = chain
  BY DEF Disconnect, DisconnectTip, DisconnectRefusing, SavedAlways
<1>2. /\ PoolInv' /\ Minable(c, pool')
      /\ \A s \in pool'.mapTx \ pool.mapTx : s \in Range(vtx)
  BY <1>1, DisconnectTipKeeps DEF WalletInv, PoolInv, DisconnectTip
<1>3. /\ ChainValid(chain) /\ chain \in Chains /\ Len(chain) \in Nat
      /\ ChainValid(c) /\ vtx \in Seq(Tx) /\ chain = Append(c, vtx) /\ c \in Chains
      /\ Len(c) = Len(chain) - 1 /\ Len(c) \in Nat
      /\ c = SubSeq(chain, 1, Len(c)) /\ c = SubSeq(c, 1, Len(c))
  <2>1. ChainValid(chain) /\ chain \in Chains /\ Len(chain) \in Nat
    BY DEF WalletInv, PoolInv, ChainValid, Chains
  <2>2. /\ ChainValid(c) /\ vtx \in Seq(Tx) /\ chain = Append(c, vtx)
        /\ Len(c) = Len(chain) - 1 /\ Len(chain) > 0
    BY <1>1, <2>1, ChainShrinks
  <2> HIDE DEF c, vtx
  <2>3. c \in Chains
    BY <2>2 DEF ChainValid
  <2>4. c = SubSeq(c, 1, Len(c)) /\ c = SubSeq(Append(c, vtx), 1, Len(c)) /\ Len(c) \in Nat
    BY <2>2, <2>3 DEF Chains
  <2> QED  BY <2>1, <2>2, <2>3, <2>4
<1> HIDE DEF c, vtx
<1>4. Right(w, chain, pool)
  BY DEF WalletInv
<1>5. HeardAll(w, u, vtx, Len(vtx), none)
  BY <1>3, <1>4, SyncAllHeard DEF Right
<1> HIDE DEF u
<1>6. u \in Wallets /\ DOMAIN w \subseteq DOMAIN u /\ RecordsSound(u)
  <2>1. u \in Wallets /\ DOMAIN w \subseteq DOMAIN u
    BY <1>5 DEF HeardAll
  <2>2. RecordsSound(u)
    BY <1>4, <1>5, RecordsStaySound DEF Right
  <2> QED  BY <2>1, <2>2
<1>7. Follows(u, chain)
  BY <1>4, <1>5, FollowsStill DEF Right
<1>8. Follows(u, c)
  <2>1. Len(c) \in 0 .. Len(chain)
    BY <1>3
  <2>2. Follows(u, SubSeq(chain, 1, Len(c)))
    BY <1>3, <1>7, <2>1, FollowsPrefix
  <2> QED  BY <1>3, <2>2
<1>9. Mined(chain) = Mined(c) \cup Range(vtx)
  BY <1>3, MinedAppend
<1>10. PoolHeard(u, pool')
  <2>1. \A s \in Range(vtx) : Concerned(s) => s \in DOMAIN w
    BY <1>4, <1>9 DEF Right, Follows, Confirmed
  <2> QED  BY <1>2, <1>4, <1>6, <2>1 DEF Right, PoolHeard
<1>11. CreditsFree(u, c, pool')
  <2>1. DOMAIN pool'.mapNextTx = UNION {Inputs[t] : t \in pool'.mapTx}
    BY <1>2, PoolSpends
  <2>2. DOMAIN pool.mapNextTx = UNION {Inputs[t] : t \in pool.mapTx}
    BY PoolSpends DEF WalletInv, PoolInv
  <2>3. Spent(c, pool') \subseteq Spent(chain, pool)
    BY <1>2, <1>9, <2>1, <2>2 DEF Spent
  <2>4. Spent(c, pool') \subseteq Spent(chain, pool) \cup UNION {Inputs[vtx[j]] : j \in 1 .. Len(vtx)}
    BY <2>3
  <2> QED  BY <1>4, <1>5, <2>4, CreditsStayFree DEF Right
<1>12. Right(u, c, pool')
  BY <1>6, <1>8, <1>10, <1>11 DEF Right
<1>13. DiskInv'
  <2>1. Len(c) \in 0 .. Len(c)
    BY <1>3
  <2>2. \E n \in 0 .. Len(c) : saved' = SubSeq(c, 1, n)
    BY <1>1, <1>3, <2>1
  <2>3. ChainValid(locator')
    BY <1>1, <1>3
  <2> QED  BY <1>1, <2>2, <2>3 DEF DiskInv, ChainValid
<1>14. WalletInv'
  BY <1>1, <1>2, <1>12, <1>13 DEF WalletInv, Right, RecordsSound, Follows, PoolHeard, CreditsFree
<1> QED  BY <1>1, <1>7, <1>14 DEF LocatorHeard, Follows

\* What leaves the chain, the pool and the disk alone, or adds to the pool.
LEMMA HeardStep ==
  ASSUME WalletInv, UNCHANGED <<chain, diskVars>>,
         Minable(chain, pool') /\ Right(mapWallet', chain, pool'),
         Follows(mapWallet, locator) => Follows(mapWallet', locator)
  PROVE  WalletInv' /\ (LocatorHeard => LocatorHeard')
<1>1. PoolInv'
  BY DEF WalletInv, PoolInv, Minable, ChainValid
<1>2. Right(mapWallet, chain, pool)'
  BY DEF Right, RecordsSound, Follows, PoolHeard, CreditsFree
<1>3. DiskInv'
  BY DEF WalletInv, DiskInv, diskVars, ChainValid
<1>4. LocatorHeard => LocatorHeard'
  BY DEF LocatorHeard, diskVars, Follows
<1> QED  BY <1>1, <1>2, <1>3, <1>4 DEF WalletInv

\* A transaction comes into the pool.
LEMMA AcceptStep ==
  ASSUME WalletInv, NEW t \in Tx, AcceptToMemoryPool(t)
  PROVE  WalletInv' /\ (LocatorHeard => LocatorHeard')
<1>1. /\ Acceptable(chain, pool, t) /\ pool' = AddUnchecked(pool, t)
      /\ mapWallet' = SyncTransaction(mapWallet, t, none)
      /\ UNCHANGED <<chain, diskVars>>
  BY DEF AcceptToMemoryPool, Submit
<1>2. PoolInv /\ Right(mapWallet, chain, pool)
  BY DEF WalletInv
<1>3. Heard(mapWallet, mapWallet', t, none)
  BY <1>1, <1>2, SyncHeard DEF Right
<1>4. Minable(chain, pool')
  BY <1>1, <1>2, AcceptMinable DEF PoolInv, Acceptable
<1>5. Right(mapWallet', chain, pool')
  BY <1>1, <1>2, <1>3, AcceptanceKeepsRight
<1>6. Follows(mapWallet, locator) => Follows(mapWallet', locator)
  BY <1>2, <1>3, HeardOne, FollowsStill DEF Right
<1> QED  BY <1>1, <1>4, <1>5, <1>6, HeardStep

\* A transaction of the wallet is recorded, whether the pool takes it or not.
LEMMA RecordedHeard ==
  ASSUME NEW w \in Wallets, NEW t \in Tx
  PROVE  Heard(w, MarkDirty(AddToWallet(w, t, none), Parents(t)), t, none)
<1> DEFINE a == AddToWallet(w, t, none)
           u == MarkDirty(a, Parents(t))
<1>1. /\ a \in Wallets /\ DOMAIN a = DOMAIN w \cup {t}
      /\ \A x \in DOMAIN w : x # t => a[x] = w[x]
      /\ a[t].cache = none
      /\ a[t].hashBlock = IF t \in DOMAIN w THEN w[t].hashBlock ELSE none
  <2> DEFINE block == none
  <2>1. block \in Chains \cup {none}
    OBVIOUS
  <2> HIDE DEF block
  <2>2. LET b == AddToWallet(w, t, block) IN
        /\ b \in Wallets /\ DOMAIN b = DOMAIN w \cup {t}
        /\ \A x \in DOMAIN w : x # t => b[x] = w[x]
        /\ b[t].cache = none
        /\ b[t].hashBlock = IF block = none /\ t \in DOMAIN w THEN w[t].hashBlock ELSE block
    BY <2>1, AddToWalletIs
  <2> QED  BY <2>2 DEF block
<1> HIDE DEF a
<1>2. /\ u \in Wallets /\ DOMAIN u = DOMAIN a
      /\ \A x \in DOMAIN a : /\ u[x].hashBlock = a[x].hashBlock
                             /\ u[x].cache = IF x \in Parents(t) THEN none ELSE a[x].cache
  BY <1>1, MarkDirtyIs
<1> HIDE DEF u
<1>3. Heard(w, u, t, none)
  BY <1>1, <1>2 DEF Heard
<1> QED  BY <1>3 DEF u, a

LEMMA CommitStep ==
  ASSUME WalletInv, prepared \in Tx \cup {none}, CommitTransaction
  PROVE  WalletInv' /\ (LocatorHeard => LocatorHeard')
<1> DEFINE t == prepared
           w == mapWallet
           r == MarkDirty(AddToWallet(w, t, none), Parents(t))
<1>1. /\ t \in Tx /\ UNCHANGED <<chain, diskVars>>
      /\ \/ /\ Acceptable(chain, pool, t) /\ pool' = AddUnchecked(pool, t)
            /\ mapWallet' = SyncTransaction(r, t, none)
         \/ pool' = pool /\ mapWallet' = r
  BY DEF CommitTransaction, Submit, vars, poolVars
<1>2. PoolInv /\ Right(w, chain, pool)
  BY DEF WalletInv
<1>3. Heard(w, r, t, none)
  BY <1>1, <1>2, RecordedHeard DEF Right
<1> HIDE DEF r, t
<1>4. Right(r, chain, pool) /\ (Follows(w, locator) => Follows(r, locator))
  BY <1>1, <1>2, <1>3, HearingKeepsRight, HeardOne, FollowsStill DEF Right
<1>5. CASE /\ Acceptable(chain, pool, t) /\ pool' = AddUnchecked(pool, t)
           /\ mapWallet' = SyncTransaction(r, t, none)
  <2>1. Heard(r, mapWallet', t, none)
    BY <1>1, <1>4, <1>5, SyncHeard DEF Right
  <2>2. Minable(chain, pool') /\ Right(mapWallet', chain, pool')
    BY <1>1, <1>2, <1>4, <1>5, <2>1, AcceptMinable, AcceptanceKeepsRight DEF PoolInv, Acceptable
  <2>3. Follows(w, locator) => Follows(mapWallet', locator)
    BY <1>1, <1>4, <2>1, HeardOne, FollowsStill DEF Right
  <2> QED  BY <1>1, <2>2, <2>3, HeardStep
<1>6. CASE pool' = pool /\ mapWallet' = r
  BY <1>1, <1>2, <1>4, <1>6, HeardStep DEF PoolInv
<1> QED  BY <1>1, <1>5, <1>6

\* ReacceptWalletTransactions: one transaction after the other is tried.
LEMMA ReacceptKeeps ==
  ASSUME WalletInv
  PROVE  LET after == Reaccepted(pool, mapWallet) IN
         /\ Minable(chain, after.pool) /\ Right(after.wallet, chain, after.pool)
         /\ Follows(mapWallet, locator) => Follows(after.wallet, locator)
<1> DEFINE Kept(s) == /\ Minable(chain, s.pool) /\ Right(s.wallet, chain, s.pool)
                      /\ Follows(mapWallet, locator) => Follows(s.wallet, locator)
           D == {s \in [pool : Pools, wallet : Wallets] : Kept(s)}
           F == [e \in D \X Tx |-> Reaccept(e[1], e[2])]
           first == [pool |-> pool, wallet |-> mapWallet]
           Tried(f) == f = [i \in 0 .. Len(HashOrder) |->
                              IF i = 0 THEN first ELSE Reaccept(f[i - 1], HashOrder[i])]
           h == CHOOSE f : Tried(f)
<1>1. first \in D
  BY DEF WalletInv, PoolInv, Minable, Sound, Right
<1>2. ASSUME NEW s \in D, NEW t \in Tx PROVE Reaccept(s, t) \in D
  <2>1. CASE Reaccept(s, t) = s
    BY <2>1
  <2>2. CASE /\ Acceptable(chain, s.pool, t)
             /\ Reaccept(s, t) = [pool |-> AddUnchecked(s.pool, t),
                                  wallet |-> SyncTransaction(s.wallet, t, none)]
    <3> DEFINE p == s.pool
               w == s.wallet
               q == AddUnchecked(p, t)
               u == SyncTransaction(w, t, none)
    <3>1. /\ w \in Wallets /\ Minable(chain, p) /\ Right(w, chain, p)
          /\ Follows(mapWallet, locator) => Follows(w, locator)
      OBVIOUS
    <3>2. Heard(w, u, t, none)
      BY <3>1, SyncHeard
    <3> HIDE DEF u, p, w
    <3>3. Minable(chain, q)
      BY <2>2, <3>1, AcceptMinable DEF WalletInv, PoolInv, Acceptable, p
    <3>4. Right(u, chain, q)
      BY <2>2, <3>1, <3>2, AcceptanceKeepsRight DEF p
    <3>5. Follows(mapWallet, locator) => Follows(u, locator)
      BY <3>1, <3>2, HeardOne, FollowsStill
    <3> HIDE DEF q
    <3>6. q \in Pools /\ u \in Wallets
      BY <3>3, <3>4 DEF Minable, Sound, Right
    <3>7. [pool |-> q, wallet |-> u] \in D
      BY <3>3, <3>4, <3>5, <3>6
    <3> QED  BY <2>2, <3>7 DEF q, p, u, w
  <2> QED  BY <2>1, <2>2 DEF Reaccept
<1> HIDE DEF D
<1>3. HashOrder \in Seq(Tx)
  BY WalletAssumption
<1>4. F \in [D \X Tx -> D]
  BY <1>2
<1>5. PICK g : IsResults(g, D, F, first, HashOrder)
  <2> HIDE DEF F, first
  <2> QED  BY <1>1, <1>3, <1>4, ResultsExist
<1>6. g \in [0 .. Len(HashOrder) -> D] /\ g[0] = first /\ \A i \in 1 .. Len(HashOrder) : g[i] = F[<<g[i - 1], HashOrder[i]>>]
  <2> HIDE DEF F, first
  <2> QED  BY <1>5 DEF IsResults
<1>7. \A i \in 1 .. Len(HashOrder) : g[i] = Reaccept(g[i - 1], HashOrder[i])
  <2>1. SUFFICES ASSUME NEW i \in 1 .. Len(HashOrder) PROVE g[i] = Reaccept(g[i - 1], HashOrder[i])
    OBVIOUS
  <2>2. g[i - 1] \in D /\ HashOrder[i] \in Tx
    BY <1>3, <1>6
  <2> QED  BY <1>6, <2>2
<1> HIDE DEF F, first
<1>8. Tried(g)
  BY <1>6, <1>7
<1>9. Tried(h)
  <2> HIDE DEF Tried
  <2> QED  BY <1>8
<1>10. Reaccepted(pool, mapWallet) = h[Len(HashOrder)]
  BY DEF Reaccepted, first
<1> DEFINE Bad == {i \in 0 .. Len(HashOrder) : h[i] \notin D}
<1>11. h[0] = first /\ \A i \in 1 .. Len(HashOrder) : h[i] = Reaccept(h[i - 1], HashOrder[i])
  <2> HIDE DEF h
  <2> QED  BY <1>9
<1> HIDE DEF h, Tried
<1>12. ASSUME Bad # {} PROVE FALSE
  <2>1. PICK i \in Bad : \A m \in Bad : i <= m
    <3>1. Bad \in SUBSET Nat  OBVIOUS
    <3> HIDE DEF Bad
    <3> QED  BY <1>12, <3>1, SmallestNumber
  <2>2. i # 0
    BY <1>1, <1>11, <2>1
  <2>3. i \in 1 .. Len(HashOrder) /\ i - 1 \in 0 .. Len(HashOrder) /\ ~(i <= i - 1)
    BY <2>1, <2>2
  <2>4. h[i - 1] \in D /\ HashOrder[i] \in Tx
    BY <1>3, <2>1, <2>3
  <2> QED  BY <1>2, <1>11, <2>1, <2>3, <2>4
<1>13. Len(HashOrder) \in 0 .. Len(HashOrder)
  BY <1>3
<1>14. h[Len(HashOrder)] \in D
  BY <1>12, <1>13
<1> QED  BY <1>10, <1>14 DEF D

LEMMA ReacceptStep ==
  ASSUME WalletInv, ReacceptWalletTransactions
  PROVE  WalletInv' /\ (LocatorHeard => LocatorHeard')
<1> DEFINE after == Reaccepted(pool, mapWallet)
<1>1. pool' = after.pool /\ mapWallet' = after.wallet /\ UNCHANGED <<chain, diskVars>>
  BY DEF ReacceptWalletTransactions
<1>2. /\ Minable(chain, after.pool) /\ Right(after.wallet, chain, after.pool)
      /\ Follows(mapWallet, locator) => Follows(after.wallet, locator)
  BY ReacceptKeeps
<1> HIDE DEF after
<1> QED  BY <1>1, <1>2, HeardStep
\* What two chains begin with.
LEMMA ForkIs ==
  ASSUME NEW c \in Chains, NEW l \in Chains
  PROVE  LET fork == LongestCommonPrefix({c, l}) IN
         /\ fork \in Chains /\ Len(fork) \in Nat /\ Len(fork) <= Len(c)
         /\ IsPrefix(fork, c) /\ IsPrefix(fork, l)
<1> DEFINE C == CommonPrefixes({c, l})
           Longest(x) == \A other \in C : Len(other) <= Len(x)
           fork == LongestCommonPrefix({c, l})
<1>1. \A x \in C : x \in Chains /\ Len(x) \in Nat /\ Len(x) <= Len(c) /\ IsPrefix(x, c) /\ IsPrefix(x, l)
  <2>1. ASSUME NEW x \in C PROVE x \in Chains /\ IsPrefix(x, c) /\ IsPrefix(x, l)
    <3>1. x \in Prefixes(c) \/ x \in Prefixes(l)
      BY DEF CommonPrefixes
    <3>2. (\E n \in 0 .. Len(c) : x = SubSeq(c, 1, n)) \/ (\E n \in 0 .. Len(l) : x = SubSeq(l, 1, n))
      BY <3>1 DEF Prefixes
    <3>3. x \in Chains
      BY <3>2, MinedPrefix
    <3> QED  BY <3>3 DEF CommonPrefixes
  <2>2. \A x \in C : Len(x) \in Nat
    BY <2>1 DEF Chains
  <2> QED  BY <2>1, <2>2 DEF IsPrefix
<1>2. \E x : x \in C
  <2> DEFINE e == SubSeq(c, 1, 0)
  <2>1. /\ Len(e) = 0 /\ SubSeq(e, 1, 0) = e /\ SubSeq(l, 1, 0) = e
        /\ Len(c) \in Nat /\ Len(l) \in Nat
    BY DEF Chains
  <2>2. 0 \in 0 .. Len(c)
    BY <2>1
  <2>3. e \in Prefixes(c)
    BY <2>2 DEF Prefixes
  <2> HIDE DEF e
  <2>4. IsPrefix(e, c) /\ IsPrefix(e, l)
    BY <2>1 DEF IsPrefix, e
  <2> QED  BY <2>3, <2>4 DEF CommonPrefixes
<1> HIDE DEF C
<1>3. \E x \in C : Longest(x)
  <2> DEFINE S == {n \in Nat : \E x \in C : n = Len(c) - Len(x)}
  <2>1. Len(c) \in Nat
    BY DEF Chains
  <2>2. S \in SUBSET Nat /\ S # {}
    <3>1. PICK x \in C : TRUE
      BY <1>2
    <3>2. Len(c) - Len(x) \in S
      BY <1>1, <2>1, <3>1
    <3> QED  BY <3>2
  <2>3. PICK n \in S : \A m \in S : n <= m
    <3> HIDE DEF S
    <3> QED  BY <2>2, SmallestNumber
  <2>4. PICK x \in C : n = Len(c) - Len(x)
    BY <2>3
  <2>5. ASSUME NEW y \in C PROVE Len(y) <= Len(x)
    <3>1. Len(c) - Len(y) \in S
      BY <1>1, <2>1
    <3>2. n <= Len(c) - Len(y)
      BY <2>3, <3>1
    <3> QED  BY <1>1, <2>1, <2>4, <3>2
  <2> QED  BY <2>5
<1>4. fork = CHOOSE x \in C : Longest(x)
  BY DEF LongestCommonPrefix, C
<1> HIDE DEF Longest, fork
<1>5. fork \in C
  BY <1>3, <1>4
<1> QED  BY <1>1, <1>5 DEF fork

\* A start makes the wallet right about the chain it finds.
LEMMA StartStep ==
  ASSUME WalletInv, NEW c, ChainValid(c), Len(c) <= MaxHeight, NEW l, ChainValid(l), Start(c, l),
         c # <<>> => Follows(mapWallet, Front(c)),
         IsPrefix(c, l) => Follows(mapWallet, c)
  PROVE  WalletInv'
<1> DEFINE fork == LongestCommonPrefix({c, l})
           loaded == MarkDirty(mapWallet, DOMAIN mapWallet)
           u == mapWallet'
<1>1. /\ chain' = c /\ saved' = c /\ pool' = EmptyPool
      /\ u = IF fork = c THEN loaded ELSE Scan(loaded, c, Len(fork))
      /\ locator' = IF fork = c THEN l ELSE c
  BY DEF Start
<1>2. c \in Chains /\ l \in Chains /\ Len(c) \in Nat /\ SubSeq(c, 1, Len(c)) = c
  BY DEF ChainValid, Chains
<1>3. /\ fork \in Chains /\ Len(fork) \in Nat /\ Len(fork) <= Len(c)
      /\ IsPrefix(fork, c) /\ IsPrefix(fork, l)
  BY <1>2, ForkIs
<1>4. mapWallet \in Wallets /\ RecordsSound(mapWallet)
  BY DEF WalletInv, Right
<1>5. /\ loaded \in Wallets /\ DOMAIN loaded = DOMAIN mapWallet
      /\ \A x \in DOMAIN mapWallet : /\ loaded[x].hashBlock = mapWallet[x].hashBlock
                                     /\ loaded[x].cache = none
  BY <1>4, MarkDirtyIs
<1> HIDE DEF fork, loaded
<1>6. Dirty(loaded) /\ RecordsSound(loaded) /\ \A x : Follows(mapWallet, x) => Follows(loaded, x)
  BY <1>4, <1>5 DEF Dirty, RecordsSound, Follows
<1>7. Scanned(loaded, u, c, Len(c))
  <2>1. CASE fork = c
    <3>1. IsPrefix(c, l)
      BY <1>3, <2>1
    <3>2. u = loaded /\ Follows(loaded, c)
      BY <1>1, <1>6, <2>1, <3>1
    <3> HIDE DEF u
    <3> QED  BY <1>2, <1>5, <1>6, <3>2 DEF Scanned
  <2>2. CASE fork # c
    <3>1. c # <<>>
      <4>1. ASSUME c = <<>> PROVE FALSE
        <5>1. Len(fork) = 0
          BY <1>3, <4>1
        <5>2. fork = <<>>
          BY <1>3, <5>1 DEF Chains
        <5> QED  BY <2>2, <4>1, <5>2
      <4> QED  BY <4>1
    <3>2. Follows(loaded, Front(c))
      BY <1>6, <3>1
    <3>3. u = Scan(loaded, c, Len(fork))
      BY <1>1, <2>2
    <3> HIDE DEF u
    <3> QED  BY <1>3, <1>5, <1>6, <3>1, <3>2, <3>3, ScanFollows
  <2> QED  BY <2>1, <2>2
<1>8. PoolInv'
  <2>1. pool'.mapTx = {} /\ DOMAIN pool'.mapNextTx = {} /\ pool' \in Pools
    <3>1. pool' = [mapTx |-> {}, mapNextTx |-> <<>>]
      BY <1>1 DEF EmptyPool
    <3>2. pool'.mapNextTx \in [{} -> Tx]
      BY <3>1
    <3>3. pool'.mapNextTx \in Spends
      BY <3>2 DEF Spends
    <3> QED  BY <3>1, <3>2, <3>3 DEF Pools
  <2>2. Minable(c, pool')
    BY <2>1 DEF Minable, Sound, Exact
  <2> QED  BY <1>1, <2>2 DEF PoolInv
<1>9. Right(u, c, pool')
  <2> HIDE DEF u
  <2>1. u \in Wallets /\ RecordsSound(u) /\ Follows(u, c) /\ Dirty(u)
    BY <1>2, <1>7 DEF Scanned
  <2>2. PoolHeard(u, pool') /\ CreditsFree(u, c, pool')
    BY <1>1, <2>1 DEF PoolHeard, CreditsFree, Dirty, EmptyPool
  <2> QED  BY <2>1, <2>2 DEF Right
<1>10. DiskInv'
  <2>1. Len(c) \in 0 .. Len(c)
    BY <1>2
  <2>2. \E n \in 0 .. Len(c) : saved' = SubSeq(c, 1, n)
    BY <1>1, <1>2, <2>1
  <2>3. ChainValid(locator')
    BY <1>1
  <2> QED  BY <1>1, <2>2, <2>3 DEF DiskInv, ChainValid
<1> QED  BY <1>1, <1>8, <1>9, <1>10 DEF WalletInv, Right, RecordsSound, Follows, PoolHeard, CreditsFree

\* A crash, but for a Relapse into a block that the wallet has forgotten.
LEMMA CrashStep ==
  ASSUME WalletInv, nCrashes \in Nat, Crash, Relapse => Follows(mapWallet, chain')
  PROVE  WalletInv'
<1>1. /\ ChainValid(chain) /\ chain \in Chains /\ Len(chain) \in Nat /\ Len(chain) <= MaxHeight
      /\ ChainValid(locator) /\ locator \in Chains
      /\ Follows(mapWallet, chain)
  BY DEF WalletInv, PoolInv, DiskInv, Right, ChainValid, Chains
<1>2. ASSUME NEW n \in 0 .. Len(chain), NEW l, ChainValid(l), Start(SubSeq(chain, 1, n), l)
      PROVE  WalletInv'
  <2> DEFINE c == SubSeq(chain, 1, n)
  <2>1. ChainValid(c) /\ Len(c) = n
    BY <1>1, ChainPrefix
  <2>2. Follows(mapWallet, c)
    BY <1>1, FollowsPrefix
  <2>3. Len(c) <= MaxHeight
    BY <1>1, <2>1, MempoolAssumption
  <2> HIDE DEF c
  <2>4. c # <<>> => Follows(mapWallet, Front(c))
    <3>1. Front(c) = SubSeq(c, 1, n - 1) /\ (c # <<>> => n - 1 \in 0 .. Len(c))
      BY <2>1 DEF Front, ChainValid, Chains
    <3> QED  BY <2>1, <2>2, <3>1, FollowsPrefix
  <2>5. Start(c, l)
    BY <1>2 DEF c
  <2> QED  BY <1>2, <2>1, <2>2, <2>3, <2>4, <2>5, StartStep
<1>3. ASSUME Start(saved, locator) PROVE WalletInv'
  <2>1. PICK n \in 0 .. Len(chain) : saved = SubSeq(chain, 1, n)
    BY DEF WalletInv, DiskInv
  <2> QED  BY <1>1, <1>2, <1>3, <2>1
<1>4. ASSUME NEW l \in {locator, chain}, Start(chain, l) PROVE WalletInv'
  <2>1. chain = SubSeq(chain, 1, Len(chain)) /\ Len(chain) \in 0 .. Len(chain) /\ ChainValid(l)
    BY <1>1 DEF Chains
  <2> QED  BY <1>2, <1>4, <2>1
<1>5. ASSUME NEW l \in {locator, chain}, chain # <<>>, Start(Front(chain), l) PROVE WalletInv'
  <2>1. Front(chain) = SubSeq(chain, 1, Len(chain) - 1) /\ Len(chain) - 1 \in 0 .. Len(chain) /\ ChainValid(l)
    BY <1>1, <1>5 DEF Chains, Front
  <2> QED  BY <1>2, <1>5, <2>1
<1>6. ASSUME NEW l \in {locator, chain}, NEW vtx \in Blocks, Len(chain) < MaxHeight,
             ValidBlock(chain, vtx), Start(Append(chain, vtx), l)
      PROVE  WalletInv'
  <2> DEFINE c == Append(chain, vtx)
  <2>1. vtx \in Seq(Tx)
    BY BlocksType
  <2>2. ChainValid(c)
    BY <1>1, <1>6, <2>1, ChainGrows
  <2>3. Len(c) = Len(chain) + 1 /\ Front(c) = chain
    BY <1>1, <2>1 DEF Chains, Front
  <2>4. chain' = c
    BY <1>6 DEF Start
  <2> HIDE DEF c
  <2>5. IsPrefix(c, l) => Follows(mapWallet, c)
    <3>1. ASSUME IsPrefix(c, l) PROVE Relapse
      <4>1. l = locator
        BY <1>1, <2>3, <3>1 DEF IsPrefix
      <4>2. nCrashes' # nCrashes
        BY DEF Crash
      <4> QED  BY <1>1, <2>3, <2>4, <3>1, <4>1, <4>2 DEF Relapse
    <3> QED  BY <2>4, <3>1
  <2>6. Len(c) <= MaxHeight /\ ChainValid(l) /\ Follows(mapWallet, Front(c))
    BY <1>1, <1>6, <2>3, MempoolAssumption
  <2>7. Start(c, l)
    BY <1>6 DEF c
  <2> QED  BY <2>2, <2>5, <2>6, <2>7, StartStep
<1> QED  BY <1>3, <1>4, <1>5, <1>6 DEF Crash
\* Only one relapse is harmless: that of the first crash, into a block the wallet
\* has not forgotten since it heard of it.
LEMMA RelapseHeard ==
  ASSUME WalletInv, Crash, Relapse, LocatorHeard
  PROVE  Follows(mapWallet, chain')
<1>1. /\ chain \in Chains /\ Len(chain) \in Nat /\ ChainValid(locator) /\ locator \in Chains
      /\ \E n \in 0 .. Len(chain) : saved = SubSeq(chain, 1, n)
  BY DEF WalletInv, PoolInv, DiskInv, ChainValid, Chains
<1>2. Len(chain') > Len(chain) /\ IsPrefix(chain', locator)
  BY DEF Relapse
<1>3. PICK vtx \in Blocks : chain' = Append(chain, vtx)
  <2>1. chain' # saved
    <3>1. ASSUME NEW n \in 0 .. Len(chain), chain' = SubSeq(chain, 1, n) PROVE FALSE
      BY <1>1, <1>2, <3>1 DEF Chains
    <3> QED  BY <1>1, <3>1
  <2>2. chain' # chain
    BY <1>1, <1>2
  <2>3. chain # <<>> => chain' # Front(chain)
    <3>1. chain # <<>> => Len(Front(chain)) = Len(chain) - 1
      BY ChainShrinks DEF WalletInv, PoolInv
    <3> QED  BY <1>1, <1>2, <3>1
  <2> QED  BY <2>1, <2>2, <2>3 DEF Crash, Start
<1>4. chain' \in Chains /\ Len(chain') = Len(chain) + 1 /\ SubSeq(chain', 1, Len(chain)) = chain
  BY <1>1, <1>3, BlocksType DEF Chains
<1>5. Len(chain') \in 0 .. Len(locator) /\ chain' = SubSeq(locator, 1, Len(chain'))
  BY <1>1, <1>2, <1>4, PrefixIs
<1>6. Len(chain) <= Len(locator) /\ chain = SubSeq(locator, 1, Len(chain))
  <2>1. \A n \in 0 .. Len(chain') : SubSeq(SubSeq(locator, 1, Len(chain')), 1, n) = SubSeq(locator, 1, n)
    BY <1>1, <1>5 DEF Chains
  <2>2. Len(chain) \in 0 .. Len(chain')
    BY <1>1, <1>4
  <2> QED  BY <1>1, <1>4, <1>5, <2>1, <2>2
<1>7. SubSeq(chain, 1, Len(chain)) = chain
  BY <1>1 DEF Chains
<1>8. IsPrefix(chain, locator)
  BY <1>6, <1>7 DEF IsPrefix
<1>9. Follows(mapWallet, SubSeq(locator, 1, Len(chain')))
  BY <1>1, <1>5, <1>8, FollowsPrefix DEF LocatorHeard
<1> QED  BY <1>5, <1>9

\* It is right when the wallet is new.
LEMMA WalletInvInit ==
  ASSUME WalletInit
  PROVE  WalletInv /\ LocatorHeard
<1> DEFINE S == {t \in Funding : OutputsOf(t) # {}}
           r == [hashBlock |-> <<>>, cache |-> none]
<1>1. /\ Init /\ mapWallet = [t \in S |-> r] /\ locator = <<>> /\ saved = <<>>
      /\ chain = <<>> /\ pool = EmptyPool
  BY DEF WalletInit, Init
<1>2. PoolInv /\ ChainValid(<<>>) /\ <<>> \in Chains
  BY <1>1, PoolInvInit DEF PoolInv, ChainValid
<1>3. r \in Records /\ r.hashBlock = <<>> /\ r.cache = none
  BY <1>2 DEF Records
<1>4. S \in SUBSET Tx
  BY MempoolAssumption
<1> HIDE DEF r
<1>5. /\ mapWallet \in Wallets /\ DOMAIN mapWallet = S
      /\ \A t \in S : mapWallet[t].hashBlock = <<>> /\ mapWallet[t].cache = none
  BY <1>1, <1>3, <1>4, WalletsType
<1>6. RecordsSound(mapWallet)
  BY <1>5 DEF RecordsSound, InBlock
<1>7. Follows(mapWallet, <<>>)
  <2>1. Confirmed(<<>>) = Funding
    BY DEF Confirmed, Mined
  <2>2. \A t \in Funding : Concerned(t) => t \in S
    BY MempoolAssumption DEF Concerned
  <2> QED  BY <1>5, <2>1, <2>2 DEF Follows, BlockIn
<1>8. PoolHeard(mapWallet, pool) /\ CreditsFree(mapWallet, chain, pool)
  BY <1>1, <1>5 DEF PoolHeard, CreditsFree, EmptyPool
<1>9. DiskInv
  <2>1. 0 \in 0 .. Len(<<>>) /\ SubSeq(<<>>, 1, 0) = <<>>
    OBVIOUS
  <2>2. \E n \in 0 .. Len(<<>>) : <<>> = SubSeq(<<>>, 1, n)
    BY <2>1
  <2> QED  BY <1>1, <1>2, <2>2 DEF DiskInv
<1> QED  BY <1>1, <1>2, <1>5, <1>6, <1>7, <1>8, <1>9 DEF WalletInv, Right, LocatorHeard

\* The bounds, and what else the wallet remembers.
CountersInv ==
  /\ prepared \in Tx \cup {none} /\ starting \in BOOLEAN
  /\ nDisconnects \in 0 .. MaxDisconnect /\ nCrashes \in 0 .. MaxCrash

LEMMA CountersStep ==
  ASSUME CountersInv, WalletNext
  PROVE  CountersInv' /\ nCrashes' \in {nCrashes, nCrashes + 1}
<1>1. nDisconnects \in Nat /\ nCrashes \in Nat /\ MaxDisconnect \in Nat /\ MaxCrash \in Nat
  BY WalletAssumption DEF CountersInv
<1>2. ASSUME UNCHANGED <<prepared, starting, counters>>
      PROVE  CountersInv' /\ nCrashes' \in {nCrashes, nCrashes + 1}
  BY <1>2 DEF CountersInv, counters
<1>3. ASSUME NEW t \in Tx, AcceptToMemoryPool(t) PROVE UNCHANGED <<prepared, starting, counters>>
  BY <1>3 DEF AcceptToMemoryPool
<1>4. ASSUME NEW vtx \in Blocks, Connect(vtx) PROVE UNCHANGED <<prepared, starting, counters>>
  BY <1>4 DEF Connect
<1>5. CASE Disconnect
  BY <1>1, <1>5 DEF Disconnect, CountersInv
<1>6. ASSUME FlushStateToDisk \/ GetBalance PROVE UNCHANGED <<prepared, starting, counters>>
  BY <1>6 DEF FlushStateToDisk, GetBalance
<1>7. ASSUME NEW t \in Tx, CreateTransaction(t)
      PROVE  CountersInv' /\ nCrashes' \in {nCrashes, nCrashes + 1}
  BY <1>7 DEF CreateTransaction, CountersInv, counters
<1>8. CASE CommitTransaction
  BY <1>8 DEF CommitTransaction, CountersInv, counters
<1>9. CASE Crash
  <2>1. prepared' = none /\ starting' = TRUE
    BY <1>9 DEF Crash, Start
  <2>2. nCrashes' = nCrashes + 1 /\ nCrashes < MaxCrash /\ nDisconnects' = nDisconnects
    BY <1>9 DEF Crash
  <2> QED  BY <1>1, <2>1, <2>2 DEF CountersInv
<1>10. CASE ReacceptWalletTransactions
  BY <1>10 DEF ReacceptWalletTransactions, CountersInv, counters
<1> QED  BY <1>2, <1>3, <1>4, <1>5, <1>6, <1>7, <1>8, <1>9, <1>10 DEF WalletNext

\* The wallet has crashed before, or it has heard of what its locator names.
HeardUntilCrash == nCrashes = 0 => LocatorHeard

WalletIInv == WalletInv /\ CountersInv /\ HeardUntilCrash

LEMMA WalletStep ==
  ASSUME WalletIInv, FirstCrash, WalletNext
  PROVE  WalletIInv'
<1> USE DEF WalletIInv
<1>1. CountersInv' /\ nCrashes \in Nat /\ nCrashes' \in {nCrashes, nCrashes + 1}
  BY CountersStep, WalletAssumption DEF CountersInv
<1>2. ASSUME WalletInv' /\ (LocatorHeard => LocatorHeard') PROVE WalletIInv'
  <2>1. HeardUntilCrash'
    BY <1>1, <1>2 DEF HeardUntilCrash
  <2> QED  BY <1>1, <1>2, <2>1
<1>3. ASSUME NEW t \in Tx, AcceptToMemoryPool(t) PROVE WalletIInv'
  BY <1>2, <1>3, AcceptStep
<1>4. ASSUME NEW vtx \in Blocks, Connect(vtx) PROVE WalletIInv'
  BY <1>2, <1>4, ConnectStep
<1>5. CASE Disconnect
  BY <1>2, <1>5, DisconnectStep
<1>6. CASE FlushStateToDisk
  <2>1. chain' = chain /\ pool' = pool /\ mapWallet' = mapWallet /\ saved' = chain /\ locator' = chain
    BY <1>6 DEF FlushStateToDisk, vars, poolVars
  <2>2. PoolInv' /\ Right(mapWallet, chain, pool)'
    BY <2>1 DEF WalletInv, PoolInv, Minable, ChainValid, Right, RecordsSound, Follows, PoolHeard,
               CreditsFree
  <2>3. ChainValid(chain) /\ Len(chain) \in 0 .. Len(chain) /\ SubSeq(chain, 1, Len(chain)) = chain
    BY DEF WalletInv, PoolInv, ChainValid, Chains
  <2>4. DiskInv'
    BY <2>1, <2>3 DEF DiskInv, ChainValid
  <2>5. LocatorHeard'
    BY <2>1 DEF WalletInv, Right, LocatorHeard, Follows
  <2> QED  BY <1>2, <2>2, <2>4, <2>5 DEF WalletInv
<1>7. CASE GetBalance
  <2>1. UNCHANGED <<chain, pool, diskVars>>
    BY <1>7 DEF GetBalance, vars, poolVars
  <2>2. /\ Right(mapWallet', chain, pool)
        /\ \A l : Follows(mapWallet, l) => Follows(mapWallet', l)
    BY <1>7, BalanceKeepsRight DEF WalletInv
  <2>3. Minable(chain, pool') /\ Right(mapWallet', chain, pool')
    BY <2>1, <2>2 DEF WalletInv, PoolInv
  <2> QED  BY <1>2, <2>1, <2>2, <2>3, HeardStep
<1>8. ASSUME NEW t \in Tx, CreateTransaction(t) PROVE WalletIInv'
  <2>1. UNCHANGED <<chain, pool, mapWallet, diskVars>>
    BY <1>8 DEF CreateTransaction, vars, poolVars
  <2>2. Minable(chain, pool') /\ Right(mapWallet', chain, pool')
    BY <2>1 DEF WalletInv, PoolInv
  <2>3. Follows(mapWallet, locator) => Follows(mapWallet', locator)
    BY <2>1
  <2> QED  BY <1>2, <2>1, <2>2, <2>3, HeardStep
<1>9. CASE CommitTransaction
  BY <1>2, <1>9, CommitStep DEF CountersInv
<1>10. CASE Crash
  <2>1. Relapse => Follows(mapWallet, chain')
    BY <1>10, RelapseHeard DEF FirstCrash, HeardUntilCrash
  <2>2. WalletInv'
    BY <1>1, <1>10, <2>1, CrashStep
  <2>3. nCrashes' # 0
    BY <1>1, <1>10 DEF Crash
  <2> QED  BY <1>1, <2>2, <2>3 DEF HeardUntilCrash
<1>11. CASE ReacceptWalletTransactions
  BY <1>2, <1>11, ReacceptStep
<1> QED  BY <1>3, <1>4, <1>5, <1>6, <1>7, <1>8, <1>9, <1>10, <1>11 DEF WalletNext

\* It is inductive as long as no crash but the first is a relapse.
THEOREM WalletInvariance == WalletSpec /\ [][FirstCrash]_allWalletVars => []WalletIInv
<1>1. WalletInit => WalletIInv
  <2>1. WalletInit => CountersInv
    <3>1. 0 \in 0 .. MaxDisconnect /\ 0 \in 0 .. MaxCrash
      BY WalletAssumption
    <3> QED  BY <3>1 DEF WalletInit, CountersInv
  <2> QED  BY <2>1, WalletInvInit DEF WalletIInv, HeardUntilCrash
<1>2. WalletIInv /\ [WalletNext]_allWalletVars /\ [FirstCrash]_allWalletVars => WalletIInv'
  <2> SUFFICES ASSUME WalletIInv, [WalletNext]_allWalletVars, [FirstCrash]_allWalletVars PROVE WalletIInv'
    OBVIOUS
  <2>1. CASE WalletNext /\ FirstCrash
    BY <2>1, WalletStep
  <2>2. CASE UNCHANGED allWalletVars
    <3> USE <2>2 DEF allWalletVars, walletVars, diskVars, counters, vars, poolVars, WalletIInv
    <3>1. PoolInv' /\ CountersInv'
      BY DEF WalletInv, PoolInv, Minable, ChainValid, CountersInv
    <3>2. Right(mapWallet, chain, pool)'
      BY DEF WalletInv, Right, RecordsSound, Follows, PoolHeard, CreditsFree
    <3>3. DiskInv'
      BY DEF WalletInv, DiskInv, ChainValid
    <3>4. HeardUntilCrash'
      BY DEF HeardUntilCrash, LocatorHeard, Follows
    <3> QED  BY <3>1, <3>2, <3>3, <3>4 DEF WalletInv
  <2> QED  BY <2>1, <2>2
<1> QED  BY <1>1, <1>2, PTL DEF WalletSpec
\* Every transaction of the active chain that pays the wallet or spends its coins is
\* in mapWallet, with its block, for any number of blocks and crashes, as long as no
\* crash but the first is a relapse.
THEOREM WalletFollows == WalletSpec /\ [][FirstCrash]_allWalletVars => []WalletFollowsChain
<1>1. WalletIInv => WalletFollowsChain
  BY DEF WalletIInv, WalletInv, Right, Follows, WalletFollowsChain, BlockOf, BlockIn, Concerned
<1> QED  BY <1>1, WalletInvariance, PTL

\* What AvailableCoins offers can be spent, and nothing that can be spent is missing,
\* although the wallet asks its own transactions only (wallet.cpp:2531).
THEOREM WalletOffers == WalletSpec /\ [][FirstCrash]_allWalletVars => []OffersExact
<1>1. WalletIInv => OffersExact
  <2> SUFFICES ASSUME WalletIInv PROVE OffersExact
    OBVIOUS
  <2>1. ChainValid(chain) /\ Minable(chain, pool) /\ Right(mapWallet, chain, pool)
    BY DEF WalletIInv, WalletInv, PoolInv
  <2>2. \A o \in AvailableCoins(chain, pool, mapWallet) :
          Available(chain, pool, o) /\ o \notin DOMAIN pool.mapNextTx
    BY <2>1, OffersSound
  <2>3. ASSUME NEW o \in Mine \ DOMAIN pool.mapNextTx, Unspent(chain, o),
               o[1] \in Generated => Len(chain) - Height(chain, o[1]) >= Maturity
        PROVE  o \in AvailableCoins(chain, pool, mapWallet)
    BY <2>1, <2>3, OffersComplete
  <2> QED  BY <2>2, <2>3 DEF OffersExact
<1> QED  BY <1>1, WalletInvariance, PTL

\* No cached credit counts a coin that is spent, whoever spent it (wallet.cpp:757).
THEOREM WalletCredits == WalletSpec /\ [][FirstCrash]_allWalletVars => []CreditNeverTooHigh
<1>1. WalletIInv => CreditNeverTooHigh
  BY DEF WalletIInv, WalletInv, Right, CreditsFree, Spent, CreditNeverTooHigh
<1> QED  BY <1>1, WalletInvariance, PTL

\* The types of the wallet, and that a cached credit is of outputs of its own
\* transaction.
THEOREM WalletTypesCorrect == WalletSpec /\ [][FirstCrash]_allWalletVars => []WalletTypeOK
<1>1. WalletIInv => WalletTypeOK
  <2> SUFFICES ASSUME WalletIInv PROVE WalletTypeOK
    OBVIOUS
  <2>1. Right(mapWallet, chain, pool) /\ DiskInv /\ CountersInv /\ chain \in Chains
    BY DEF WalletIInv, WalletInv, PoolInv, ChainValid
  <2>2. DOMAIN mapWallet \subseteq Tx /\ \A t \in DOMAIN mapWallet : mapWallet[t] \in Records
    BY <2>1, WalletsIs DEF Right
  <2>3. \A t \in DOMAIN mapWallet :
          /\ mapWallet[t].hashBlock = none \/ mapWallet[t].hashBlock \in Seq(Seq(Tx))
          /\ mapWallet[t].cache = none \/ mapWallet[t].cache \subseteq OutputsOf(t)
    BY <2>1, <2>2 DEF Records, Chains, Right, CreditsFree
  <2>4. locator \in Seq(Seq(Tx)) /\ saved \in Seq(Seq(Tx))
    <3>1. locator \in Chains
      BY <2>1 DEF DiskInv, ChainValid
    <3>2. saved \in Chains
      BY <2>1, MinedPrefix DEF DiskInv
    <3> QED  BY <3>1, <3>2 DEF Chains
  <2> QED  BY <2>1, <2>2, <2>3, <2>4 DEF WalletTypeOK, CountersInv
<1> QED  BY <1>1, WalletInvariance, PTL

\* All of it without a condition on the steps, while the node crashes once at most.
THEOREM WalletCorrect ==
  ASSUME MaxCrash <= 1
  PROVE  WalletSpec => [](WalletTypeOK /\ WalletFollowsChain /\ OffersExact /\ CreditNeverTooHigh)
<1>1. WalletInit => CountersInv
  <2>1. 0 \in 0 .. MaxDisconnect /\ 0 \in 0 .. MaxCrash
    BY WalletAssumption
  <2> QED  BY <2>1 DEF WalletInit, CountersInv
<1>2. CountersInv /\ [WalletNext]_allWalletVars => CountersInv'
  <2>1. ASSUME CountersInv, UNCHANGED allWalletVars PROVE CountersInv'
    BY <2>1 DEF allWalletVars, walletVars, counters, CountersInv
  <2> QED  BY <2>1, CountersStep
<1>3. CountersInv /\ [WalletNext]_allWalletVars => [FirstCrash]_allWalletVars
  <2> SUFFICES ASSUME CountersInv, WalletNext, Relapse PROVE nCrashes = 0
    BY DEF FirstCrash
  <2>1. nCrashes \in Nat /\ MaxCrash \in Nat
    BY WalletAssumption DEF CountersInv
  <2>2. nCrashes' \in 0 .. MaxCrash /\ nCrashes' \in {nCrashes, nCrashes + 1} /\ nCrashes' # nCrashes
    BY CountersStep DEF CountersInv, Relapse
  <2> QED  BY <2>1, <2>2
<1> QED
  BY <1>1, <1>2, <1>3, WalletFollows, WalletOffers, WalletCredits, WalletTypesCorrect, PTL DEF WalletSpec
=============================================================================
