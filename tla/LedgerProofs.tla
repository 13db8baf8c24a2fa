---------------------------- MODULE LedgerProofs -----------------------------
(***************************************************************************)
(* Proofs about Ledger: its types (LedgerTypesCorrect), that the coins are *)
(* those of the chain (CoinsCorrect) and rewards are left to mature        *)
(* (MaturityCorrect), what CVerifyDB complains of (VerifyCorrect), that    *)
(* zerocoinDB knows what the chain spent (SerialsCorrect) and that nothing *)
(* is spent twice (SpendsCorrect).                                         *)
(*                                                                         *)
(* What blocks do to the coins depends on the blocks alone, but for the    *)
(* mark of a coinstake, which undo data may lose: Joins says of a          *)
(* transaction of a block what ConnectBlock found when it let it in, and   *)
(* BlockCoins what the coins are after it.  ConnectBlock goes through      *)
(* these coins one way and DisconnectBlock the other, and the coins of the *)
(* node are the Same.                                                      *)
(***************************************************************************)
EXTENDS Ledger, BlockTreeTheorems

\* The coins of t when it was mined at height h (0: never) and the outputs S
\* are spent.
Coin(t, h, S) ==
  IF h = 0 \/ S = Outs[t] THEN NoCoins ELSE [FromTx(t, h) EXCEPT !.outs = @ \ S]
Shown(born, spent) == [t \in Tx |-> Coin(t, born[t], spent[t])]

\* Where and what the first i transactions of b add to the chain below b.
BornAt(b, t) == IF BlocksOf(b, t) = {} THEN 0 ELSE Height[Highest(BlocksOf(b, t))]
TxsUpTo(b, i) == {Body[b][j] : j \in 1 .. i}
Born(b, i) == [t \in Tx |-> IF t \in TxsUpTo(b, i) THEN Height[b] ELSE BornAt(Parent[b], t)]
Uses(u, t, n) == \E k \in DOMAIN Ins[u] : Ins[u][k] = <<t, n>>
SpentIn(b, i, t) == {n \in Outs[t] : \E j \in 1 .. i : Uses(Body[b][j], t, n)}
Spent(b, i) == [t \in Tx |-> SpentAt(Parent[b], t) \cup SpentIn(b, i, t)]

\* What the first j inputs of t add to what is spent.
SpentBy(spent, t, j) ==
  [q \in Tx |-> spent[q] \cup {n \in Outs[q] : \E k \in 1 .. j : Ins[t][k] = <<q, n>>}]

BlockCoins(b, i) == Shown(Born(b, i), Spent(b, i))

\* The i-th transaction of b is new to its chain, and what it spends is there.
InputsThere(b, i) == LET t == Body[b][i] IN
  \A k \in DOMAIN Ins[t] : LET q == Ins[t][k][1] IN
    /\ Born(b, i - 1)[q] # 0
    /\ Ins[t][k][2] \in Outs[q] \ Spent(b, i - 1)[q]
Joins(b, i) == Born(b, i - 1)[Body[b][i]] = 0 /\ InputsThere(b, i)
JoinsUpTo(b, i) == \A j \in 1 .. i : Joins(b, j)

\* A chain of which every transaction did join.
Sound(b) == \A a \in Chain[b] \ {Genesis} : JoinsUpTo(a, Len(Body[a]))

\* The rewards that the i-th transaction of b spends have matured, or are of a
\* coinstake in lost.
MaturedAt(lost, b, i) == LET t == Body[b][i] IN
  \A k \in DOMAIN Ins[t] : LET q == Ins[t][k][1] IN
    Kind[q] = "coinbase" \/ (Kind[q] = "coinstake" /\ q \notin lost) =>
      Height[b] - Born(b, i - 1)[q] >= Maturity

\* v undoes spending the output n of coins c, as far as undo data is read.
Undoes(v, c, n) == LET u == UndoOf(c, n) IN v.height = u.height /\ v.base = u.base

\* The records of u are those of the first m inputs of t.
UndoOfInputs(born, spent, t, m, u) ==
  \A k \in 1 .. m : LET q == Ins[t][k][1] IN
    Undoes(u[k], Coin(q, born[q], SpentBy(spent, t, k - 1)[q]), Ins[t][k][2])

\* u is the undo data of the first m transactions of b.
UndoUpTo(b, m, u) == \A j \in 1 .. m : LET t == Body[b][j] IN
  UndoOfInputs(Born(b, j - 1), Spent(b, j - 1), t, Len(Ins[t]), u[j])

-----------------------------------------------------------------------------
(***************************************************************************)
(* Functions that are defined along a sequence.                            *)
(***************************************************************************)

\* Induction up to a number.
LEMMA UpTo ==
  ASSUME NEW N \in Nat, NEW S, 0 \in S, \A i \in 1 .. N : i - 1 \in S => i \in S
  PROVE  0 .. N \subseteq S
<1> DEFINE Bad == {i \in 0 .. N : i \notin S}
<1>1. SUFFICES ASSUME Bad # {} PROVE FALSE
  OBVIOUS
<1>2. PICK n \in Bad : \A m \in Bad : n <= m
  <2>1. Bad \in SUBSET Nat
    OBVIOUS
  <2> HIDE DEF Bad
  <2> QED  BY <1>1, <2>1, LeastNatural
<1>3. n \in 1 .. N /\ n - 1 \in 0 .. N /\ ~(n <= n - 1)
  BY <1>2
<1> QED  BY <1>2, <1>3

\* Two functions that take the same steps.
LEMMA StepsAgree ==
  ASSUME NEW N \in Nat, NEW g, NEW h, g[0] = h[0],
         \A i \in 1 .. N : g[i - 1] = h[i - 1] => g[i] = h[i]
  PROVE  \A i \in 0 .. N : g[i] = h[i]
<1> DEFINE S == {i \in 0 .. N : g[i] = h[i]}
<1>1. 0 \in S /\ \A i \in 1 .. N : i - 1 \in S => i \in S
  OBVIOUS
<1>2. 0 .. N \subseteq S
  <2> HIDE DEF S
  <2> QED  BY <1>1, UpTo
<1> QED  BY <1>2

\* g goes from p in N steps, each by F.
IsSteps(g, D, N, F, p) ==
  /\ g \in [0 .. N -> D]
  /\ g[0] = p
  /\ \A i \in 1 .. N : g[i] = F[<<g[i - 1], i>>]

\* N steps can be taken.
LEMMA StepsExist ==
  ASSUME NEW D, NEW N \in Nat, NEW F \in [D \X (1 .. N) -> D], NEW p \in D
  PROVE  \E g : IsSteps(g, D, N, F, p)
<1> DEFINE Good(n) == \E g \in [0 .. n -> D] :
                        g[0] = p /\ \A i \in 1 .. n : g[i] = F[<<g[i - 1], i>>]
           S == {n \in 0 .. N : Good(n)}
<1>1. 0 \in S
  <2> DEFINE g == [i \in 0 .. 0 |-> p]
  <2>1. g \in [0 .. 0 -> D] /\ g[0] = p /\ 1 .. 0 = {}
    OBVIOUS
  <2>2. Good(0)
    BY <2>1
  <2> QED  BY <2>2
<1>2. ASSUME NEW n \in 1 .. N, n - 1 \in S PROVE n \in S
  <2>1. PICK h \in [0 .. n - 1 -> D] :
          h[0] = p /\ \A i \in 1 .. n - 1 : h[i] = F[<<h[i - 1], i>>]
    BY <1>2
  <2> DEFINE new == F[<<h[n - 1], n>>]
             g == [i \in 0 .. n |-> IF i = n THEN new ELSE h[i]]
  <2>2. new \in D
    BY <2>1
  <2>3. g \in [0 .. n -> D] /\ g[0] = p
    BY <2>1, <2>2
  <2>4. ASSUME NEW i \in 1 .. n PROVE g[i] = F[<<g[i - 1], i>>]
    <3>1. CASE i = n
      <4>1. n \in 0 .. n /\ n - 1 \in 0 .. n /\ n - 1 # n
        OBVIOUS
      <4>2. g[n] = new /\ g[n - 1] = h[n - 1]
        BY <4>1
      <4> HIDE DEF g
      <4> QED  BY <3>1, <4>2
    <3>2. CASE i # n
      <4>1. i \in 1 .. n - 1 /\ i - 1 \in 0 .. n - 1 /\ i - 1 # n
        BY <3>2
      <4> QED  BY <2>1, <4>1
    <3> QED  BY <3>1, <3>2
  <2>5. Good(n)
    BY <2>3, <2>4
  <2> QED  BY <2>5
<1>3. 0 .. N \subseteq S
  <2> HIDE DEF S
  <2> QED  BY <1>1, <1>2, UpTo
<1>4. Good(N)
  <2>1. N \in S
    <3> HIDE DEF S
    <3> QED  BY <1>3
  <2> HIDE DEF Good
  <2> QED  BY <2>1
<1>5. PICK g \in [0 .. N -> D] : g[0] = p /\ \A i \in 1 .. N : g[i] = F[<<g[i - 1], i>>]
  BY <1>4
<1>6. IsSteps(g, D, N, F, p)
  BY <1>5 DEF IsSteps
<1> QED  BY <1>6
-----------------------------------------------------------------------------
(***************************************************************************)
(* What the constants are.                                                 *)
(***************************************************************************)

\* What a transaction is.
LEMMA TxType ==
  ASSUME NEW t \in Tx
  PROVE  /\ Outs[t] \subseteq Nat /\ Outs[t] # {}
         /\ Ins[t] \in Seq(Tx \X Nat) /\ Len(Ins[t]) \in Nat /\ DOMAIN Ins[t] = 1 .. Len(Ins[t])
         /\ \A k \in 1 .. Len(Ins[t]) :
              Ins[t][k][1] \in Tx /\ Ins[t][k][2] \in Nat /\ Ins[t][k] = <<Ins[t][k][1], Ins[t][k][2]>>
         /\ \A j, k \in 1 .. Len(Ins[t]) : Ins[t][j] = Ins[t][k] => j = k
         /\ (Kind[t] \in {"coinbase", "spend"}) = (Ins[t] = <<>>)
         /\ (Kind[t] = "spend") = (Serials[t] # {})
         /\ Kind[t] \in {"coinbase", "coinstake", "plain", "spend"}
         /\ Serials[t] \subseteq Serial
<1>1. Outs[t] \subseteq Nat /\ Outs[t] # {} /\ Ins[t] \in Seq(Tx \X Nat)
  BY LedgerAssumption
<1>2. Len(Ins[t]) \in Nat /\ DOMAIN Ins[t] = 1 .. Len(Ins[t])
  BY <1>1
<1>3. ASSUME NEW k \in 1 .. Len(Ins[t])
      PROVE  Ins[t][k][1] \in Tx /\ Ins[t][k][2] \in Nat /\ Ins[t][k] = <<Ins[t][k][1], Ins[t][k][2]>>
  <2>1. Ins[t][k] \in Tx \X Nat
    BY <1>1, <1>2
  <2> QED  BY <2>1
<1>4. \A j, k \in 1 .. Len(Ins[t]) : Ins[t][j] = Ins[t][k] => j = k
  BY <1>2, LedgerAssumption
<1>5. /\ (Kind[t] \in {"coinbase", "spend"}) = (Ins[t] = <<>>)
      /\ (Kind[t] = "spend") = (Serials[t] # {})
  BY LedgerAssumption
<1>6. Kind[t] \in {"coinbase", "coinstake", "plain", "spend"} /\ Serials[t] \subseteq Serial
  BY LedgerAssumption
<1> QED  BY <1>1, <1>2, <1>3, <1>4, <1>5, <1>6

\* What the transactions of a block are.
LEMMA BodyType ==
  ASSUME NEW b \in Block, b # Genesis
  PROVE  /\ Len(Body[b]) \in Nat /\ DOMAIN Body[b] = 1 .. Len(Body[b])
         /\ \A i \in 1 .. Len(Body[b]) : Body[b][i] \in Tx
         /\ Txs(b) \subseteq Tx
         /\ Txs(b) = {Body[b][i] : i \in 1 .. Len(Body[b])}
         /\ \A i, j \in 1 .. Len(Body[b]) : i # j =>
              /\ Kind[Body[b][i]] = "coinbase" => Kind[Body[b][j]] # "coinbase"
              /\ Serials[Body[b][i]] \cap Serials[Body[b][j]] = {}
<1>1. Body[b] \in Seq(Tx)
  BY LedgerAssumption
<1>2. Len(Body[b]) \in Nat /\ DOMAIN Body[b] = 1 .. Len(Body[b])
  BY <1>1
<1>3. \A i \in 1 .. Len(Body[b]) : Body[b][i] \in Tx
  BY <1>1, <1>2
<1>4. Txs(b) \subseteq Tx /\ Txs(b) = {Body[b][i] : i \in 1 .. Len(Body[b])}
  BY <1>2, <1>3 DEF Txs
<1>5. \A i, j \in DOMAIN Body[b] : i # j =>
              /\ Kind[Body[b][i]] = "coinbase" => Kind[Body[b][j]] # "coinbase"
              /\ Serials[Body[b][i]] \cap Serials[Body[b][j]] = {}
  BY LedgerAssumption
<1> QED  BY <1>2, <1>3, <1>4, <1>5

-----------------------------------------------------------------------------
(***************************************************************************)
(* Spending the inputs of a transaction.                                   *)
(***************************************************************************)

CoinSets == [Tx -> CCoins]
TxUndos == [height : Nat, base : BOOLEAN, stake : BOOLEAN]
SpendResults == [coins : CoinSets, undo : Seq(TxUndos)]

\* Nothing is an entry of coins, too.
LEMMA NoCoinsType == NoCoins \in CCoins
BY DEF NoCoins, CCoins

\* So is what a new transaction leaves,
LEMMA FromTxType ==
  ASSUME NEW t \in Tx, NEW h \in Nat
  PROVE  FromTx(t, h) \in CCoins
BY TxType DEF FromTx, CCoins

\* and what CCoins::Spend leaves, whose undo record is one.
LEMMA SpendType ==
  ASSUME NEW c \in CCoins, NEW n \in Nat
  PROVE  Spend(c, n) \in CCoins /\ UndoOf(c, n) \in TxUndos
BY NoCoinsType DEF Spend, UndoOf, CCoins, TxUndos

\* Spending an input leaves coins and undo records.
LEMMA SpendInputType ==
  ASSUME NEW acc \in SpendResults, NEW in \in Tx \X Nat
  PROVE  SpendInput(acc, in) \in SpendResults
<1>1. in[1] \in Tx /\ in[2] \in Nat /\ acc.coins \in CoinSets /\ acc.undo \in Seq(TxUndos)
  BY DEF SpendResults
<1>2. acc.coins[in[1]] \in CCoins
  BY <1>1 DEF CoinSets
<1>3. /\ Spend(acc.coins[in[1]], in[2]) \in CCoins
      /\ UndoOf(acc.coins[in[1]], in[2]) \in TxUndos
  BY <1>1, <1>2, SpendType
<1>4. [acc.coins EXCEPT ![in[1]] = Spend(@, in[2])] \in CoinSets
  BY <1>1, <1>3 DEF CoinSets
<1>5. Append(acc.undo, UndoOf(acc.coins[in[1]], in[2])) \in Seq(TxUndos)
  BY <1>1, <1>3
<1> QED  BY <1>4, <1>5 DEF SpendInput, SpendResults

\* h[j] is what the first j inputs of t leave and have to be undone with.
SpendSteps(h, cs, t) ==
  /\ h \in [0 .. Len(Ins[t]) -> SpendResults]
  /\ h[0] = [coins |-> cs, undo |-> <<>>]
  /\ h[Len(Ins[t])] = SpendInputs(cs, t)
  /\ \A j \in 1 .. Len(Ins[t]) : h[j] = SpendInput(h[j - 1], Ins[t][j])

\* The loop over the inputs takes these steps.
LEMMA SpendInputsSteps ==
  ASSUME NEW cs \in CoinSets, NEW t \in Tx
  PROVE  \E h : SpendSteps(h, cs, t)
<1> DEFINE N == Len(Ins[t])
           p == [coins |-> cs, undo |-> <<>>]
           Step(acc, j) == SpendInput(acc, Ins[t][j])
           F == [x \in SpendResults \X (1 .. N) |-> Step(x[1], x[2])]
           Is(f) == f = [j \in 0 .. N |-> IF j = 0 THEN p ELSE Step(f[j - 1], j)]
           h == CHOOSE f : Is(f)
<1>1. N \in Nat /\ p \in SpendResults
  BY TxType DEF SpendResults
<1>2. F \in [SpendResults \X (1 .. N) -> SpendResults]
  <2>1. ASSUME NEW x \in SpendResults \X (1 .. N) PROVE Step(x[1], x[2]) \in SpendResults
    <3>1. x[1] \in SpendResults /\ Ins[t][x[2]] \in Tx \X Nat
      BY TxType
    <3> QED  BY <3>1, SpendInputType
  <2> HIDE DEF Step
  <2> QED  BY <2>1
<1>3. PICK g : IsSteps(g, SpendResults, N, F, p)
  <2> HIDE DEF F, N, p
  <2> QED  BY <1>1, <1>2, StepsExist
<1> USE DEF IsSteps
<1>4. \A j \in 1 .. N : g[j] = Step(g[j - 1], j)
  <2>1. \A j \in 1 .. N : <<g[j - 1], j>> \in SpendResults \X (1 .. N)
    BY <1>1, <1>3
  <2> HIDE DEF Step, N, p
  <2> QED  BY <1>3, <2>1
<1> HIDE DEF F
<1>5. Is(g)
  <2> HIDE DEF Step, N, p
  <2>1. \A j \in 0 .. N : g[j] = IF j = 0 THEN p ELSE Step(g[j - 1], j)
    BY <1>1, <1>3, <1>4
  <2> QED  BY <1>3, <2>1
<1>6. Is(h)
  BY <1>5
<1>7. SpendInputs(cs, t) = h[N]
  BY DEF SpendInputs
<1> HIDE DEF h
<1>8. \A j \in 0 .. N : h[j] = g[j]
  <2> HIDE DEF Step, N, p
  <2>1. h[0] = p /\ \A j \in 1 .. N : h[j] = Step(h[j - 1], j)
    BY <1>1, <1>6
  <2>2. h[0] = g[0] /\ \A j \in 1 .. N : h[j - 1] = g[j - 1] => h[j] = g[j]
    BY <1>3, <1>4, <2>1
  <2>3. N \in Nat
    BY <1>1
  <2> QED  BY ONLY <2>2, <2>3, StepsAgree
<1>9. g[N] = SpendInputs(cs, t)
  <2> HIDE DEF N
  <2> QED BY <1>1, <1>7, <1>8
<1> QED  BY <1>3, <1>4, <1>9 DEF SpendSteps
-----------------------------------------------------------------------------
(***************************************************************************)
(* What that makes of the coins.                                           *)
(***************************************************************************)

SpentSets == {f \in [Tx -> SUBSET Nat] : \A q \in Tx : f[q] \subseteq Outs[q]}

\* The coins of a transaction are coins.
LEMMA CoinType ==
  ASSUME NEW q \in Tx, NEW h \in Nat, NEW S
  PROVE  Coin(q, h, S) \in CCoins
<1>1. FromTx(q, h) \in CCoins /\ FromTx(q, h).outs = Outs[q] /\ Outs[q] \subseteq Nat
  BY FromTxType, TxType DEF FromTx
<1>2. [FromTx(q, h) EXCEPT !.outs = @ \ S] \in CCoins
  BY <1>1 DEF CCoins
<1> QED  BY <1>2, NoCoinsType DEF Coin

\* And so for all transactions.
LEMMA ShownType ==
  ASSUME NEW born \in [Tx -> Nat], NEW spent
  PROVE  Shown(born, spent) \in CoinSets
BY CoinType DEF Shown, CoinSets

\* What is left are the outputs that are not spent.
LEMMA CoinOuts ==
  ASSUME NEW q \in Tx, NEW h \in Nat, NEW S
  PROVE  Coin(q, h, S).outs = IF h = 0 THEN {} ELSE Outs[q] \ S
BY DEF Coin, NoCoins, FromTx

\* Spending an output adds it to the spent ones, the last one too.
LEMMA SpendCoin ==
  ASSUME NEW q \in Tx, NEW h \in Nat, h # 0, NEW S \in SUBSET Outs[q], NEW n \in Outs[q] \ S
  PROVE  Spend(Coin(q, h, S), n) = Coin(q, h, S \cup {n})
<1>1. S # Outs[q] /\ Coin(q, h, S) = [FromTx(q, h) EXCEPT !.outs = @ \ S]
  BY DEF Coin
<1>2. Coin(q, h, S).outs = Outs[q] \ S
  BY CoinOuts
<1>3. (Outs[q] \ S = {n}) = (S \cup {n} = Outs[q])
  OBVIOUS
<1>4. CASE Outs[q] \ S = {n}
  BY <1>2, <1>3, <1>4 DEF Spend, Coin
<1>5. CASE Outs[q] \ S # {n}
  <2> DEFINE Left(X) == [outs |-> X, base |-> Kind[q] = "coinbase", stake |-> Kind[q] = "coinstake", height |-> h]
  <2>1. Coin(q, h, S) = Left(Outs[q] \ S)
    BY <1>1 DEF FromTx
  <2>2. Coin(q, h, S \cup {n}) = Left(Outs[q] \ (S \cup {n}))
    BY <1>3, <1>5 DEF Coin, FromTx
  <2>3. Spend(Left(Outs[q] \ S), n) = Left((Outs[q] \ S) \ {n})
    BY <1>5 DEF Spend
  <2>4. (Outs[q] \ S) \ {n} = Outs[q] \ (S \cup {n})
    OBVIOUS
  <2> HIDE DEF Left
  <2> QED  BY <2>1, <2>2, <2>3, <2>4
<1> QED  BY <1>4, <1>5

SpendAt(cs, q, n) == [cs EXCEPT ![q] = Spend(@, n)]
With(spent, q, n) == [spent EXCEPT ![q] = @ \cup {n}]

\* And so in the coins of all transactions.
LEMMA SpendShown ==
  ASSUME NEW born \in [Tx -> Nat], NEW spent \in SpentSets, NEW q \in Tx, born[q] # 0,
         NEW n \in Outs[q] \ spent[q]
  PROVE  /\ SpendAt(Shown(born, spent), q, n) = Shown(born, With(spent, q, n))
         /\ With(spent, q, n) \in SpentSets
<1>1. spent \in [Tx -> SUBSET Nat] /\ spent[q] \subseteq Outs[q] /\ Outs[q] \subseteq Nat
  BY TxType DEF SpentSets
<1>2. Spend(Coin(q, born[q], spent[q]), n) = Coin(q, born[q], spent[q] \cup {n})
  BY <1>1, SpendCoin
<1>3. [spent EXCEPT ![q] = @ \cup {n}] \in SpentSets
  BY <1>1 DEF SpentSets
<1> DEFINE new == [spent EXCEPT ![q] = @ \cup {n}]
           left == [Shown(born, spent) EXCEPT ![q] = Spend(@, n)]
<1>4. ASSUME NEW t \in Tx PROVE left[t] = Coin(t, born[t], new[t])
  <2>1. Shown(born, spent)[t] = Coin(t, born[t], spent[t])
    BY DEF Shown
  <2>2. CASE t = q
    BY <1>1, <1>2, <2>1, <2>2 DEF Shown
  <2>3. CASE t # q
    BY <1>1, <2>1, <2>3 DEF Shown
  <2> QED  BY <2>2, <2>3
<1>5. left = [t \in Tx |-> left[t]]
  BY DEF Shown
<1> QED  BY <1>3, <1>4, <1>5 DEF Shown, SpendAt, With

\* Input by input, each of them new.
LEMMA SpentByStep ==
  ASSUME NEW spent \in SpentSets, NEW t \in Tx
  PROVE  /\ SpentBy(spent, t, 0) = spent
         /\ \A j \in 0 .. Len(Ins[t]) : SpentBy(spent, t, j) \in SpentSets
         /\ \A j \in 1 .. Len(Ins[t]) :
              LET q == Ins[t][j][1]
                  n == Ins[t][j][2]
              IN /\ n \in Outs[q] =>
                      SpentBy(spent, t, j) = With(SpentBy(spent, t, j - 1), q, n)
                 /\ n \notin spent[q] => n \notin SpentBy(spent, t, j - 1)[q]
<1>0. /\ spent \in [Tx -> SUBSET Nat] /\ \A q \in Tx : spent[q] \subseteq Outs[q]
      /\ \A q \in Tx : Outs[q] \subseteq Nat
  BY TxType DEF SpentSets
<1>1. SpentBy(spent, t, 0) = spent
  <2>1. \A q \in Tx : SpentBy(spent, t, 0)[q] = spent[q]
    BY DEF SpentBy
  <2> QED  BY <1>0, <2>1 DEF SpentBy
<1>2. \A j \in 0 .. Len(Ins[t]) : SpentBy(spent, t, j) \in SpentSets
  BY <1>0 DEF SpentBy, SpentSets
<1>3. ASSUME NEW j \in 1 .. Len(Ins[t]), NEW q, NEW n, q = Ins[t][j][1], n = Ins[t][j][2], n \in Outs[q]
      PROVE  SpentBy(spent, t, j) = With(SpentBy(spent, t, j - 1), q, n)
  <2> DEFINE left == SpentBy(spent, t, j)
             right == With(SpentBy(spent, t, j - 1), q, n)
  <2>0. q \in Tx /\ Ins[t][j] = <<q, n>>
    BY <1>3, TxType
  <2>1. ASSUME NEW p \in Tx PROVE left[p] = right[p]
    <3>1. \A k : k \in 1 .. j <=> k \in 1 .. j - 1 \/ k = j
      OBVIOUS
    <3>2. \A m : (\E k \in 1 .. j : Ins[t][k] = <<p, m>>)
                   <=> (\E k \in 1 .. j - 1 : Ins[t][k] = <<p, m>>) \/ (p = q /\ m = n)
      BY <2>0, <3>1
    <3>3. left[p] = spent[p] \cup {m \in Outs[p] : \E k \in 1 .. j : Ins[t][k] = <<p, m>>}
      BY DEF SpentBy
    <3>4. SpentBy(spent, t, j - 1)[p]
            = spent[p] \cup {m \in Outs[p] : \E k \in 1 .. j - 1 : Ins[t][k] = <<p, m>>}
      BY DEF SpentBy
    <3>5. right[p] = IF p = q THEN SpentBy(spent, t, j - 1)[p] \cup {n} ELSE SpentBy(spent, t, j - 1)[p]
      BY DEF SpentBy, With
    <3>6. n \in Outs[q]
      BY <1>3
    <3> HIDE DEF left, right
    <3> DEFINE was == {m \in Outs[p] : \E k \in 1 .. j - 1 : Ins[t][k] = <<p, m>>}
               is  == {m \in Outs[p] : \E k \in 1 .. j : Ins[t][k] = <<p, m>>}
    <3>7. is = was \cup (IF p = q THEN {n} ELSE {})
      <4>1. \A m : m \in is <=> m \in Outs[p] /\ (m \in was \/ (p = q /\ m = n))
        BY ONLY <3>2
      <4>2. was \subseteq Outs[p] /\ is \subseteq Outs[p]
        OBVIOUS
      <4> HIDE DEF was, is
      <4> QED  BY ONLY <3>6, <4>1, <4>2
    <3> QED  BY ONLY <3>3, <3>4, <3>5, <3>7 DEF was
  <2>2. left = [p \in Tx |-> left[p]] /\ right = [p \in Tx |-> right[p]]
    BY DEF SpentBy, With
  <2> HIDE DEF left, right
  <2>3. left = right
    BY <2>1, <2>2
  <2> QED  BY <2>3 DEF left, right
<1>4. ASSUME NEW j \in 1 .. Len(Ins[t]), NEW q, NEW n, q = Ins[t][j][1], n = Ins[t][j][2],
             n \notin spent[q]
      PROVE  n \notin SpentBy(spent, t, j - 1)[q]
  <2>1. q \in Tx /\ Ins[t][j] = <<q, n>>
    BY <1>4, TxType
  <2>2. \A k \in 1 .. j - 1 : Ins[t][k] # Ins[t][j]
    <3>1. TAKE k \in 1 .. j - 1
    <3>2. k \in 1 .. Len(Ins[t]) /\ k # j
      BY TxType
    <3> QED  BY <3>2, TxType
  <2> QED  BY <1>4, <2>1, <2>2 DEF SpentBy
<1> QED  BY <1>1, <1>2, <1>3, <1>4
-----------------------------------------------------------------------------
(***************************************************************************)
(* Coins that are the Same but for the marks in lost.                      *)
(***************************************************************************)

\* And so for one transaction.
Like(lost, q, c, d) == c = d \/ (q \in lost /\ c = Unmarked(d))

LEMMA SameIsLike ==
  ASSUME NEW lost, NEW cs, NEW ds
  PROVE  Same(lost, cs, ds) <=> \A q \in Tx : Like(lost, q, cs[q], ds[q])
BY DEF Same, Like

\* What Unmarked leaves.
LEMMA UnmarkedFields ==
  ASSUME NEW d \in CCoins
  PROVE  /\ Unmarked(d) \in CCoins
         /\ Unmarked(d) = [outs |-> d.outs, base |-> d.base, stake |-> FALSE, height |-> d.height]
<1> DEFINE c == Unmarked(d)
<1>1. c \in CCoins /\ c.outs = d.outs /\ c.base = d.base /\ c.height = d.height /\ c.stake = FALSE
  BY DEF Unmarked, CCoins
<1> HIDE DEF c
<1>2. c = [outs |-> c.outs, base |-> c.base, stake |-> c.stake, height |-> c.height]
  BY <1>1 DEF CCoins
<1> QED  BY <1>1, <1>2 DEF c

\* Spending an output keeps it so, and the undo record undoes both.
LEMMA LikeSpend ==
  ASSUME NEW lost, NEW q, NEW d \in CCoins, NEW c, Like(lost, q, c, d), NEW n \in Nat
  PROVE  Like(lost, q, Spend(c, n), Spend(d, n)) /\ Undoes(UndoOf(c, n), d, n)
<1>1. CASE c = d
  BY <1>1 DEF Like, Undoes
<1>2. CASE q \in lost /\ c = Unmarked(d)
  <2>1. /\ c.outs = d.outs /\ c.base = d.base /\ c.height = d.height
        /\ d = [outs |-> d.outs, base |-> d.base, stake |-> d.stake, height |-> d.height]
        /\ c = [outs |-> d.outs, base |-> d.base, stake |-> FALSE, height |-> d.height]
    BY <1>2 DEF Unmarked, CCoins
  <2>2. Undoes(UndoOf(c, n), d, n)
    BY <2>1 DEF Undoes, UndoOf
  <2>3. CASE d.outs = {n}
    BY <2>1, <2>2, <2>3 DEF Spend, Like
  <2>4. CASE d.outs # {n}
    <3>1. Spend(c, n) = [outs |-> d.outs \ {n}, base |-> d.base, stake |-> FALSE, height |-> d.height]
      BY <2>1, <2>4 DEF Spend
    <3>2. Spend(d, n) = [outs |-> d.outs \ {n}, base |-> d.base, stake |-> d.stake, height |-> d.height]
      BY <2>1, <2>4 DEF Spend
    <3>3. Spend(c, n) = Unmarked(Spend(d, n))
      BY <3>1, <3>2, SpendType, UnmarkedFields
    <3> QED  BY <1>2, <2>2, <3>3 DEF Like
  <2> QED  BY <2>3, <2>4
<1> QED  BY <1>1, <1>2 DEF Like

\* More may be lost.
LEMMA SameMore ==
  ASSUME NEW lost, NEW more, lost \subseteq more, NEW cs, NEW ds, Same(lost, cs, ds)
  PROVE  Same(more, cs, ds)
BY DEF Same

\* The inputs of t are there.
There(born, spent, t) ==
  \A k \in 1 .. Len(Ins[t]) : LET q == Ins[t][k][1] IN
    born[q] # 0 /\ Ins[t][k][2] \in Outs[q] \ spent[q]

\* A transaction whose inputs are there spends them, and its undo record fits.
LEMMA SpendsInputs ==
  ASSUME NEW born \in [Tx -> Nat], NEW spent \in SpentSets, NEW t \in Tx, There(born, spent, t),
         NEW lost, NEW cs \in CoinSets, Same(lost, cs, Shown(born, spent))
  PROVE  LET r == SpendInputs(cs, t) IN
         /\ r \in SpendResults
         /\ Same(lost, r.coins, Shown(born, SpentBy(spent, t, Len(Ins[t]))))
         /\ UndoOfInputs(born, spent, t, Len(Ins[t]), r.undo)
<1> DEFINE N == Len(Ins[t])
<1>0. N \in Nat
  BY TxType
<1>1. PICK h : SpendSteps(h, cs, t)
  BY SpendInputsSteps
<1> DEFINE Good(j) == /\ Same(lost, h[j].coins, Shown(born, SpentBy(spent, t, j)))
                      /\ Len(h[j].undo) = j
                      /\ UndoOfInputs(born, spent, t, j, h[j].undo)
           S == {j \in 0 .. N : Good(j)}
<1>2. 0 \in S
  <2>1. h[0].coins = cs /\ h[0].undo = <<>> /\ 1 .. 0 = {}
    BY <1>1 DEF SpendSteps
  <2>2. SpentBy(spent, t, 0) = spent
    BY SpentByStep
  <2>3. Good(0)
    BY <2>1, <2>2 DEF UndoOfInputs
  <2> HIDE DEF Good
  <2> QED  BY <1>0, <2>3
<1>3. ASSUME NEW j \in 1 .. N, j - 1 \in S PROVE j \in S
  <2> DEFINE q == Ins[t][j][1]
             n == Ins[t][j][2]
             sp == SpentBy(spent, t, j - 1)
  <2>1. /\ q \in Tx /\ n \in Nat /\ Ins[t][j] = <<q, n>>
        /\ born[q] # 0 /\ n \in Outs[q] /\ n \notin spent[q]
    BY TxType DEF There
  <2>2. h[j] = SpendInput(h[j - 1], Ins[t][j]) /\ h[j - 1] \in SpendResults
    <3>1. j - 1 \in 0 .. Len(Ins[t]) /\ j \in 1 .. Len(Ins[t])
      BY <1>0
    <3> QED  BY <1>1, <3>1 DEF SpendSteps
  <2>3. Same(lost, h[j - 1].coins, Shown(born, sp)) /\ Len(h[j - 1].undo) = j - 1
        /\ UndoOfInputs(born, spent, t, j - 1, h[j - 1].undo)
    BY <1>3
  <2>4. j - 1 \in 0 .. Len(Ins[t]) /\ sp \in SpentSets
    BY <1>0, SpentByStep
  <2>5. n \notin sp[q] /\ SpentBy(spent, t, j) = With(sp, q, n)
    BY <2>1, SpentByStep
  <2> DEFINE now == h[j - 1].coins
             u == UndoOf(now[q], n)
  <2>6. now \in CoinSets /\ h[j - 1].undo \in Seq(TxUndos) /\ now[q] \in CCoins
    <3>1. now \in CoinSets /\ h[j - 1].undo \in Seq(TxUndos)
      BY <2>2 DEF SpendResults
    <3>2. q \in Tx
      BY <2>1
    <3> HIDE DEF now, q
    <3> QED  BY <3>1, <3>2 DEF CoinSets
  <2>7. h[j].coins = SpendAt(now, q, n) /\ h[j].undo = Append(h[j - 1].undo, u)
    BY <2>2 DEF SpendInput, SpendAt
  <2>8. u \in TxUndos
    BY <2>1, <2>6, SpendType
  <2> HIDE DEF sp, q, n, now, u
  <2>9. SpendAt(Shown(born, sp), q, n) = Shown(born, With(sp, q, n))
    <3>1. n \in Outs[q] \ sp[q]
      BY <2>1, <2>5
    <3> QED  BY ONLY <2>1, <2>4, <3>1, born \in [Tx -> Nat], SpendShown
  <2>10. /\ Shown(born, sp) \in CoinSets
         /\ Shown(born, sp)[q] = Coin(q, born[q], sp[q])
    BY <2>1, ShownType DEF Shown
  <2>11. Same(lost, h[j].coins, Shown(born, SpentBy(spent, t, j)))
    <3> SUFFICES ASSUME NEW p \in Tx
                 PROVE  Like(lost, p, SpendAt(now, q, n)[p], SpendAt(Shown(born, sp), q, n)[p])
      BY <2>5, <2>7, <2>9, SameIsLike
    <3>1. Like(lost, p, now[p], Shown(born, sp)[p]) /\ Shown(born, sp)[p] \in CCoins
      BY <2>3, <2>10, SameIsLike DEF now, CoinSets
    <3>2. DOMAIN now = Tx /\ DOMAIN Shown(born, sp) = Tx
      BY <2>6, <2>10 DEF CoinSets
    <3>3. CASE p = q
      BY <2>1, <3>1, <3>2, <3>3, LikeSpend DEF SpendAt
    <3>4. CASE p # q
      BY <3>1, <3>2, <3>4 DEF SpendAt
    <3> QED  BY <3>3, <3>4
  <2>12. Undoes(u, Coin(q, born[q], sp[q]), n)
    <3>1. Like(lost, q, now[q], Shown(born, sp)[q]) /\ Shown(born, sp)[q] \in CCoins
      BY <2>1, <2>3, <2>10, SameIsLike DEF now, CoinSets
    <3>2. Undoes(UndoOf(now[q], n), Shown(born, sp)[q], n)
      BY <2>1, <3>1, LikeSpend
    <3> QED  BY <2>10, <3>2 DEF u
  <2>13. /\ Len(h[j].undo) = j /\ h[j].undo[j] = u
         /\ \A k \in 1 .. j - 1 : h[j].undo[k] = h[j - 1].undo[k]
    BY <2>3, <2>6, <2>7, <2>8
  <2>14. UndoOfInputs(born, spent, t, j, h[j].undo)
    <3> SUFFICES ASSUME NEW k \in 1 .. j
                 PROVE  Undoes(h[j].undo[k], Coin(Ins[t][k][1], born[Ins[t][k][1]],
                                                  SpentBy(spent, t, k - 1)[Ins[t][k][1]]), Ins[t][k][2])
      BY DEF UndoOfInputs
    <3>1. CASE k = j
      BY <2>12, <2>13, <3>1 DEF q, n, sp
    <3>2. CASE k # j
      <4>1. k \in 1 .. j - 1
        BY <3>2
      <4> QED  BY <2>3, <2>13, <4>1 DEF UndoOfInputs
    <3> QED  BY <3>1, <3>2
  <2>15. Good(j) /\ j \in 0 .. N
    BY <2>11, <2>13, <2>14
  <2> HIDE DEF Good
  <2> QED  BY <2>15
<1>4. 0 .. N \subseteq S
  <2> HIDE DEF S, N
  <2> QED  BY <1>0, <1>2, <1>3, UpTo
<1>5. Good(N) /\ h[N] = SpendInputs(cs, t) /\ h[N] \in SpendResults
  <2>1. N \in S
    BY <1>0, <1>4
  <2> QED  BY <1>0, <1>1, <2>1 DEF SpendSteps
<1> QED  BY <1>5
-----------------------------------------------------------------------------
(***************************************************************************)
(* The coins in the middle of a block.                                     *)
(***************************************************************************)

\* BornAt is 0 if the chain does not have the transaction.
LEMMA BlocksOfType ==
  ASSUME NEW b \in Block, NEW t \in Tx
  PROVE  /\ BlocksOf(b, t) \subseteq Chain[b] \ {Genesis}
         /\ BornAt(b, t) \in Nat
         /\ (BornAt(b, t) = 0) = (BlocksOf(b, t) = {})
<1>1. BlocksOf(b, t) \subseteq Chain[b] \ {Genesis}
  BY DEF BlocksOf
<1>2. CASE BlocksOf(b, t) = {}
  BY <1>1, <1>2 DEF BornAt
<1>3. CASE BlocksOf(b, t) # {}
  <2> DEFINE a == Highest(BlocksOf(b, t))
  <2>1. a \in BlocksOf(b, t)
    BY <1>1, <1>3, HighestIsOne
  <2> HIDE DEF a
  <2>2. a \in Block /\ a # Genesis
    BY <1>1, <2>1, ChainContains
  <2>3. Parent[a] \in Block /\ Height[a] = Height[Parent[a]] + 1 /\ Height[Parent[a]] \in Nat
    BY <2>2, ChainStep, HeightStep, HeightType
  <2>4. BornAt(b, t) = Height[a]
    BY <1>3 DEF BornAt, a
  <2> QED  BY <1>1, <1>3, <2>3, <2>4
<1> QED  BY <1>2, <1>3

\* What a block adds to the chain of its parent.
LEMMA BlocksOfStep ==
  ASSUME NEW b \in Block, b # Genesis, NEW t \in Tx
  PROVE  /\ BlocksOf(b, t) = BlocksOf(Parent[b], t) \cup (IF t \in Txs(b) THEN {b} ELSE {})
         /\ SpentAt(b, t) = SpentAt(Parent[b], t) \cup SpentIn(b, Len(Body[b]), t)
<1>1. Chain[b] \ {Genesis} = (Chain[Parent[b]] \ {Genesis}) \cup {b}
  BY ChainStep
<1>2. BlocksOf(b, t) = BlocksOf(Parent[b], t) \cup (IF t \in Txs(b) THEN {b} ELSE {})
  BY <1>1 DEF BlocksOf
<1>3. SpentIn(b, Len(Body[b]), t) =
        {n \in Outs[t] : \E u \in Txs(b) : \E i \in DOMAIN Ins[u] : Ins[u][i] = <<t, n>>}
  <2>1. \A n : (\E j \in 1 .. Len(Body[b]) : Uses(Body[b][j], t, n)) <=> (\E u \in Txs(b) : Uses(u, t, n))
    BY BodyType
  <2> QED  BY <2>1 DEF SpentIn, Uses
<1>4. SpentAt(b, t) = SpentAt(Parent[b], t) \cup SpentIn(b, Len(Body[b]), t)
  BY <1>1, <1>3 DEF SpentAt
<1> QED  BY <1>2, <1>4

\* What the middle of a block is made of.
LEMMA BlockType ==
  ASSUME NEW b \in Block, b # Genesis, NEW i
  PROVE  /\ Born(b, i) \in [Tx -> Nat]
         /\ Spent(b, i) \in SpentSets
         /\ Height[b] \in Nat /\ Height[b] # 0
         /\ \A t \in Tx : (Born(b, i)[t] # 0) = (t \in TxsUpTo(b, i) \/ BlocksOf(Parent[b], t) # {})
<1>1. Parent[b] \in Block /\ Height[b] = Height[Parent[b]] + 1 /\ Height[Parent[b]] \in Nat
  BY ChainStep, HeightStep, HeightType
<1>2. Height[b] \in Nat /\ Height[b] # 0
  BY <1>1
<1>3. Born(b, i) \in [Tx -> Nat]
  BY <1>1, <1>2, BlocksOfType DEF Born
<1>4. Spent(b, i) \in SpentSets
  BY TxType DEF Spent, SpentIn, SpentAt, SpentSets
<1>5. \A t \in Tx : (Born(b, i)[t] # 0) = (t \in TxsUpTo(b, i) \/ BlocksOf(Parent[b], t) # {})
  BY <1>1, <1>2, BlocksOfType DEF Born
<1> QED  BY <1>2, <1>3, <1>4, <1>5

\* The i-th transaction makes a step of it.
LEMMA BlockStep ==
  ASSUME NEW b \in Block, b # Genesis, NEW i \in 1 .. Len(Body[b])
  PROVE  LET t == Body[b][i] IN
         /\ TxsUpTo(b, i) = TxsUpTo(b, i - 1) \cup {t}
         /\ Born(b, i) = [Born(b, i - 1) EXCEPT ![t] = Height[b]]
         /\ Spent(b, i) = SpentBy(Spent(b, i - 1), t, Len(Ins[t]))
<1> DEFINE t == Body[b][i]
<1>0. t \in Tx /\ DOMAIN Ins[t] = 1 .. Len(Ins[t])
  BY BodyType, TxType
<1>1. \A k : k \in 1 .. i <=> k \in 1 .. i - 1 \/ k = i
  BY BodyType
<1>2. TxsUpTo(b, i) = TxsUpTo(b, i - 1) \cup {t}
  BY <1>1 DEF TxsUpTo
<1> HIDE DEF t
<1>3. Born(b, i) = [Born(b, i - 1) EXCEPT ![t] = Height[b]]
  BY <1>0, <1>2 DEF Born
<1>4. ASSUME NEW q \in Tx
      PROVE  Spent(b, i)[q] = SpentBy(Spent(b, i - 1), t, Len(Ins[t]))[q]
  <2>1. SpentIn(b, i, q) = SpentIn(b, i - 1, q)
                             \cup {n \in Outs[q] : \E k \in 1 .. Len(Ins[t]) : Ins[t][k] = <<q, n>>}
    BY <1>0, <1>1 DEF SpentIn, Uses, t
  <2> QED  BY <2>1 DEF Spent, SpentBy
<1>5. Spent(b, i) = SpentBy(Spent(b, i - 1), t, Len(Ins[t]))
  BY <1>4 DEF Spent, SpentBy
<1> QED  BY <1>2, <1>3, <1>5 DEF t

\* Before its first transaction a block finds the coins of its parent.
LEMMA BlockBegins ==
  ASSUME NEW b \in Block, b # Genesis
  PROVE  BlockCoins(b, 0) = CoinsAt[Parent[b]] /\ BlockCoins(b, 0) \in CoinSets
<1>1. Parent[b] \in Block
  BY ChainStep
<1>2. ASSUME NEW t \in Tx PROVE BlockCoins(b, 0)[t] = CoinsAt[Parent[b]][t]
  <2>1. Born(b, 0)[t] = BornAt(Parent[b], t)
    BY DEF Born, TxsUpTo
  <2>2. Spent(b, 0)[t] = SpentAt(Parent[b], t)
    BY DEF Spent, SpentIn
  <2>3. BlockCoins(b, 0)[t] = Coin(t, BornAt(Parent[b], t), SpentAt(Parent[b], t))
    BY <2>1, <2>2 DEF BlockCoins, Shown
  <2>4. (BornAt(Parent[b], t) = 0) = (BlocksOf(Parent[b], t) = {})
    BY <1>1, BlocksOfType
  <2> QED  BY <1>1, <2>3, <2>4 DEF CoinsAt, Coin, BornAt
<1>3. BlockCoins(b, 0) = [t \in Tx |-> BlockCoins(b, 0)[t]]
  BY DEF BlockCoins, Shown
<1>4. CoinsAt[Parent[b]] = [t \in Tx |-> CoinsAt[Parent[b]][t]]
  BY <1>1 DEF CoinsAt
<1>5. BlockCoins(b, 0) \in CoinSets
  BY BlockType, ShownType DEF BlockCoins
<1> QED  BY <1>2, <1>3, <1>4, <1>5

\* After its last transaction it leaves those that are its own.
LEMMA BlockEnds ==
  ASSUME NEW b \in Block, b # Genesis, JoinsUpTo(b, Len(Body[b]))
  PROVE  BlockCoins(b, Len(Body[b])) = CoinsAt[b]
<1> DEFINE N == Len(Body[b])
<1>0. N \in Nat /\ TxsUpTo(b, N) = Txs(b) /\ Parent[b] \in Block
  BY BodyType, ChainStep DEF TxsUpTo
<1>1. ASSUME NEW t \in Txs(b) PROVE BlocksOf(Parent[b], t) = {}
  <2>1. PICK i \in 1 .. N : t = Body[b][i]
    BY BodyType
  <2>2. Born(b, i - 1)[t] = 0 /\ t \in Tx
    BY <2>1, BodyType DEF JoinsUpTo, Joins
  <2> QED  BY <2>2, BlockType
<1>2. ASSUME NEW t \in Tx PROVE Born(b, N)[t] = BornAt(b, t)
  <2>1. CASE t \in Txs(b)
    <3>1. BlocksOf(b, t) = {b}
      BY <1>1, <2>1, BlocksOfStep
    <3>2. {b} \in SUBSET Chain[b] /\ {b} # {}
      BY ChainContains
    <3>3. Highest({b}) = b
      BY <3>2, HighestIsOne
    <3> QED  BY <1>0, <2>1, <3>1, <3>3 DEF Born, BornAt
  <2>2. CASE t \notin Txs(b)
    <3>0. BlocksOf(b, t) = BlocksOf(Parent[b], t) \cup (IF t \in Txs(b) THEN {b} ELSE {})
      BY BlocksOfStep
    <3>1. BlocksOf(b, t) = BlocksOf(Parent[b], t)
      BY ONLY <2>2, <3>0
    <3>2. BornAt(b, t) = BornAt(Parent[b], t)
      BY <3>1 DEF BornAt
    <3>3. Born(b, N)[t] = BornAt(Parent[b], t)
      <4>1. t \notin TxsUpTo(b, N)
        BY <1>0, <2>2
      <4> HIDE DEF N
      <4> QED  BY <4>1 DEF Born
    <3> QED  BY <3>2, <3>3
  <2> QED  BY <2>1, <2>2
<1>3. ASSUME NEW t \in Tx PROVE Spent(b, N)[t] = SpentAt(b, t)
  BY BlocksOfStep DEF Spent
<1>4. ASSUME NEW t \in Tx PROVE BlockCoins(b, N)[t] = CoinsAt[b][t]
  <2>1. BlockCoins(b, N)[t] = Coin(t, BornAt(b, t), SpentAt(b, t))
    BY <1>2, <1>3 DEF BlockCoins, Shown
  <2>2. (BornAt(b, t) = 0) = (BlocksOf(b, t) = {})
    BY BlocksOfType
  <2> QED  BY <2>1, <2>2 DEF CoinsAt, Coin, BornAt
<1>5. BlockCoins(b, N) = [t \in Tx |-> BlockCoins(b, N)[t]] /\ CoinsAt[b] = [t \in Tx |-> CoinsAt[b][t]]
  BY DEF BlockCoins, Shown, CoinsAt
<1> QED  BY <1>4, <1>5

\* What is spent was mined.
LEMMA SpentWasBorn ==
  ASSUME NEW b \in Block, b # Genesis, Sound(Parent[b]),
         NEW i \in 0 .. Len(Body[b]), JoinsUpTo(b, i), NEW t \in Tx, Born(b, i)[t] = 0
  PROVE  Spent(b, i)[t] = {}
<1>0. Parent[b] \in Block /\ t \notin TxsUpTo(b, i) /\ BlocksOf(Parent[b], t) = {}
  BY ChainStep, BlockType
<1> SUFFICES ASSUME NEW n \in Spent(b, i)[t] PROVE FALSE
  OBVIOUS
<1>1. CASE n \in SpentAt(Parent[b], t)
  <2>1. PICK a \in Chain[Parent[b]] \ {Genesis} : \E u \in Txs(a) : Uses(u, t, n)
    BY <1>1 DEF SpentAt, Uses
  <2>2. a \in Block /\ a # Genesis
    BY <1>0, ChainContains
  <2>3. PICK j \in 1 .. Len(Body[a]) : Uses(Body[a][j], t, n)
    BY <2>1, <2>2, BodyType
  <2>4. Joins(a, j)
    BY <2>3 DEF Sound, JoinsUpTo
  <2>5. Born(a, j - 1)[t] # 0
    <3>1. PICK k \in DOMAIN Ins[Body[a][j]] : Ins[Body[a][j]][k] = <<t, n>>
      BY <2>3 DEF Uses
    <3>2. Born(a, j - 1)[Ins[Body[a][j]][k][1]] # 0
      BY <2>4 DEF Joins, InputsThere
    <3> QED  BY <3>1, <3>2
  <2>6. t \in TxsUpTo(a, j - 1) \/ BlocksOf(Parent[a], t) # {}
    BY <2>2, <2>5, BlockType
  <2>7. t \in TxsUpTo(a, j - 1) => t \in Txs(a)
    BY <2>2, BodyType DEF TxsUpTo
  <2>8. Chain[Parent[a]] \subseteq Chain[Parent[b]]
    BY <1>0, <2>2, ChainClosed, ChainTransitive
  <2>9. BlocksOf(Parent[b], t) # {}
    BY <2>6, <2>7, <2>8 DEF BlocksOf
  <2> QED  BY <1>0, <2>9
<1>2. CASE n \in SpentIn(b, i, t)
  <2>1. PICK j \in 1 .. i : Uses(Body[b][j], t, n) /\ Joins(b, j)
    BY <1>2 DEF SpentIn, JoinsUpTo
  <2>2. Born(b, j - 1)[t] # 0
    <3>1. PICK k \in DOMAIN Ins[Body[b][j]] : Ins[Body[b][j]][k] = <<t, n>>
      BY <2>1 DEF Uses
    <3>2. Born(b, j - 1)[Ins[Body[b][j]][k][1]] # 0
      BY <2>1 DEF Joins, InputsThere
    <3> QED  BY <3>1, <3>2
  <2>3. t \in TxsUpTo(b, j - 1)
    BY <1>0, <2>2, BlockType
  <2>4. TxsUpTo(b, j - 1) \subseteq TxsUpTo(b, i)
    <3>1. 1 .. j - 1 \subseteq 1 .. i
      BY BodyType
    <3> QED  BY <3>1 DEF TxsUpTo
  <2> QED  BY <1>0, <2>3, <2>4
<1> QED  BY <1>1, <1>2 DEF Spent
-----------------------------------------------------------------------------
(***************************************************************************)
(* ConnectBlock.                                                           *)
(***************************************************************************)

BlockUndos == Seq(Seq(TxUndos))
ConnectResults == [coins : CoinSets, undo : BlockUndos, ok : BOOLEAN]

\* Connecting a transaction, in parts.
LEMMA ConnectTxType ==
  ASSUME NEW acc \in ConnectResults, NEW t \in Tx, NEW b \in Block, b # Genesis, NEW fVerifyingBlocks
  PROVE  LET r == ConnectTx(acc, t, b, fVerifyingBlocks)
             spent == SpendInputs(acc.coins, t)
         IN /\ r \in ConnectResults
            /\ r.coins = [spent.coins EXCEPT ![t] = FromTx(t, Height[b])]
            /\ r.undo = Append(acc.undo, spent.undo)
            /\ r.ok <=> acc.ok /\ AcceptTx(acc.coins, t, b, fVerifyingBlocks)
<1> DEFINE spent == SpendInputs(acc.coins, t)
           cs == [spent.coins EXCEPT ![t] = FromTx(t, Height[b])]
           us == Append(acc.undo, spent.undo)
           fine == acc.ok /\ AcceptTx(acc.coins, t, b, fVerifyingBlocks)
<1>1. acc.coins \in CoinSets /\ acc.undo \in BlockUndos
  BY DEF ConnectResults
<1>2. spent \in SpendResults
  <2>1. PICK h : SpendSteps(h, acc.coins, t)
    BY <1>1, SpendInputsSteps
  <2>2. Len(Ins[t]) \in 0 .. Len(Ins[t])
    BY TxType
  <2> QED  BY <2>1, <2>2 DEF SpendSteps
<1>3. spent.coins \in CoinSets /\ spent.undo \in Seq(TxUndos)
  BY <1>2 DEF SpendResults
<1> HIDE DEF spent
<1>4. cs \in CoinSets
  BY <1>3, BlockType, FromTxType DEF CoinSets
<1>5. us \in BlockUndos
  BY <1>1, <1>3 DEF BlockUndos
<1>6. fine \in BOOLEAN
  OBVIOUS
<1> HIDE DEF cs, us, fine
<1> DEFINE r == [coins |-> cs, undo |-> us, ok |-> fine]
<1>9. r \in ConnectResults /\ r.coins = cs /\ r.undo = us /\ r.ok = fine
  BY <1>4, <1>5, <1>6 DEF ConnectResults
<1>10. ConnectTx(acc, t, b, fVerifyingBlocks) = r
  BY DEF ConnectTx, UpdateCoins, cs, us, fine, spent
<1> HIDE DEF r
<1> QED  BY <1>9, <1>10 DEF cs, us, fine, spent

\* h[i] is what the first i transactions of b leave of cs.
ConnectSteps(h, cs, b, fVerifyingBlocks) ==
  /\ h \in [0 .. Len(Body[b]) -> ConnectResults]
  /\ h[0] = [coins |-> cs, undo |-> <<>>, ok |-> NoOverwrite(cs, b)]
  /\ h[Len(Body[b])] = ConnectBlock(cs, b, fVerifyingBlocks)
  /\ \A i \in 1 .. Len(Body[b]) : h[i] = ConnectTx(h[i - 1], Body[b][i], b, fVerifyingBlocks)

\* The loop of ConnectBlock takes these steps.
LEMMA ConnectBlockSteps ==
  ASSUME NEW cs \in CoinSets, NEW b \in Block, b # Genesis, NEW fVerifyingBlocks
  PROVE  \E h : ConnectSteps(h, cs, b, fVerifyingBlocks)
<1> DEFINE N == Len(Body[b])
           p == [coins |-> cs, undo |-> <<>>, ok |-> NoOverwrite(cs, b)]
           Step(acc, i) == ConnectTx(acc, Body[b][i], b, fVerifyingBlocks)
           F == [x \in ConnectResults \X (1 .. N) |-> Step(x[1], x[2])]
           Is(f) == f = [i \in 0 .. N |-> IF i = 0 THEN p ELSE Step(f[i - 1], i)]
           h == CHOOSE f : Is(f)
<1>1. N \in Nat /\ p \in ConnectResults
  BY BodyType DEF ConnectResults, BlockUndos, NoOverwrite
<1>2. F \in [ConnectResults \X (1 .. N) -> ConnectResults]
  <2>1. ASSUME NEW x \in ConnectResults \X (1 .. N) PROVE Step(x[1], x[2]) \in ConnectResults
    <3>1. x[1] \in ConnectResults /\ Body[b][x[2]] \in Tx
      BY BodyType
    <3> QED  BY <3>1, ConnectTxType
  <2> HIDE DEF Step
  <2> QED  BY <2>1
<1>3. PICK g : IsSteps(g, ConnectResults, N, F, p)
  <2> HIDE DEF F, N, p
  <2> QED  BY <1>1, <1>2, StepsExist
<1> USE DEF IsSteps
<1>4. \A i \in 1 .. N : g[i] = Step(g[i - 1], i)
  <2>1. \A i \in 1 .. N : <<g[i - 1], i>> \in ConnectResults \X (1 .. N)
    BY <1>1, <1>3
  <2> HIDE DEF Step, N, p
  <2> QED  BY <1>3, <2>1
<1> HIDE DEF F
<1>5. Is(g)
  <2> HIDE DEF Step, N, p
  <2>1. \A i \in 0 .. N : g[i] = IF i = 0 THEN p ELSE Step(g[i - 1], i)
    BY <1>1, <1>3, <1>4
  <2> QED  BY <1>3, <2>1
<1>6. Is(h)
  BY <1>5
<1>7. ConnectBlock(cs, b, fVerifyingBlocks) = h[N]
  BY DEF ConnectBlock
<1> HIDE DEF h
<1>8. \A i \in 0 .. N : h[i] = g[i]
  <2> HIDE DEF Step, N, p
  <2>1. h[0] = p /\ \A i \in 1 .. N : h[i] = Step(h[i - 1], i)
    BY <1>1, <1>6
  <2>2. h[0] = g[0] /\ \A i \in 1 .. N : h[i - 1] = g[i - 1] => h[i] = g[i]
    BY <1>3, <1>4, <2>1
  <2>3. N \in Nat
    BY <1>1
  <2> QED  BY ONLY <2>2, <2>3, StepsAgree
<1>9. g[N] = ConnectBlock(cs, b, fVerifyingBlocks)
  <2> HIDE DEF N
  <2> QED BY <1>1, <1>7, <1>8
<1> QED  BY <1>3, <1>4, <1>9 DEF ConnectSteps

\* A transaction that joins spends what is there, and nothing of it is spent yet.
LEMMA JoiningFacts ==
  ASSUME NEW b \in Block, b # Genesis, Sound(Parent[b]),
         NEW i \in 1 .. Len(Body[b]), JoinsUpTo(b, i)
  PROVE  LET t == Body[b][i] IN
         /\ There(Born(b, i - 1), Spent(b, i - 1), t)
         /\ Born(b, i - 1)[t] = 0
         /\ Spent(b, i)[t] = {}
         /\ BlockCoins(b, i)[t] = FromTx(t, Height[b])
<1> DEFINE t == Body[b][i]
           born == Born(b, i - 1)
           spent == Spent(b, i - 1)
<1>0. t \in Tx /\ DOMAIN Ins[t] = 1 .. Len(Ins[t]) /\ i - 1 \in 0 .. Len(Body[b]) /\ i \in 1 .. i
  BY BodyType, TxType
<1>1. /\ born \in [Tx -> Nat] /\ spent \in SpentSets
      /\ Height[b] \in Nat /\ Height[b] # 0
  BY BlockType
<1>2. JoinsUpTo(b, i - 1) /\ Joins(b, i)
  BY <1>0 DEF JoinsUpTo
<1>3. There(born, spent, t)
  BY <1>0, <1>2 DEF Joins, InputsThere, There
<1>5. born[t] = 0 /\ spent[t] = {}
  BY <1>0, <1>2, SpentWasBorn DEF Joins
<1>6. /\ Born(b, i) = [born EXCEPT ![t] = Height[b]]
      /\ Spent(b, i) = SpentBy(spent, t, Len(Ins[t]))
  BY BlockStep
<1>7. Spent(b, i)[t] = {}
  <2>1. \A k \in 1 .. Len(Ins[t]) : Ins[t][k][1] # t
    BY <1>3, <1>5 DEF There
  <2>2. \A k \in 1 .. Len(Ins[t]) : \A n : Ins[t][k] # <<t, n>>
    BY <2>1
  <2> QED  BY <1>0, <1>5, <1>6, <2>2 DEF SpentBy
<1> HIDE DEF t, born, spent
<1>8. Coin(t, Height[b], {}) = FromTx(t, Height[b])
  <2>1. Outs[t] # {} /\ Outs[t] \ {} = Outs[t]
    BY <1>0, TxType
  <2> QED  BY <1>1, <2>1 DEF Coin, FromTx
<1>9. BlockCoins(b, i)[t] = Coin(t, Born(b, i)[t], Spent(b, i)[t])
  BY <1>0 DEF BlockCoins, Shown
<1>10. Born(b, i)[t] = Height[b]
  BY <1>0, <1>1, <1>6
<1>11. BlockCoins(b, i)[t] = FromTx(t, Height[b])
  BY <1>7, <1>8, <1>9, <1>10
<1> QED  BY <1>3, <1>5, <1>7, <1>11 DEF t, born, spent


\* What the i-th transaction of b makes of the result before it.
StepsOn(lost, b, i, acc, r) ==
  /\ r.coins \in CoinSets /\ Same(lost, r.coins, BlockCoins(b, i))
  /\ \E u \in Seq(TxUndos) :
       /\ r.undo = Append(acc.undo, u)
       /\ UndoOfInputs(Born(b, i - 1), Spent(b, i - 1), Body[b][i], Len(Ins[Body[b][i]]), u)

\* A transaction that joins takes the coins a step on.
LEMMA JoiningStep ==
  ASSUME NEW lost, NEW b \in Block, b # Genesis, Sound(Parent[b]),
         NEW i \in 1 .. Len(Body[b]), JoinsUpTo(b, i),
         NEW acc \in ConnectResults, Same(lost, acc.coins, BlockCoins(b, i - 1)), NEW fVerifyingBlocks
  PROVE  StepsOn(lost, b, i, acc, ConnectTx(acc, Body[b][i], b, fVerifyingBlocks))
<1> DEFINE t == Body[b][i]
           born == Born(b, i - 1)
           spent == Spent(b, i - 1)
           r == ConnectTx(acc, t, b, fVerifyingBlocks)
           s == SpendInputs(acc.coins, t)
<1>0. t \in Tx /\ DOMAIN Ins[t] = 1 .. Len(Ins[t]) /\ i - 1 \in 0 .. Len(Body[b]) /\ i \in 1 .. i
  BY BodyType, TxType
<1>1. born \in [Tx -> Nat] /\ spent \in SpentSets
  BY BlockType
<1>2. There(born, spent, t) /\ BlockCoins(b, i)[t] = FromTx(t, Height[b])
  BY JoiningFacts
<1>4. Same(lost, acc.coins, Shown(born, spent)) /\ acc.coins \in CoinSets
  BY DEF BlockCoins, ConnectResults
<1>6. /\ Born(b, i) = [born EXCEPT ![t] = Height[b]]
      /\ Spent(b, i) = SpentBy(spent, t, Len(Ins[t]))
  BY BlockStep
<1> HIDE DEF t, born, spent
<1>8. /\ s \in SpendResults
      /\ Same(lost, s.coins, Shown(born, SpentBy(spent, t, Len(Ins[t]))))
      /\ UndoOfInputs(born, spent, t, Len(Ins[t]), s.undo)
  BY <1>0, <1>1, <1>2, <1>4, SpendsInputs
<1>9. /\ r.coins = [s.coins EXCEPT ![t] = FromTx(t, Height[b])]
      /\ r.undo = Append(acc.undo, s.undo)
      /\ r.coins \in CoinSets
  BY <1>0, ConnectTxType DEF ConnectResults
<1> HIDE DEF s, r
<1>10. Same(lost, r.coins, BlockCoins(b, i))
  <2> SUFFICES ASSUME NEW q \in Tx PROVE Like(lost, q, r.coins[q], BlockCoins(b, i)[q])
    BY SameIsLike
  <2>1. BlockCoins(b, i)[q] = Coin(q, Born(b, i)[q], Spent(b, i)[q])
    BY DEF BlockCoins, Shown
  <2>2. Like(lost, q, s.coins[q], Coin(q, born[q], Spent(b, i)[q])) /\ DOMAIN s.coins = Tx
    <3>1. Shown(born, Spent(b, i))[q] = Coin(q, born[q], Spent(b, i)[q])
      BY DEF Shown
    <3>2. Like(lost, q, s.coins[q], Shown(born, Spent(b, i))[q])
      BY <1>6, <1>8, SameIsLike
    <3> QED  BY <1>8, <3>1, <3>2 DEF SpendResults, CoinSets
  <2>3. CASE q = t
    BY <1>2, <1>9, <2>2, <2>3 DEF Like
  <2>4. CASE q # t
    BY <1>1, <1>6, <1>9, <2>1, <2>2, <2>4
  <2> QED  BY <2>3, <2>4
<1>11. s.undo \in Seq(TxUndos)
  BY <1>8 DEF SpendResults
<1> QED  BY <1>8, <1>9, <1>10, <1>11 DEF r, t, born, spent, StepsOn

\* What the coins c say of q, mined at height h, the outputs S spent.
Tells(lost, q, c, h, S) ==
  /\ c.outs = IF h = 0 THEN {} ELSE Outs[q] \ S
  /\ h # 0 /\ S # Outs[q] =>
       /\ c.height = h /\ c.base = (Kind[q] = "coinbase")
       /\ c.stake => Kind[q] = "coinstake"
       /\ q \notin lost => c.stake = (Kind[q] = "coinstake")

\* And so do coins that are the Same as those in the middle of a block.
LEMMA InputTold ==
  ASSUME NEW lost, NEW b \in Block, b # Genesis, NEW i \in 1 .. Len(Body[b]),
         NEW cs, Same(lost, cs, BlockCoins(b, i - 1)), NEW q \in Tx
  PROVE  Tells(lost, q, cs[q], Born(b, i - 1)[q], Spent(b, i - 1)[q])
<1> DEFINE h == Born(b, i - 1)[q]
           S == Spent(b, i - 1)[q]
           d == Coin(q, h, S)
           c == cs[q]
<1>1. h \in Nat
  BY BlockType
<1>2. Like(lost, q, c, d)
  <2>1. BlockCoins(b, i - 1)[q] = d
    BY DEF BlockCoins, Shown
  <2> QED  BY <2>1, SameIsLike
<1> HIDE DEF h, S
<1>3. d.outs = (IF h = 0 THEN {} ELSE Outs[q] \ S) /\ d \in CCoins
  BY <1>1, CoinOuts, CoinType
<1>4. h # 0 /\ S # Outs[q] =>
        d.height = h /\ d.base = (Kind[q] = "coinbase") /\ d.stake = (Kind[q] = "coinstake")
  BY DEF Coin, FromTx
<1> HIDE DEF d, c
<1>5. c \in CCoins /\ c.outs = d.outs /\ c.base = d.base /\ c.height = d.height
  BY <1>2, <1>3 DEF Like, Unmarked, CCoins
<1>6. /\ c.stake \in BOOLEAN /\ d.stake \in BOOLEAN
      /\ c.stake \in {d.stake, FALSE}
      /\ q \notin lost => c.stake = d.stake
  BY <1>2, <1>3 DEF Like, Unmarked, CCoins
<1>7. Tells(lost, q, c, h, S)
  BY <1>3, <1>4, <1>5, <1>6 DEF Tells
<1> QED  BY <1>7 DEF h, S, c

\* HaveInputs finds out whether the inputs are there, and CheckInputs whether they
\* have matured, unless it does not know that they have to.
LEMMA InputsChecked ==
  ASSUME NEW lost, NEW b \in Block, b # Genesis, NEW i \in 1 .. Len(Body[b]),
         NEW cs, Same(lost, cs, BlockCoins(b, i - 1))
  PROVE  LET t == Body[b][i] IN
         /\ HaveInputs(cs, t) <=> InputsThere(b, i)
         /\ InputsThere(b, i) /\ Matured(cs, t, Height[b]) => MaturedAt(lost, b, i)
         /\ /\ InputsThere(b, i) /\ MaturedAt(lost, b, i)
            /\ \A k \in DOMAIN Ins[t] : Ins[t][k][1] \notin lost
            => Matured(cs, t, Height[b])
<1> DEFINE t == Body[b][i]
<1>0. t \in Tx /\ DOMAIN Ins[t] = 1 .. Len(Ins[t]) /\ \A k \in 1 .. Len(Ins[t]) : Ins[t][k][1] \in Tx
  BY BodyType, TxType
<1>1. ASSUME NEW k \in DOMAIN Ins[t]
      PROVE  LET q == Ins[t][k][1]
                 n == Ins[t][k][2]
                 h == Born(b, i - 1)[q]
                 S == Spent(b, i - 1)[q]
             IN /\ n \in cs[q].outs <=> h # 0 /\ n \in Outs[q] \ S
                /\ h # 0 /\ n \in Outs[q] \ S =>
                     /\ cs[q].height = h /\ cs[q].base = (Kind[q] = "coinbase")
                     /\ cs[q].stake => Kind[q] = "coinstake"
                     /\ q \notin lost => cs[q].stake = (Kind[q] = "coinstake")
  <2> DEFINE q == Ins[t][k][1]
  <2>1. q \in Tx
    BY <1>0
  <2> HIDE DEF q
  <2>2. Tells(lost, q, cs[q], Born(b, i - 1)[q], Spent(b, i - 1)[q])
    BY <2>1, InputTold
  <2> QED  BY <2>2 DEF q, Tells
<1> HIDE DEF t
<1>2. HaveInputs(cs, t) <=> InputsThere(b, i)
  BY <1>1 DEF HaveInputs, InputsThere, t
<1>3. InputsThere(b, i) /\ Matured(cs, t, Height[b]) => MaturedAt(lost, b, i)
  BY <1>1 DEF InputsThere, Matured, MaturedAt, t
<1>4. /\ InputsThere(b, i) /\ MaturedAt(lost, b, i)
      /\ \A k \in DOMAIN Ins[t] : Ins[t][k][1] \notin lost
      => Matured(cs, t, Height[b])
  BY <1>1 DEF InputsThere, Matured, MaturedAt, t
<1> QED  BY <1>2, <1>3, <1>4 DEF t

\* What spends something cannot do it twice.
LEMMA SpenderIsNew ==
  ASSUME NEW b \in Block, b # Genesis, NEW i \in 1 .. Len(Body[b]), InputsThere(b, i),
         Ins[Body[b][i]] # <<>>
  PROVE  Born(b, i - 1)[Body[b][i]] = 0
<1> DEFINE t == Body[b][i]
           q == Ins[t][1][1]
           n == Ins[t][1][2]
<1>0. t \in Tx /\ 1 \in DOMAIN Ins[t] /\ q \in Tx /\ Ins[t][1] = <<q, n>> /\ Parent[b] \in Block
  <2>1. t \in Tx /\ Parent[b] \in Block
    BY BodyType, ChainStep
  <2>2. Ins[t] \in Seq(Tx \X Nat) /\ Ins[t] # <<>>
    BY <2>1, TxType
  <2>3. 1 \in DOMAIN Ins[t] /\ 1 \in 1 .. Len(Ins[t])
    BY <2>2
  <2> QED  BY <2>1, <2>3, TxType
<1>1. n \in Outs[q] /\ n \notin SpentAt(Parent[b], q) /\ n \notin SpentIn(b, i - 1, q)
  BY <1>0 DEF InputsThere, Spent
<1>2. Uses(t, q, n)
  BY <1>0 DEF Uses
<1> HIDE DEF t, q, n
<1>3. t \notin TxsUpTo(b, i - 1)
  BY <1>1, <1>2 DEF TxsUpTo, SpentIn
<1>4. BlocksOf(Parent[b], t) = {}
  BY <1>1, <1>2 DEF BlocksOf, SpentAt, Uses
<1> QED  BY <1>0, <1>3, <1>4, BlockType DEF t


\* ConnectBlock let the i-th transaction of b in.
Accepted(lost, b, i, fVerifyingBlocks) ==
  \E c \in CoinSets : Same(lost, c, BlockCoins(b, i - 1)) /\ AcceptTx(c, Body[b][i], b, fVerifyingBlocks)

\* What ConnectBlock accepts belongs there.
AcceptedJoin(lost, b, fVerifyingBlocks) ==
  \A i \in 1 .. Len(Body[b]) :
    JoinsUpTo(b, i - 1) /\ Accepted(lost, b, i, fVerifyingBlocks) => Joins(b, i)

\* And its rewards are left to mature.
LEMMA AcceptedMatured ==
  ASSUME NEW lost, NEW b \in Block, b # Genesis, NEW i \in 1 .. Len(Body[b]), NEW fVerifyingBlocks,
         InputsThere(b, i), Accepted(lost, b, i, fVerifyingBlocks)
  PROVE  MaturedAt(lost, b, i)
<1>1. PICK c \in CoinSets : /\ Same(lost, c, BlockCoins(b, i - 1))
                            /\ AcceptTx(c, Body[b][i], b, fVerifyingBlocks)
  BY DEF Accepted
<1>2. Body[b][i] \in Tx
  BY BodyType
<1>3. CASE Kind[Body[b][i]] \in {"spend", "coinbase"}
  <2>1. DOMAIN Ins[Body[b][i]] = {}
    BY <1>2, <1>3, TxType
  <2> QED  BY <2>1 DEF MaturedAt
<1>4. CASE Kind[Body[b][i]] \notin {"spend", "coinbase"}
  BY <1>1, <1>4, InputsChecked DEF AcceptTx
<1> QED  BY <1>3, <1>4

\* What a ConnectBlock that succeeds makes of the coins.
LEMMA ConnectBlockGood ==
  ASSUME NEW lost, NEW b \in Block, b # Genesis, Sound(Parent[b]), NEW fVerifyingBlocks,
         NEW cs \in CoinSets, Same(lost, cs, CoinsAt[Parent[b]]),
         AcceptedJoin(lost, b, fVerifyingBlocks), ConnectBlock(cs, b, fVerifyingBlocks).ok
  PROVE  LET r == ConnectBlock(cs, b, fVerifyingBlocks) IN
         /\ JoinsUpTo(b, Len(Body[b]))
         /\ r.coins \in CoinSets /\ Same(lost, r.coins, CoinsAt[b])
         /\ r.undo \in BlockUndos /\ UndoUpTo(b, Len(Body[b]), r.undo)
         /\ \A i \in 1 .. Len(Body[b]) : Accepted(lost, b, i, fVerifyingBlocks)
<1> DEFINE N == Len(Body[b])
           Accept(i) == Accepted(lost, b, i, fVerifyingBlocks)
<1>0. /\ N \in Nat /\ Same(lost, cs, BlockCoins(b, 0))
      /\ \A i \in 1 .. N : Body[b][i] \in Tx
  BY BodyType, BlockBegins
<1>1. PICK h : ConnectSteps(h, cs, b, fVerifyingBlocks)
  BY ConnectBlockSteps
<1> DEFINE Good(i) == h[i].ok => /\ JoinsUpTo(b, i)
                                 /\ Same(lost, h[i].coins, BlockCoins(b, i))
                                 /\ Len(h[i].undo) = i
                                 /\ UndoUpTo(b, i, h[i].undo)
                                 /\ \A j \in 1 .. i : Accept(j)
           S == {i \in 0 .. N : Good(i)}
<1>2. 0 \in S
  <2>1. h[0].coins = cs /\ h[0].undo = <<>> /\ 1 .. 0 = {}
    BY <1>1 DEF ConnectSteps
  <2>2. Good(0)
    BY <1>0, <2>1 DEF JoinsUpTo, UndoUpTo
  <2> HIDE DEF Good
  <2> QED  BY <1>0, <2>2
<1>3. ASSUME NEW i \in 1 .. N, i - 1 \in S PROVE i \in S
  <2> DEFINE t == Body[b][i]
  <2>0. i - 1 \in 0 .. N /\ i \in 0 .. N /\ t \in Tx /\ \A j : j \in 1 .. i <=> j \in 1 .. i - 1 \/ j = i
    BY <1>0
  <2>1. h[i] = ConnectTx(h[i - 1], t, b, fVerifyingBlocks) /\ h[i - 1] \in ConnectResults
    BY <1>1, <2>0 DEF ConnectSteps
  <2>2. h[i].ok <=> h[i - 1].ok /\ AcceptTx(h[i - 1].coins, t, b, fVerifyingBlocks)
    <3>1. h[i - 1] \in ConnectResults /\ t \in Tx /\ b \in Block /\ b # Genesis
      BY <2>0, <2>1
    <3> HIDE DEF t
    <3>2. ConnectTx(h[i - 1], t, b, fVerifyingBlocks).ok
          <=> h[i - 1].ok /\ AcceptTx(h[i - 1].coins, t, b, fVerifyingBlocks)
      BY ONLY <3>1, ConnectTxType
    <3> QED  BY ONLY <2>1, <3>2
  <2> SUFFICES ASSUME h[i].ok PROVE Good(i)
    BY <2>0
  <2>3. /\ h[i - 1].ok /\ JoinsUpTo(b, i - 1) /\ Same(lost, h[i - 1].coins, BlockCoins(b, i - 1))
        /\ Len(h[i - 1].undo) = i - 1 /\ UndoUpTo(b, i - 1, h[i - 1].undo)
        /\ \A j \in 1 .. i - 1 : Accept(j)
    BY <1>3, <2>2
  <2>4. Accept(i)
    <3>1. h[i - 1].coins \in CoinSets
      BY <2>1 DEF ConnectResults
    <3> QED  BY <2>2, <2>3, <3>1 DEF Accepted
  <2>5. JoinsUpTo(b, i)
    <3> HIDE DEF Accept
    <3>1. Joins(b, i)
      BY <2>3, <2>4 DEF AcceptedJoin, Accept
    <3> QED  BY <2>0, <2>3, <3>1 DEF JoinsUpTo
  <2>6. StepsOn(lost, b, i, h[i - 1], h[i])
    <3>1. i \in 1 .. Len(Body[b]) /\ Sound(Parent[b])
      OBVIOUS
    <3> QED  BY ONLY b \in Block, b # Genesis, <2>1, <2>3, <2>5, <3>1, JoiningStep DEF t
  <2>7. PICK u \in Seq(TxUndos) :
             /\ h[i].undo = Append(h[i - 1].undo, u)
             /\ UndoOfInputs(Born(b, i - 1), Spent(b, i - 1), t, Len(Ins[t]), u)
    BY <2>6 DEF StepsOn
  <2>8. h[i - 1].undo \in BlockUndos
    BY <2>1 DEF ConnectResults
  <2>9. Len(h[i].undo) = i /\ h[i].undo[i] = u /\ \A j \in 1 .. i - 1 : h[i].undo[j] = h[i - 1].undo[j]
    BY <2>0, <2>3, <2>7, <2>8 DEF BlockUndos
  <2>10. UndoUpTo(b, i, h[i].undo)
    <3> SUFFICES ASSUME NEW j \in 1 .. i
                 PROVE  UndoOfInputs(Born(b, j - 1), Spent(b, j - 1), Body[b][j], Len(Ins[Body[b][j]]), h[i].undo[j])
      BY DEF UndoUpTo
    <3>1. CASE j = i
      BY <2>7, <2>9, <3>1
    <3>2. CASE j # i
      <4>1. j \in 1 .. i - 1
        BY <2>0, <3>2
      <4> QED  BY <2>3, <2>9, <4>1 DEF UndoUpTo
    <3> QED  BY <3>1, <3>2
  <2>11. \A j \in 1 .. i : Accept(j)
    <3> HIDE DEF Accept
    <3> QED  BY <2>0, <2>3, <2>4
  <2>12. Same(lost, h[i].coins, BlockCoins(b, i))
    BY <2>6 DEF StepsOn
  <2> HIDE DEF Accept
  <2> QED  BY <2>5, <2>9, <2>10, <2>11, <2>12
<1>4. 0 .. N \subseteq S
  <2> HIDE DEF S, N
  <2> QED  BY <1>0, <1>2, <1>3, UpTo
<1> DEFINE r == ConnectBlock(cs, b, fVerifyingBlocks)
<1>5. r = h[N] /\ r \in ConnectResults /\ N \in S /\ r.ok
  <2>1. N \in 0 .. N
    BY <1>0
  <2> QED  BY <1>1, <1>4, <2>1 DEF ConnectSteps
<1> HIDE DEF r, Accept
<1>6. /\ JoinsUpTo(b, N) /\ Same(lost, r.coins, BlockCoins(b, N)) /\ UndoUpTo(b, N, r.undo)
      /\ \A j \in 1 .. N : Accept(j)
  BY <1>5
<1>7. Same(lost, r.coins, CoinsAt[b])
  BY <1>6, BlockEnds
<1>8. r.undo \in BlockUndos /\ r.coins \in CoinSets
  BY <1>5 DEF ConnectResults
<1> QED  BY <1>6, <1>7, <1>8 DEF r, Accept

\* A block of which every transaction joins is connected if its serials are new and
\* it spends no coinstake that may have lost its mark.
LEMMA ConnectBlockPasses ==
  ASSUME NEW lost, NEW b \in Block, b # Genesis, Sound(b), NEW fVerifyingBlocks,
         NEW cs \in CoinSets, Same(lost, cs, CoinsAt[Parent[b]]),
         \A i \in 1 .. Len(Body[b]) : LET t == Body[b][i] IN
           /\ MaturedAt(lost, b, i)
           /\ \A k \in DOMAIN Ins[t] : Ins[t][k][1] \notin lost
           /\ Kind[t] = "spend" => \A c \in CoinSets : AcceptTx(c, t, b, fVerifyingBlocks)
  PROVE  ConnectBlock(cs, b, fVerifyingBlocks).ok
<1> DEFINE N == Len(Body[b])
<1>0. /\ N \in Nat /\ Same(lost, cs, BlockCoins(b, 0))
      /\ \A i \in 1 .. N : Body[b][i] \in Tx
      /\ Parent[b] \in Block
  BY BodyType, BlockBegins, ChainStep
<1>1. Sound(Parent[b]) /\ JoinsUpTo(b, N)
  BY ChainStep DEF Sound
<1>2. ASSUME NEW i \in 1 .. N, NEW c \in CoinSets, Same(lost, c, BlockCoins(b, i - 1))
      PROVE  AcceptTx(c, Body[b][i], b, fVerifyingBlocks)
  <2>1. CASE Kind[Body[b][i]] = "spend"
    BY <2>1
  <2>2. CASE Kind[Body[b][i]] = "coinbase"
    BY <2>2 DEF AcceptTx
  <2>3. CASE Kind[Body[b][i]] \notin {"spend", "coinbase"}
    <3>1. InputsThere(b, i)
      BY <1>1 DEF JoinsUpTo, Joins
    <3>2. HaveInputs(c, Body[b][i]) /\ Matured(c, Body[b][i], Height[b])
      BY <1>2, <3>1, InputsChecked
    <3> QED  BY <2>3, <3>2 DEF AcceptTx
  <2> QED  BY <2>1, <2>2, <2>3
<1>3. NoOverwrite(cs, b)
  <2> SUFFICES ASSUME NEW t \in Txs(b) PROVE cs[t].outs = {}
    BY DEF NoOverwrite
  <2>1. PICK i \in 1 .. N : t = Body[b][i] /\ t \in Tx
    BY BodyType
  <2>2. Born(b, i - 1)[t] = 0
    BY <1>1, <2>1 DEF JoinsUpTo, Joins
  <2>3. BornAt(Parent[b], t) = 0
    <3>1. BlocksOf(Parent[b], t) = {}
      BY <2>1, <2>2, BlockType
    <3> QED  BY <1>0, <2>1, <3>1, BlocksOfType
  <2>4. BlockCoins(b, 0)[t] = NoCoins
    <3>1. Born(b, 0)[t] = 0
      BY <2>1, <2>3 DEF Born, TxsUpTo
    <3> QED  BY <2>1, <3>1 DEF BlockCoins, Shown, Coin
  <2> DEFINE c == cs[t]
  <2>5. Like(lost, t, c, NoCoins)
    BY <1>0, <2>1, <2>4, SameIsLike
  <2> HIDE DEF c
  <2>6. c.outs = NoCoins.outs
    BY <2>5 DEF Like, Unmarked, NoCoins
  <2> QED  BY <2>6 DEF NoCoins, c
<1>4. PICK h : ConnectSteps(h, cs, b, fVerifyingBlocks)
  BY ConnectBlockSteps
<1> DEFINE S == {i \in 0 .. N : h[i].ok /\ Same(lost, h[i].coins, BlockCoins(b, i))}
<1>5. 0 \in S
  BY <1>0, <1>3, <1>4 DEF ConnectSteps
<1>6. ASSUME NEW i \in 1 .. N, i - 1 \in S PROVE i \in S
  <2> DEFINE t == Body[b][i]
  <2>1. i - 1 \in 0 .. N /\ i \in 0 .. N /\ 1 .. i \subseteq 1 .. N /\ t \in Tx
    BY <1>0
  <2>2. h[i] = ConnectTx(h[i - 1], t, b, fVerifyingBlocks) /\ h[i - 1] \in ConnectResults
    BY <1>4, <2>1 DEF ConnectSteps
  <2>3. h[i].ok <=> h[i - 1].ok /\ AcceptTx(h[i - 1].coins, t, b, fVerifyingBlocks)
    <3>1. h[i - 1] \in ConnectResults /\ t \in Tx /\ b \in Block /\ b # Genesis
      BY <2>1, <2>2
    <3> HIDE DEF t
    <3>2. ConnectTx(h[i - 1], t, b, fVerifyingBlocks).ok
          <=> h[i - 1].ok /\ AcceptTx(h[i - 1].coins, t, b, fVerifyingBlocks)
      BY ONLY <3>1, ConnectTxType
    <3> QED  BY ONLY <2>2, <3>2
  <2>4. JoinsUpTo(b, i)
    BY <1>1, <2>1 DEF JoinsUpTo
  <2>5. h[i - 1].ok /\ Same(lost, h[i - 1].coins, BlockCoins(b, i - 1)) /\ h[i - 1].coins \in CoinSets
    BY <1>6, <2>2 DEF ConnectResults
  <2>6. Same(lost, h[i].coins, BlockCoins(b, i))
    <3>1. i \in 1 .. Len(Body[b])
      OBVIOUS
    <3>2. StepsOn(lost, b, i, h[i - 1], h[i])
      BY ONLY b \in Block, b # Genesis, <1>1, <2>2, <2>4, <2>5, <3>1, JoiningStep DEF t
    <3> QED  BY <3>2 DEF StepsOn
  <2>7. h[i].ok
    BY <1>2, <2>3, <2>5
  <2> QED  BY <2>1, <2>6, <2>7
<1>7. 0 .. N \subseteq S
  <2> HIDE DEF S, N
  <2> QED  BY <1>0, <1>5, <1>6, UpTo
<1>8. N \in S
  BY <1>0, <1>7
<1> QED  BY <1>4, <1>8 DEF ConnectSteps
-----------------------------------------------------------------------------
(***************************************************************************)
(* DisconnectBlock.                                                        *)
(***************************************************************************)

UndoResults == [coins : CoinSets, clean : BOOLEAN]

\* u has a record for every input of t.
Readable(u, t) == \A j \in 1 .. Len(Ins[t]) : u[j].height \in Nat /\ u[j].base \in BOOLEAN

\* Undo data that fits has.
LEMMA FittingIsReadable ==
  ASSUME NEW born \in [Tx -> Nat], NEW spent, NEW t \in Tx, NEW u,
         UndoOfInputs(born, spent, t, Len(Ins[t]), u)
  PROVE  Readable(u, t)
<1> SUFFICES ASSUME NEW j \in 1 .. Len(Ins[t]) PROVE u[j].height \in Nat /\ u[j].base \in BOOLEAN
  BY DEF Readable
<1> DEFINE q == Ins[t][j][1]
           n == Ins[t][j][2]
           c == Coin(q, born[q], SpentBy(spent, t, j - 1)[q])
<1>1. q \in Tx /\ n \in Nat
  BY TxType
<1>2. Undoes(u[j], c, n)
  BY DEF UndoOfInputs
<1>3. UndoOf(c, n) \in TxUndos
  <2>1. c \in CCoins
    <3> HIDE DEF q
    <3> QED  BY <1>1, CoinType
  <2> HIDE DEF c, n
  <2> QED  BY <1>1, <2>1, SpendType
<1> HIDE DEF c, n
<1> QED  BY <1>2, <1>3 DEF Undoes, TxUndos

\* Restoring an input leaves coins, and so does taking a transaction away.
LEMMA RestoreInputType ==
  ASSUME NEW acc \in UndoResults, NEW in \in Tx \X Nat, NEW v, v.height \in Nat, v.base \in BOOLEAN
  PROVE  RestoreInput(acc, in, v) \in UndoResults
<1> DEFINE q == in[1]
           n == in[2]
           c == acc.coins[q]
           last == v.height # 0
           new == IF last THEN Restored(v) ELSE c
           back == [new EXCEPT !.outs = @ \cup {n}]
<1>1. q \in Tx /\ n \in Nat /\ acc.coins \in CoinSets /\ acc.clean \in BOOLEAN
  BY DEF UndoResults
<1>2. c \in CCoins
  BY <1>1 DEF CoinSets
<1>3. Restored(v) \in CCoins
  BY DEF Restored, CCoins
<1>4. new \in CCoins
  BY <1>2, <1>3
<1> HIDE DEF new, q, n
<1>5. back \in CCoins
  BY <1>1, <1>4 DEF CCoins
<1>6. [acc.coins EXCEPT ![q] = back] \in CoinSets
  BY <1>1, <1>5 DEF CoinSets
<1> QED  BY <1>1, <1>6 DEF RestoreInput, UndoResults, new, q, n

LEMMA RemoveTxType ==
  ASSUME NEW acc \in UndoResults, NEW t \in Tx, NEW h
  PROVE  RemoveTx(acc, t, h) \in UndoResults
BY NoCoinsType DEF RemoveTx, UndoResults, CoinSets

\* g[k] is what is left of acc when t and its last k inputs are undone.
UndoTxSteps(g, acc, t, u, h) ==
  /\ g \in [0 .. Len(Ins[t]) -> UndoResults]
  /\ g[0] = RemoveTx(acc, t, h)
  /\ g[Len(Ins[t])] = UndoTx(acc, t, u, h)
  /\ \A k \in 1 .. Len(Ins[t]) : LET j == Len(Ins[t]) + 1 - k IN
       g[k] = RestoreInput(g[k - 1], Ins[t][j], u[j])

\* The loop over the inputs takes these steps.
LEMMA UndoTxTakesSteps ==
  ASSUME NEW acc \in UndoResults, NEW t \in Tx, NEW u, Readable(u, t), NEW ht
  PROVE  \E g : UndoTxSteps(g, acc, t, u, ht)
<1> DEFINE N == Len(Ins[t])
           p == RemoveTx(acc, t, ht)
           Step(a, k) == LET j == N + 1 - k IN RestoreInput(a, Ins[t][j], u[j])
           F == [x \in UndoResults \X (1 .. N) |-> Step(x[1], x[2])]
           Is(f) == f = [k \in 0 .. N |-> IF k = 0 THEN p ELSE Step(f[k - 1], k)]
           h == CHOOSE f : Is(f)
<1>1. N \in Nat /\ p \in UndoResults
  BY TxType, RemoveTxType
<1>2. F \in [UndoResults \X (1 .. N) -> UndoResults]
  <2>1. ASSUME NEW x \in UndoResults \X (1 .. N) PROVE Step(x[1], x[2]) \in UndoResults
    <3> DEFINE j == N + 1 - x[2]
    <3>1. x[1] \in UndoResults /\ j \in 1 .. Len(Ins[t]) /\ j \in DOMAIN Ins[t]
      BY TxType
    <3>2. Ins[t][j] \in Tx \X Nat /\ u[j].height \in Nat /\ u[j].base \in BOOLEAN
      BY <3>1, TxType DEF Readable
    <3> HIDE DEF j
    <3>3. RestoreInput(x[1], Ins[t][j], u[j]) \in UndoResults
      BY <3>1, <3>2, RestoreInputType
    <3> QED  BY <3>3 DEF j
  <2> HIDE DEF Step
  <2> QED  BY <2>1
<1>3. PICK g : IsSteps(g, UndoResults, N, F, p)
  <2> HIDE DEF F, N, p
  <2> QED  BY <1>1, <1>2, StepsExist
<1> USE DEF IsSteps
<1>4. \A k \in 1 .. N : g[k] = Step(g[k - 1], k)
  <2>1. \A k \in 1 .. N : <<g[k - 1], k>> \in UndoResults \X (1 .. N)
    <3>1. N \in Nat /\ g \in [0 .. N -> UndoResults]
      BY <1>1, <1>3
    <3> HIDE DEF N, F, p
    <3> QED  BY ONLY <3>1
  <2> HIDE DEF Step, N, p
  <2> QED  BY <1>3, <2>1
<1> HIDE DEF F
<1>5. Is(g)
  <2> HIDE DEF Step, N, p
  <2>1. \A k \in 0 .. N : g[k] = IF k = 0 THEN p ELSE Step(g[k - 1], k)
    BY <1>1, <1>3, <1>4
  <2> QED  BY <1>3, <2>1
<1>6. Is(h)
  BY <1>5
<1>7. UndoTx(acc, t, u, ht) = h[N]
  BY DEF UndoTx
<1> HIDE DEF h
<1>8. \A k \in 0 .. N : h[k] = g[k]
  <2> HIDE DEF Step, N, p
  <2>1. h[0] = p /\ \A k \in 1 .. N : h[k] = Step(h[k - 1], k)
    BY <1>1, <1>6
  <2>2. h[0] = g[0] /\ \A k \in 1 .. N : h[k - 1] = g[k - 1] => h[k] = g[k]
    BY <1>3, <1>4, <2>1
  <2>3. N \in Nat
    BY <1>1
  <2> QED  BY ONLY <2>2, <2>3, StepsAgree
<1>9. g[N] = UndoTx(acc, t, u, ht)
  <2> HIDE DEF N
  <2> QED BY <1>1, <1>7, <1>8
<1> QED  BY <1>3, <1>4, <1>9 DEF UndoTxSteps

\* So it leaves coins.
LEMMA UndoTxType ==
  ASSUME NEW acc \in UndoResults, NEW t \in Tx, NEW u, Readable(u, t), NEW h
  PROVE  UndoTx(acc, t, u, h) \in UndoResults
<1>1. PICK g : UndoTxSteps(g, acc, t, u, h)
  BY UndoTxTakesSteps
<1>2. Len(Ins[t]) \in 0 .. Len(Ins[t])
  BY TxType
<1> QED  BY <1>1, <1>2 DEF UndoTxSteps

\* g[k] is what is left of cs when the last k transactions of b are undone.
DisconnectSteps(g, cs, b) ==
  /\ g \in [0 .. Len(Body[b]) -> UndoResults]
  /\ g[0] = [coins |-> cs, clean |-> TRUE]
  /\ g[Len(Body[b])] = DisconnectBlock(cs, b)
  /\ \A k \in 1 .. Len(Body[b]) : LET i == Backward(b, k) IN
       g[k] = UndoTx(g[k - 1], Body[b][i], undo[b][i], Height[b])

\* The loop over the transactions takes these steps.
LEMMA DisconnectTakesSteps ==
  ASSUME NEW cs \in CoinSets, NEW b \in Block, b # Genesis,
         \A i \in 1 .. Len(Body[b]) : Readable(undo[b][i], Body[b][i])
  PROVE  \E g : DisconnectSteps(g, cs, b)
<1> DEFINE N == Len(Body[b])
           p == [coins |-> cs, clean |-> TRUE]
           Step(a, k) == LET i == Backward(b, k) IN UndoTx(a, Body[b][i], undo[b][i], Height[b])
           F == [x \in UndoResults \X (1 .. N) |-> Step(x[1], x[2])]
           Is(f) == f = [k \in 0 .. N |-> IF k = 0 THEN p ELSE Step(f[k - 1], k)]
           h == CHOOSE f : Is(f)
<1>1. N \in Nat /\ p \in UndoResults
  BY BodyType DEF UndoResults
<1>2. F \in [UndoResults \X (1 .. N) -> UndoResults]
  <2>1. ASSUME NEW x \in UndoResults \X (1 .. N) PROVE Step(x[1], x[2]) \in UndoResults
    <3> DEFINE i == Backward(b, x[2])
    <3>1. x[1] \in UndoResults /\ i \in 1 .. Len(Body[b])
      BY BodyType DEF Backward
    <3>2. Body[b][i] \in Tx /\ Readable(undo[b][i], Body[b][i])
      BY <3>1, BodyType
    <3> HIDE DEF i
    <3>3. UndoTx(x[1], Body[b][i], undo[b][i], Height[b]) \in UndoResults
      BY <3>1, <3>2, UndoTxType
    <3> QED  BY <3>3 DEF i
  <2> HIDE DEF Step
  <2> QED  BY <2>1
<1>3. PICK g : IsSteps(g, UndoResults, N, F, p)
  <2> HIDE DEF F, N, p
  <2> QED  BY <1>1, <1>2, StepsExist
<1> USE DEF IsSteps
<1>4. \A k \in 1 .. N : g[k] = Step(g[k - 1], k)
  <2>1. \A k \in 1 .. N : <<g[k - 1], k>> \in UndoResults \X (1 .. N)
    <3>1. N \in Nat /\ g \in [0 .. N -> UndoResults]
      BY <1>1, <1>3
    <3> HIDE DEF N, F, p
    <3> QED  BY ONLY <3>1
  <2> HIDE DEF Step, N, p
  <2> QED  BY <1>3, <2>1
<1> HIDE DEF F
<1>5. Is(g)
  <2> HIDE DEF Step, N, p
  <2>1. \A k \in 0 .. N : g[k] = IF k = 0 THEN p ELSE Step(g[k - 1], k)
    BY <1>1, <1>3, <1>4
  <2> QED  BY <1>3, <2>1
<1>6. Is(h)
  BY <1>5
<1>7. DisconnectBlock(cs, b) = h[N]
  BY DEF DisconnectBlock
<1> HIDE DEF h
<1>8. \A k \in 0 .. N : h[k] = g[k]
  <2> HIDE DEF Step, N, p
  <2>1. h[0] = p /\ \A k \in 1 .. N : h[k] = Step(h[k - 1], k)
    BY <1>1, <1>6
  <2>2. h[0] = g[0] /\ \A k \in 1 .. N : h[k - 1] = g[k - 1] => h[k] = g[k]
    BY <1>3, <1>4, <2>1
  <2>3. N \in Nat
    BY <1>1
  <2> QED  BY ONLY <2>2, <2>3, StepsAgree
<1>9. g[N] = DisconnectBlock(cs, b)
  <2> HIDE DEF N
  <2> QED BY <1>1, <1>7, <1>8
<1> QED  BY <1>3, <1>4, <1>9 DEF DisconnectSteps

\* Restoring the last output of a transaction restores all but the mark of a
\* coinstake, and restoring another one keeps what there is.
LEMMA RestoredCoin ==
  ASSUME NEW lost, NEW q \in Tx, NEW h \in Nat, h # 0, NEW S \in SUBSET Outs[q],
         NEW n \in Outs[q] \ S, NEW v, Undoes(v, Coin(q, h, S), n),
         Kind[q] = "coinstake" /\ v.height # 0 => q \in lost,
         NEW c, Like(lost, q, c, Coin(q, h, S \cup {n}))
  PROVE  LET last == v.height # 0
             new == IF last THEN Restored(v) ELSE c
         IN /\ Like(lost, q, [new EXCEPT !.outs = @ \cup {n}], Coin(q, h, S))
            /\ (v.height # 0) <=> (c.outs = {})
            /\ n \notin c.outs
<1>0. PICK no : no = FALSE
  OBVIOUS
<1> DEFINE e == Coin(q, h, S)
           d == Coin(q, h, S \cup {n})
           last == v.height # 0
           new == IF last THEN Restored(v) ELSE c
           back == [new EXCEPT !.outs = @ \cup {n}]
           base == Kind[q] = "coinbase"
           mark == Kind[q] = "coinstake"
           Left(X, stake) == [outs |-> X, base |-> base, stake |-> stake, height |-> h]
<1>1. e = Left(Outs[q] \ S, mark)
  BY DEF Coin, FromTx
<1>2. d.outs = Outs[q] \ (S \cup {n}) /\ d \in CCoins
  BY CoinOuts, CoinType
<1>3. c.outs = d.outs
  BY <1>2 DEF Like, Unmarked, CCoins
<1>4. (Outs[q] \ S = {n}) <=> (c.outs = {})
  BY <1>2, <1>3
<1>5. /\ v.height = IF e.outs = {n} THEN e.height ELSE 0
      /\ e.outs = {n} => v.base = e.base
  BY DEF Undoes, UndoOf
<1>6. e \in CCoins
  BY CoinType
<1> HIDE DEF e, d, base, mark
<1>7. /\ e.outs = Outs[q] \ S /\ e.height = h /\ e.base = base
      /\ last <=> (Outs[q] \ S = {n})
  BY <1>1, <1>5
<1>8. \A x \in CCoins : Unmarked(x) = [outs |-> x.outs, base |-> x.base, stake |-> no, height |-> x.height]
  BY <1>0, UnmarkedFields
<1>9. Unmarked(e) = Left(Outs[q] \ S, no)
  BY <1>6, <1>7, <1>8
<1>10. Like(lost, q, back, e)
  <2>1. CASE Outs[q] \ S = {n}
    <3>1. v.height = h /\ v.base = base
      BY <1>5, <1>7, <2>1
    <3>2. Restored(v) = Left({}, no)
      BY <1>0, <3>1 DEF Restored
    <3>3. new = Left({}, no)
      BY <1>7, <2>1, <3>2
    <3> HIDE DEF new
    <3>4. back = Left({} \cup {n}, no)
      BY <3>3
    <3>5. back = Left(Outs[q] \ S, no)
      BY <2>1, <3>4
    <3>6. CASE mark
      <4>1. q \in lost
        BY <1>7, <2>1, <3>6 DEF mark
      <4> HIDE DEF back, Left
      <4> QED  BY <1>9, <3>5, <4>1 DEF Like
    <3>7. CASE ~mark
      <4>1. no = mark
        BY <1>0, <3>7 DEF mark
      <4> HIDE DEF back, Left
      <4> QED  BY <1>1, <3>5, <4>1 DEF Like
    <3> QED  BY <3>6, <3>7
  <2>2. CASE Outs[q] \ S # {n}
    <3>1. new = c /\ S \cup {n} # Outs[q]
      BY <1>7, <2>2
    <3>2. d = Left(Outs[q] \ (S \cup {n}), mark)
      BY <3>1 DEF Coin, FromTx, d, mark, base
    <3>3. (Outs[q] \ (S \cup {n})) \cup {n} = Outs[q] \ S
      OBVIOUS
    <3> HIDE DEF new
    <3>4. CASE c = d
      <4>1. back = Left((Outs[q] \ (S \cup {n})) \cup {n}, mark)
        BY <3>1, <3>2, <3>4
      <4> HIDE DEF back, Left
      <4> QED  BY <1>1, <3>3, <4>1 DEF Like
    <3>5. CASE q \in lost /\ c = Unmarked(d)
      <4>1. c = Left(Outs[q] \ (S \cup {n}), no)
        BY <1>2, <1>8, <3>2, <3>5
      <4>2. back = Left((Outs[q] \ (S \cup {n})) \cup {n}, no)
        BY <3>1, <4>1
      <4> HIDE DEF back, Left
      <4> QED  BY <1>9, <3>3, <3>5, <4>2 DEF Like
    <3>6. Like(lost, q, c, d)
      BY DEF d
    <3> QED  BY <3>4, <3>5, <3>6 DEF Like
  <2> QED  BY <2>1, <2>2
<1>11. n \notin c.outs
  BY <1>2, <1>3
<1> QED  BY <1>4, <1>7, <1>10, <1>11 DEF e

\* Restoring an input undoes spending it.
LEMMA RestoreSame ==
  ASSUME NEW lost, NEW born \in [Tx -> Nat], NEW sp \in SpentSets, NEW q \in Tx, born[q] # 0,
         NEW n \in Outs[q] \ sp[q], NEW v, Undoes(v, Coin(q, born[q], sp[q]), n),
         v.height = 0 \/ Kind[q] # "coinstake" \/ q \in lost,
         NEW acc \in UndoResults, Same(lost, acc.coins, Shown(born, With(sp, q, n))),
         NEW in, in = <<q, n>>
  PROVE  LET r == RestoreInput(acc, in, v) IN
         Same(lost, r.coins, Shown(born, sp)) /\ (acc.clean => r.clean)
<1> DEFINE h == born[q]
           S == sp[q]
           c == acc.coins[q]
           last == v.height # 0
           new == IF last THEN Restored(v) ELSE c
           back == [new EXCEPT !.outs = @ \cup {n}]
           r == RestoreInput(acc, in, v)
<1>1. /\ h \in Nat /\ S \in SUBSET Outs[q] /\ n \in Outs[q] \ S /\ DOMAIN sp = Tx
      /\ acc.coins \in CoinSets /\ acc.clean \in BOOLEAN
  BY DEF SpentSets, UndoResults
<1>2. Shown(born, With(sp, q, n))[q] = Coin(q, h, S \cup {n})
  BY <1>1 DEF Shown, With
<1>3. Like(lost, q, c, Coin(q, h, S \cup {n}))
  BY <1>2, SameIsLike
<1>4. /\ Like(lost, q, back, Coin(q, h, S))
      /\ last <=> (c.outs = {})
      /\ n \notin c.outs
  <2> HIDE DEF h, S, c
  <2> QED  BY <1>1, <1>3, RestoredCoin DEF h, S
<1>5. r.coins = [acc.coins EXCEPT ![q] = back]
  BY DEF RestoreInput
<1>6. r.clean = acc.clean
  <2>1. r.clean = (acc.clean /\ last = (c.outs = {}) /\ n \notin c.outs)
    BY DEF RestoreInput
  <2>2. (acc.clean /\ last = (c.outs = {}) /\ n \notin c.outs) = acc.clean
    <3>1. last \in BOOLEAN
      OBVIOUS
    <3> HIDE DEF last, c
    <3> QED  BY <1>1, <1>4, <3>1
  <2> HIDE DEF r, last, c
  <2> QED  BY <2>1, <2>2
<1> HIDE DEF back, r
<1>7. Same(lost, r.coins, Shown(born, sp))
  <2> SUFFICES ASSUME NEW p \in Tx PROVE Like(lost, p, r.coins[p], Shown(born, sp)[p])
    BY SameIsLike
  <2>1. CASE p = q
    <3>1. Shown(born, sp)[p] = Coin(q, h, S)
      BY <2>1 DEF Shown
    <3>2. r.coins[p] = back
      BY <1>1, <1>5, <2>1 DEF CoinSets
    <3> QED  BY <1>4, <2>1, <3>1, <3>2
  <2>2. CASE p # q
    <3>1. r.coins[p] = acc.coins[p]
      BY <1>1, <1>5, <2>2 DEF CoinSets
    <3>2. Shown(born, With(sp, q, n))[p] = Shown(born, sp)[p]
      BY <1>1, <2>2 DEF Shown, With
    <3>3. Like(lost, p, acc.coins[p], Shown(born, With(sp, q, n))[p])
      BY SameIsLike
    <3> QED  BY <3>1, <3>2, <3>3
  <2> QED  BY <2>1, <2>2
<1> QED  BY <1>6, <1>7 DEF r

\* Undoing a transaction of a block takes the coins a step back, and finds the
\* outputs as they should be unless a mark was lost.
LEMMA UndoneTx ==
  ASSUME NEW lost, NEW b \in Block, b # Genesis, Sound(Parent[b]),
         NEW i \in 1 .. Len(Body[b]), JoinsUpTo(b, i), NEW u,
         UndoOfInputs(Born(b, i - 1), Spent(b, i - 1), Body[b][i], Len(Ins[Body[b][i]]), u),
         \A j \in 1 .. Len(Ins[Body[b][i]]) : LET q == Ins[Body[b][i]][j][1] IN
           Kind[q] = "coinstake" /\ u[j].height # 0 => q \in lost,
         NEW acc \in UndoResults, Same(lost, acc.coins, BlockCoins(b, i))
  PROVE  LET r == UndoTx(acc, Body[b][i], u, Height[b]) IN
         /\ r \in UndoResults
         /\ Same(lost, r.coins, BlockCoins(b, i - 1))
         /\ acc.clean /\ Body[b][i] \notin lost => r.clean
<1> DEFINE t == Body[b][i]
           N == Len(Ins[t])
           born == Born(b, i - 1)
           spent == Spent(b, i - 1)
           fine == acc.clean /\ t \notin lost
<1>0. t \in Tx /\ N \in Nat
  BY BodyType, TxType
<1>1. born \in [Tx -> Nat] /\ spent \in SpentSets
  BY BlockType
<1>2. There(born, spent, t) /\ born[t] = 0 /\ BlockCoins(b, i)[t] = FromTx(t, Height[b])
  BY JoiningFacts
<1>3. /\ Born(b, i) = [born EXCEPT ![t] = Height[b]]
      /\ Spent(b, i) = SpentBy(spent, t, N)
  BY BlockStep
<1>4. UndoOfInputs(born, spent, t, N, u) /\ BlockCoins(b, i - 1) = Shown(born, spent)
  BY DEF BlockCoins
<1>5. \A j \in 1 .. N : Kind[Ins[t][j][1]] = "coinstake" /\ u[j].height # 0 => Ins[t][j][1] \in lost
  OBVIOUS
<1> HIDE DEF t, born, spent
<1>6. PICK g : UndoTxSteps(g, acc, t, u, Height[b])
  BY <1>0, <1>1, <1>4, FittingIsReadable, UndoTxTakesSteps
<1> DEFINE Good(k) == /\ Same(lost, g[k].coins, Shown(born, SpentBy(spent, t, N - k)))
                      /\ fine => g[k].clean
           T == {k \in 0 .. N : Good(k)}
<1>7. 0 \in T
  <2>1. /\ g[0].coins = [acc.coins EXCEPT ![t] = NoCoins]
        /\ g[0].clean = (acc.clean /\ acc.coins[t] = FromTx(t, Height[b]))
        /\ acc.coins \in CoinSets
    BY <1>6 DEF UndoTxSteps, RemoveTx, UndoResults
  <2>2. fine => g[0].clean
    <3>1. Like(lost, t, acc.coins[t], FromTx(t, Height[b]))
      BY <1>0, <1>2, SameIsLike
    <3> QED  BY <2>1, <3>1 DEF Like
  <2>3. Same(lost, g[0].coins, Shown(born, SpentBy(spent, t, N)))
    <3> SUFFICES ASSUME NEW q \in Tx
                 PROVE  Like(lost, q, g[0].coins[q], Coin(q, born[q], SpentBy(spent, t, N)[q]))
      BY SameIsLike DEF Shown
    <3>1. CASE q = t
      BY <1>0, <1>2, <2>1, <3>1 DEF Coin, Like, CoinSets
    <3>2. CASE q # t
      <4>1. g[0].coins[q] = acc.coins[q] /\ Born(b, i)[q] = born[q]
        BY <1>1, <1>3, <2>1, <3>2 DEF CoinSets
      <4>2. Like(lost, q, acc.coins[q], Coin(q, Born(b, i)[q], Spent(b, i)[q]))
        BY SameIsLike DEF BlockCoins, Shown
      <4> QED  BY <1>3, <4>1, <4>2
    <3> QED  BY <3>1, <3>2
  <2>4. Good(0) /\ 0 \in 0 .. N
    BY <1>0, <2>2, <2>3
  <2> HIDE DEF Good
  <2> QED  BY <2>4
<1>8. ASSUME NEW k \in 1 .. N, k - 1 \in T PROVE k \in T
  <2> DEFINE j == N + 1 - k
             q == Ins[t][j][1]
             n == Ins[t][j][2]
             sp == SpentBy(spent, t, j - 1)
  <2>1. /\ j \in 1 .. N /\ j - 1 \in 0 .. N /\ N - k = j - 1 /\ N - (k - 1) = j
        /\ k \in 0 .. N /\ k - 1 \in 0 .. N
    BY <1>0
  <2>2. g[k] = RestoreInput(g[k - 1], Ins[t][j], u[j]) /\ g[k - 1] \in UndoResults
    BY <1>6, <2>1 DEF UndoTxSteps
  <2>3. Same(lost, g[k - 1].coins, Shown(born, SpentBy(spent, t, j))) /\ (fine => g[k - 1].clean)
    BY <1>8, <2>1
  <2> HIDE DEF j, fine
  <2>4. q \in Tx /\ n \in Nat /\ Ins[t][j] = <<q, n>>
    BY <1>0, <2>1, TxType DEF N
  <2>5. born[q] # 0 /\ n \in Outs[q] /\ n \notin spent[q]
    BY <1>2, <2>1 DEF There, N
  <2>6. sp \in SpentSets /\ SpentBy(spent, t, j) = With(sp, q, n) /\ n \notin sp[q]
    BY <1>0, <1>1, <2>1, <2>5, SpentByStep DEF N
  <2>7. Undoes(u[j], Coin(q, born[q], sp[q]), n)
    BY <1>4, <2>1 DEF UndoOfInputs
  <2>8. Kind[q] = "coinstake" /\ u[j].height # 0 => q \in lost
    BY <1>5, <2>1
  <2> HIDE DEF q, n, sp
  <2>9. Same(lost, g[k].coins, Shown(born, sp)) /\ (g[k - 1].clean => g[k].clean)
    <3>1. n \in Outs[q] \ sp[q] /\ Same(lost, g[k - 1].coins, Shown(born, With(sp, q, n)))
      BY <2>3, <2>5, <2>6
    <3> DEFINE a == g[k - 1]
               in == Ins[t][j]
               v == u[j]
               r == RestoreInput(a, in, v)
    <3>2. Same(lost, r.coins, Shown(born, sp)) /\ (a.clean => r.clean)
      <4>1. a \in UndoResults /\ Same(lost, a.coins, Shown(born, With(sp, q, n)))
        BY <2>2, <3>1
      <4>2. /\ Undoes(v, Coin(q, born[q], sp[q]), n) /\ in = <<q, n>>
            /\ v.height = 0 \/ Kind[q] # "coinstake" \/ q \in lost
        BY <2>4, <2>7, <2>8
      <4> HIDE DEF a, in, v
      <4>3. Same(lost, RestoreInput(a, in, v).coins, Shown(born, sp))
        BY ONLY <1>1, <2>4, <2>5, <2>6, <3>1, <4>1, <4>2, RestoreSame
      <4>4. a.clean => RestoreInput(a, in, v).clean
        BY ONLY <1>1, <2>4, <2>5, <2>6, <3>1, <4>1, <4>2, RestoreSame
      <4> QED  BY <4>3, <4>4
    <3> HIDE DEF r
    <3>3. g[k] = r
      BY <2>2 DEF r
    <3> QED  BY <3>2, <3>3
  <2>10. Good(k)
    BY <2>1, <2>3, <2>9 DEF sp
  <2> HIDE DEF Good
  <2> QED  BY <2>1, <2>10
<1>9. 0 .. N \subseteq T
  <2> HIDE DEF T, N
  <2> QED  BY <1>0, <1>7, <1>8, UpTo
<1>10. Good(N) /\ g[N] = UndoTx(acc, t, u, Height[b]) /\ g[N] \in UndoResults
  <2>1. N \in 0 .. N
    BY <1>0
  <2>2. N \in T
    <3> HIDE DEF T, N
    <3> QED  BY <1>9, <2>1
  <2> QED  BY <1>6, <2>1, <2>2 DEF UndoTxSteps
<1>11. N - N = 0 /\ SpentBy(spent, t, 0) = spent
  BY <1>0, <1>1, SpentByStep
<1> QED  BY <1>4, <1>10, <1>11 DEF t

\* The coinstakes that b takes a last output of.
LEMMA RestakesOf ==
  ASSUME NEW b \in Block, b # Genesis, NEW i \in 1 .. Len(Body[b]),
         NEW j \in 1 .. Len(Ins[Body[b][i]]), Kind[Ins[Body[b][i]][j][1]] = "coinstake",
         undo[b][i][j].height # 0
  PROVE  Ins[Body[b][i]][j][1] \in Restakes(b)
<1>1. i \in DOMAIN Body[b] /\ Body[b][i] \in Tx
  BY BodyType
<1>2. j \in DOMAIN Ins[Body[b][i]] /\ Ins[Body[b][i]][j][1] \in Tx
  BY <1>1, TxType
<1> QED  BY <1>1, <1>2 DEF Restakes

\* DisconnectBlock with the undo data of the block takes its coins to those of
\* its parent, and finds everything as it should be unless a mark was lost.
LEMMA Disconnected ==
  ASSUME NEW lost, NEW b \in Block, b # Genesis, Sound(b), UndoUpTo(b, Len(Body[b]), undo[b]),
         Restakes(b) \subseteq lost, NEW cs \in CoinSets, Same(lost, cs, CoinsAt[b])
  PROVE  LET r == DisconnectBlock(cs, b) IN
         /\ r \in UndoResults
         /\ Same(lost, r.coins, CoinsAt[Parent[b]])
         /\ r.clean \/ Txs(b) \cap lost # {}
<1> DEFINE N == Len(Body[b])
           fine == Txs(b) \cap lost = {}
<1>0. N \in Nat /\ Sound(Parent[b]) /\ JoinsUpTo(b, N)
  BY BodyType, ChainStep DEF Sound
<1>1. ASSUME NEW i \in 1 .. N
      PROVE  /\ Body[b][i] \in Txs(b) /\ Body[b][i] \in Tx
             /\ UndoOfInputs(Born(b, i - 1), Spent(b, i - 1), Body[b][i], Len(Ins[Body[b][i]]), undo[b][i])
             /\ JoinsUpTo(b, i)
  BY <1>0, BodyType DEF UndoUpTo, JoinsUpTo
<1>2. \A i \in 1 .. N : Readable(undo[b][i], Body[b][i])
  BY <1>1, BlockType, FittingIsReadable
<1>3. PICK g : DisconnectSteps(g, cs, b)
  BY <1>2, DisconnectTakesSteps
<1> DEFINE Good(k) == /\ Same(lost, g[k].coins, BlockCoins(b, N - k))
                      /\ fine => g[k].clean
           T == {k \in 0 .. N : Good(k)}
<1>4. 0 \in T
  <2>1. g[0].coins = cs /\ g[0].clean = TRUE
    BY <1>3 DEF DisconnectSteps
  <2>2. Same(lost, cs, BlockCoins(b, N))
    BY <1>0, BlockEnds
  <2>3. Good(0) /\ 0 \in 0 .. N
    BY <1>0, <2>1, <2>2
  <2> HIDE DEF Good
  <2> QED  BY <2>3
<1>5. ASSUME NEW k \in 1 .. N, k - 1 \in T PROVE k \in T
  <2> DEFINE i == Backward(b, k)
             t == Body[b][i]
             r == UndoTx(g[k - 1], t, undo[b][i], Height[b])
  <2>1. /\ i \in 1 .. N /\ N - k = i - 1 /\ N - (k - 1) = i
        /\ k \in 0 .. N /\ k - 1 \in 0 .. N
    BY <1>0 DEF Backward
  <2>2. g[k] = r /\ g[k - 1] \in UndoResults
    BY <1>3, <2>1 DEF DisconnectSteps
  <2>3. Same(lost, g[k - 1].coins, BlockCoins(b, i)) /\ (fine => g[k - 1].clean)
    BY <1>5, <2>1
  <2> HIDE DEF i
  <2>4. \A j \in 1 .. Len(Ins[Body[b][i]]) : LET q == Ins[Body[b][i]][j][1] IN
          Kind[q] = "coinstake" /\ undo[b][i][j].height # 0 => q \in lost
    BY <2>1, RestakesOf
  <2>5. /\ Same(lost, r.coins, BlockCoins(b, i - 1))
        /\ g[k - 1].clean /\ t \notin lost => r.clean
    BY <1>0, <1>1, <2>1, <2>2, <2>3, <2>4, UndoneTx
  <2>6. fine => t \notin lost
    BY <1>1, <2>1
  <2> HIDE DEF r, t, fine
  <2>7. Good(k)
    BY <2>1, <2>2, <2>3, <2>5, <2>6
  <2> HIDE DEF Good
  <2> QED  BY <2>1, <2>7
<1>6. 0 .. N \subseteq T
  <2> HIDE DEF T, N
  <2> QED  BY <1>0, <1>4, <1>5, UpTo
<1>7. Good(N) /\ g[N] = DisconnectBlock(cs, b) /\ g[N] \in UndoResults /\ N - N = 0
  <2>1. N \in T /\ N \in 0 .. N
    BY <1>0, <1>6
  <2> QED  BY <1>0, <1>3, <2>1 DEF DisconnectSteps
<1> QED  BY <1>7, BlockBegins
-----------------------------------------------------------------------------
(***************************************************************************)
(* The coins, wherever they are kept, are those of a chain, undo data is   *)
(* there for every block that may have to go, and every reward that the    *)
(* chain spends has matured, but for those that may have lost their mark.  *)
(***************************************************************************)

CoinTypes == {coins, dbCoins, vcoins} \subseteq CoinSets
Places ==
  /\ dbTip \in Chain[tip]
  /\ stage = "flush" => tip # Genesis
  /\ stage \in {"down", "up"} => vtip \in Chain[tip]
UndoKept ==
  /\ \A b \in Block \ {Genesis} : undo[b] # none => UndoUpTo(b, Len(Body[b]), undo[b])
  /\ \A b \in (Active \ {Genesis}) \cup dbUndo : undo[b] # none
  /\ Chain[dbTip] \ {Genesis} \subseteq dbUndo
Indexed == \A b \in Active \ {Genesis} : \A t \in Txs(b) : txindex[t] = b
RewardsKept ==
  \A b \in Active \ {Genesis} : \A i \in 1 .. Len(Body[b]) : MaturedAt(unmarked, b, i)
Clean == stage \in {"down", "up"} => vclean \/ MarkLost
CoinInv ==
  /\ TypeOK /\ CoinTypes /\ Places /\ UndoKept /\ Sound(tip) /\ Indexed
  /\ RewardsKept /\ Clean /\ CoinsMatchChain

\* The coins of a chain are coins.
LEMMA CoinsAtType ==
  ASSUME NEW b \in Block
  PROVE  CoinsAt[b] \in CoinSets
<1>1. ASSUME NEW t \in Tx PROVE CoinsAt[b][t] = Coin(t, BornAt(b, t), SpentAt(b, t))
  <2>1. (BornAt(b, t) = 0) = (BlocksOf(b, t) = {})
    BY BlocksOfType
  <2> QED  BY <2>1 DEF CoinsAt, Coin, BornAt
<1>2. \A t \in Tx : CoinsAt[b][t] \in CCoins
  BY <1>1, BlocksOfType, CoinType
<1>3. CoinsAt[b] = [t \in Tx |-> CoinsAt[b][t]]
  BY DEF CoinsAt
<1> QED  BY <1>2, <1>3 DEF CoinSets

\* The genesis block has none.
LEMMA CoinsAtGenesis == CoinsAt[Genesis] = NothingSpent
<1>1. Genesis \in Block /\ \A t : BlocksOf(Genesis, t) = {}
  BY ChainOfGenesis, TreeAssumption DEF BlocksOf
<1> QED  BY <1>1 DEF CoinsAt, NothingSpent

\* A part of a sound chain is sound, and so is a block on top that joins.
LEMMA SoundChains ==
  ASSUME NEW b \in Block, Sound(b)
  PROVE  /\ \A a \in Chain[b] : Sound(a)
         /\ \A c \in Block \ {Genesis} : Parent[c] = b /\ JoinsUpTo(c, Len(Body[c])) => Sound(c)
<1>1. ASSUME NEW a \in Chain[b] PROVE Sound(a)
  BY ChainTransitive DEF Sound
<1>2. ASSUME NEW c \in Block \ {Genesis}, Parent[c] = b, JoinsUpTo(c, Len(Body[c])) PROVE Sound(c)
  BY <1>2, ChainStep DEF Sound
<1> QED  BY <1>1, <1>2

\* The blocks of a sound chain share no transaction.
LEMMA SharedByNone ==
  ASSUME NEW c \in Block, Sound(c), NEW a \in Chain[c] \ {Genesis}, NEW b \in Chain[c] \ {Genesis},
         NEW t, t \in Txs(a), t \in Txs(b)
  PROVE  a = b
<1>0. a \in Block /\ b \in Block
  BY ChainContains
<1>1. ASSUME NEW x \in Chain[c] \ {Genesis}, NEW y \in Chain[Parent[x]] \ {Genesis},
             t \in Txs(x), t \in Txs(y)
      PROVE  FALSE
  <2>1. x \in Block /\ JoinsUpTo(x, Len(Body[x]))
    BY ChainContains DEF Sound
  <2>2. PICK i \in 1 .. Len(Body[x]) : t = Body[x][i] /\ t \in Tx
    BY <1>1, <2>1, BodyType
  <2>3. Born(x, i - 1)[t] = 0
    BY <2>1, <2>2 DEF JoinsUpTo, Joins
  <2>4. BlocksOf(Parent[x], t) = {}
    BY <2>1, <2>2, <2>3, BlockType
  <2> QED  BY <1>1, <2>4 DEF BlocksOf
<1>2. SUFFICES ASSUME a # b PROVE FALSE
  OBVIOUS
<1>3. a \in Chain[b] \/ b \in Chain[a]
  BY ChainLinear
<1>4. a \in Chain[Parent[b]] \/ b \in Chain[Parent[a]]
  BY <1>0, <1>2, <1>3, ChainStep
<1> QED  BY <1>1, <1>4

\* What ConnectTip lets into the chain belongs there.
LEMMA TipAccepts ==
  ASSUME CoinbaseOnce, CoinInv, NEW b \in Block, b # Genesis, Parent[b] = tip
  PROVE  AcceptedJoin(unmarked, b, FALSE)
<1> SUFFICES ASSUME NEW i \in 1 .. Len(Body[b]), JoinsUpTo(b, i - 1),
                    NEW c \in CoinSets, Same(unmarked, c, BlockCoins(b, i - 1)),
                    AcceptTx(c, Body[b][i], b, FALSE)
             PROVE  Joins(b, i)
  BY DEF AcceptedJoin, Accepted
<1> DEFINE t == Body[b][i]
<1>0. t \in Tx /\ t \in Txs(b) /\ tip \in Block
  BY BodyType DEF CoinInv, TypeOK
<1>1. ASSUME t \notin TxsUpTo(b, i - 1), BlocksOf(tip, t) = {} PROVE Born(b, i - 1)[t] = 0
  BY <1>0, <1>1, BlockType
<1>2. \A j \in 1 .. i - 1 : j \in 1 .. Len(Body[b]) /\ j # i
  BY BodyType
<1>3. CASE Kind[t] = "spend"
  <2>1. t \notin TxsUpTo(b, i - 1)
    <3>1. Serials[t] # {}
      BY <1>0, <1>3, TxType
    <3>2. \A j \in 1 .. i - 1 : Serials[t] \cap Serials[Body[b][j]] = {}
      BY <1>2, BodyType
    <3> QED  BY <3>1, <3>2 DEF TxsUpTo
  <2>2. ~TransactionInChain(t)
    BY <1>3 DEF AcceptTx
  <2>3. BlocksOf(tip, t) = {}
    <3>1. \A a \in BlocksOf(tip, t) : txindex[t] = a /\ a \in Active /\ a \in Block
      BY <1>0, ChainContains DEF CoinInv, Indexed, BlocksOf, Active
    <3> QED  BY <2>2, <3>1, LedgerAssumption DEF TransactionInChain
  <2>4. DOMAIN Ins[t] = {}
    BY <1>0, <1>3, TxType
  <2> QED  BY <1>1, <2>1, <2>3, <2>4 DEF Joins, InputsThere
<1>4. CASE Kind[t] = "coinbase"
  <2>1. t \notin TxsUpTo(b, i - 1)
    <3>1. \A j \in 1 .. i - 1 : Body[b][j] # t
      BY <1>2, <1>4, BodyType
    <3> QED  BY <3>1 DEF TxsUpTo
  <2>2. BlocksOf(tip, t) = {}
    BY <1>0, <1>4 DEF CoinbaseOnce, BlocksOf
  <2>3. DOMAIN Ins[t] = {}
    BY <1>0, <1>4, TxType
  <2> QED  BY <1>1, <2>1, <2>2, <2>3 DEF Joins, InputsThere
<1>5. CASE Kind[t] \notin {"spend", "coinbase"}
  <2>1. HaveInputs(c, t)
    BY <1>5 DEF AcceptTx
  <2>2. InputsThere(b, i)
    BY <2>1, InputsChecked
  <2>3. Ins[t] # <<>>
    BY <1>0, <1>5, TxType
  <2>4. Born(b, i - 1)[t] = 0
    BY <2>2, <2>3, SpenderIsNew
  <2> QED  BY <2>2, <2>4 DEF Joins
<1> QED  BY <1>3, <1>4, <1>5

\* The records keep their types.
LEMMA RecordsType ==
  ASSUME TypeOK, NEW b \in Block, b # Genesis
  PROVE  /\ WithSpends(b) \in [Serial -> Tx \cup {none}]
         /\ WithoutSpends(b) \in [Serial -> Tx \cup {none}]
         /\ WithIndex(b) \in [Tx -> Block \cup {none}]
<1>1. Txs(b) \subseteq Tx
  BY BodyType
<1>2. ASSUME NEW s \in Serial, \E t \in Txs(b) : s \in Serials[t]
      PROVE  (CHOOSE t \in Txs(b) : s \in Serials[t]) \in Tx
  BY <1>1, <1>2
<1>3. spends \in [Serial -> Tx \cup {none}] /\ txindex \in [Tx -> Block \cup {none}]
  BY DEF TypeOK
<1>4. WithSpends(b) \in [Serial -> Tx \cup {none}]
  BY <1>2, <1>3 DEF WithSpends
<1> QED  BY <1>3, <1>4 DEF WithoutSpends, WithIndex

\* The fewer marks may be lost, the more rewards have matured.
LEMMA MaturedMore ==
  ASSUME NEW lost, NEW more, lost \subseteq more, NEW b, NEW i, MaturedAt(lost, b, i)
  PROVE  MaturedAt(more, b, i)
BY DEF MaturedAt

\* At the start there is the genesis block.
LEMMA CoinInit == Init => CoinInv
<1> SUFFICES ASSUME Init PROVE CoinInv
  OBVIOUS
<1>1. Genesis \in Block /\ Chain[Genesis] = {Genesis}
  BY ChainOfGenesis, TreeAssumption
<1>2. TypeOK
  <2>1. NothingSpent \in CoinSets
    BY <1>1, CoinsAtGenesis, CoinsAtType
  <2>2. \A t \in Tx : NothingSpent[t] \in CCoins
    BY <2>1 DEF CoinSets
  <2> QED  BY <1>1, <2>2 DEF Init, TypeOK
<1>3. CoinTypes
  BY <1>1, CoinsAtGenesis, CoinsAtType DEF Init, CoinTypes
<1>4. Places /\ UndoKept /\ Sound(tip) /\ Indexed /\ RewardsKept /\ Clean
  BY <1>1 DEF Init, Places, UndoKept, Sound, Indexed, RewardsKept, Clean, Active
<1>5. CoinsMatchChain
  BY CoinsAtGenesis DEF Init, CoinsMatchChain, Same
<1> QED  BY <1>2, <1>3, <1>4, <1>5 DEF CoinInv

\* ConnectTip moves coins, undo data and index to the new block.
LEMMA ConnectTipKeepsCoins ==
  ASSUME CoinbaseOnce, CoinInv, NEW b \in Block \ {Genesis}, ConnectTip(b)
  PROVE  CoinInv'
<1> DEFINE r == ConnectBlock(coins, b, FALSE)
<1>1. /\ TypeOK /\ CoinTypes /\ Places /\ UndoKept /\ Sound(tip) /\ Indexed /\ RewardsKept
      /\ coins \in CoinSets /\ Same(unmarked, coins, CoinsAt[tip]) /\ Same(unmarked, dbCoins, CoinsAt[dbTip])
  BY DEF CoinInv, CoinTypes, CoinsMatchChain, ConnectTip
<1>2. /\ stage = "ready" /\ Parent[b] = tip /\ r.ok
      /\ tip' = b /\ coins' = r.coins /\ undo' = WrittenUndo(b, r.undo)
      /\ spends' = WithSpends(b) /\ txindex' = WithIndex(b) /\ torn' = torn \ {b}
      /\ UNCHANGED <<dbTip, dbCoins, dbUndo, stage, vcoins, vtip, vclean, vstart, verified,
                     stopping, unmarked, used>>
  BY DEF ConnectTip, diskVars, verifyVars
<1>3. /\ JoinsUpTo(b, Len(Body[b]))
      /\ r.coins \in CoinSets /\ Same(unmarked, r.coins, CoinsAt[b])
      /\ r.undo \in BlockUndos /\ UndoUpTo(b, Len(Body[b]), r.undo)
      /\ \A i \in 1 .. Len(Body[b]) : Accepted(unmarked, b, i, FALSE)
  BY <1>1, <1>2, TipAccepts, ConnectBlockGood
<1> HIDE DEF r
<1>4. Chain[b] = Chain[tip] \cup {b} /\ b \notin Chain[tip] /\ Sound(b)
  BY <1>1, <1>2, <1>3, ChainStep, SoundChains DEF TypeOK
<1>5. TypeOK'
  <2>1. \A t \in Tx : r.coins[t] \in CCoins
    BY <1>3 DEF CoinSets
  <2>2. DOMAIN undo' = Block
    BY <1>1, <1>2 DEF TypeOK, WrittenUndo
  <2> QED  BY <1>1, <1>2, <2>1, <2>2, RecordsType DEF TypeOK
<1>6. Places' /\ CoinTypes' /\ Clean'
  BY <1>1, <1>2, <1>3, <1>4 DEF Places, CoinTypes, Clean
<1>7. UndoKept'
  <2>1. r.undo # none
    BY <1>3, LedgerAssumption DEF BlockUndos, TxUndos
  <2>2. DOMAIN undo = Block
    BY <1>1 DEF TypeOK
  <2>3. undo'[b] = (IF undo[b] = none THEN r.undo ELSE undo[b]) /\ \A c \in Block \ {b} : undo'[c] = undo[c]
    BY <1>2, <2>2 DEF WrittenUndo
  <2>4. dbUndo \subseteq Block /\ Chain[tip] \subseteq Block
    BY <1>1, ChainContains DEF TypeOK
  <2>5. \A c \in Block \ {Genesis} : undo'[c] # none => UndoUpTo(c, Len(Body[c]), undo'[c])
    BY <1>1, <1>3, <2>3 DEF UndoKept
  <2>6. \A c \in (Chain[b] \ {Genesis}) \cup dbUndo : undo'[c] # none
    BY <1>1, <1>4, <2>1, <2>3, <2>4 DEF UndoKept, Active
  <2> QED  BY <1>1, <1>2, <2>5, <2>6 DEF UndoKept, Active
<1>8. Indexed'
  <2> SUFFICES ASSUME NEW a \in Chain[b] \ {Genesis}, NEW t \in Txs(a) PROVE txindex'[t] = a
    BY <1>2 DEF Indexed, Active
  <2>1. t \in Tx
    BY BodyType, ChainContains
  <2>2. CASE t \in Txs(b)
    <3>1. a = b
      BY <1>4, <2>2, SharedByNone, ChainContains
    <3> QED  BY <1>2, <2>1, <2>2, <3>1 DEF WithIndex
  <2>3. CASE t \notin Txs(b)
    <3>1. a \in Chain[tip] \ {Genesis}
      BY <1>4, <2>3
    <3> QED  BY <1>1, <1>2, <2>1, <2>3, <3>1 DEF WithIndex, Indexed, Active
  <2> QED  BY <2>2, <2>3
<1>9. RewardsKept'
  <2>1. ASSUME NEW i \in 1 .. Len(Body[b]) PROVE MaturedAt(unmarked, b, i)
    <3>1. InputsThere(b, i)
      BY <1>3 DEF JoinsUpTo, Joins
    <3> QED  BY <1>3, <3>1, AcceptedMatured
  <2> QED  BY <1>1, <1>2, <1>4, <2>1 DEF RewardsKept, Active
<1>10. CoinsMatchChain'
  BY <1>1, <1>2, <1>3 DEF CoinsMatchChain
<1>11. Sound(tip)'
  BY <1>2, <1>4
<1> QED  BY <1>5, <1>6, <1>7, <1>8, <1>9, <1>10, <1>11 DEF CoinInv

\* What may be taken back can be taken back, in pcoinsTip as in the view of
\* CVerifyDB.
LEMMA TakenBack ==
  ASSUME CoinInv, NEW b \in Active, b # Genesis, NEW lost, lost = unmarked \cup Restakes(b),
         NEW cs \in CoinSets, Same(unmarked, cs, CoinsAt[b])
  PROVE  /\ b \in Block /\ Parent[b] \in Block /\ Parent[b] \in Active
         /\ LET r == DisconnectBlock(cs, b) IN
            /\ r \in UndoResults
            /\ Same(lost, r.coins, CoinsAt[Parent[b]])
            /\ r.clean \/ Txs(b) \cap lost # {}
         /\ lost \subseteq Tx
<1>1. tip \in Block /\ Sound(tip) /\ UndoKept /\ unmarked \subseteq Tx
  BY DEF CoinInv, TypeOK
<1>2. b \in Block /\ Parent[b] \in Block /\ Parent[b] \in Active
  BY <1>1, ChainContains, ChainClosed DEF Active
<1>3. Sound(b)
  BY <1>1, SoundChains DEF Active
<1>4. UndoUpTo(b, Len(Body[b]), undo[b])
  BY <1>1, <1>2 DEF UndoKept
<1>5. Same(lost, cs, CoinsAt[b]) /\ Restakes(b) \subseteq lost
  BY SameMore
<1>6. lost \subseteq Tx
  BY <1>1 DEF Restakes
<1> QED  BY <1>2, <1>3, <1>4, <1>5, <1>6, Disconnected

\* More marks may be lost: the rest is as it was.
LEMMA MoreUnmarked ==
  ASSUME CoinInv, unmarked \subseteq unmarked', tip' = tip
  PROVE  RewardsKept' /\ (MarkLost => MarkLost')
<1>1. RewardsKept'
  <2>1. \A b \in Active \ {Genesis} : \A i \in 1 .. Len(Body[b]) : MaturedAt(unmarked', b, i)
    BY MaturedMore DEF CoinInv, RewardsKept
  <2> QED  BY <2>1 DEF RewardsKept, Active
<1> QED  BY <1>1 DEF MarkLost, Active

\* DisconnectTip takes the coins back before the chain.
LEMMA DisconnectTipKeepsCoins ==
  ASSUME CoinInv, DisconnectTip
  PROVE  CoinInv'
<1> DEFINE r == DisconnectBlock(coins, tip)
           lost == unmarked \cup Restakes(tip)
<1>1. /\ TypeOK /\ CoinTypes /\ Places /\ UndoKept /\ Sound(tip) /\ Indexed
      /\ coins \in CoinSets /\ Same(unmarked, coins, CoinsAt[tip]) /\ Same(unmarked, dbCoins, CoinsAt[dbTip])
  BY DEF CoinInv, CoinTypes, CoinsMatchChain, DisconnectTip
<1>2. /\ tip # Genesis /\ stage = "ready"
      /\ spends' = WithoutSpends(tip)
      /\ IF r.clean
         THEN coins' = r.coins /\ stage' = "flush" /\ unmarked' = lost /\ torn' = torn
         ELSE torn' = torn \cup {tip} /\ UNCHANGED <<coins, stage, unmarked>>
      /\ UNCHANGED <<tip, undo, dbTip, dbCoins, dbUndo, txindex, vcoins, vtip, vclean, vstart, verified, stopping>>
      /\ Use("disconnect")
  BY DEF DisconnectTip, diskVars, verifyVars
<1>3. tip \in Active /\ tip \in Block
  BY <1>1, ChainContains DEF Active, TypeOK
<1>4. r \in UndoResults /\ Same(lost, r.coins, CoinsAt[Parent[tip]]) /\ lost \subseteq Tx
  <2> HIDE DEF lost
  <2> QED  BY <1>1, <1>2, <1>3, TakenBack DEF lost
<1> HIDE DEF r, lost
<1>5. used' \in [Operations -> Nat] /\ spends' \in [Serial -> Tx \cup {none}]
  BY <1>1, <1>2, <1>3, RecordsType DEF TypeOK, Use, Operations
<1>6. Sound(tip)' /\ UndoKept' /\ Indexed'
  BY <1>1, <1>2 DEF UndoKept, Indexed, Active
<1>7. unmarked \subseteq unmarked'
  BY <1>2 DEF lost
<1>8. RewardsKept'
  BY <1>2, <1>7, MoreUnmarked
<1>9. CASE r.clean
  <2>1. coins' = r.coins /\ stage' = "flush" /\ unmarked' = lost /\ torn' = torn
    BY <1>2, <1>9
  <2>2. r.coins \in CoinSets /\ \A t \in Tx : r.coins[t] \in CCoins
    BY <1>4 DEF UndoResults, CoinSets
  <2>3. TypeOK'
    BY <1>1, <1>2, <1>4, <1>5, <2>1, <2>2 DEF TypeOK
  <2>4. CoinTypes' /\ Places' /\ Clean'
    BY <1>1, <1>2, <2>1, <2>2 DEF CoinTypes, Places, Clean
  <2>5. CoinsMatchChain'
    <3>1. Same(lost, dbCoins, CoinsAt[dbTip])
      BY <1>1, SameMore DEF lost
    <3> QED  BY <1>2, <1>4, <2>1, <3>1 DEF CoinsMatchChain
  <2> QED  BY <1>6, <1>8, <2>3, <2>4, <2>5 DEF CoinInv
<1>10. CASE ~r.clean
  <2>1. torn' = torn \cup {tip} /\ UNCHANGED <<coins, stage, unmarked>>
    BY <1>2, <1>10
  <2>2. TypeOK'
    BY <1>1, <1>2, <1>3, <1>5, <2>1 DEF TypeOK
  <2>3. CoinTypes' /\ Places' /\ Clean'
    BY <1>1, <1>2, <2>1 DEF CoinTypes, Places, Clean
  <2>4. CoinsMatchChain'
    BY <1>1, <1>2, <2>1 DEF CoinsMatchChain
  <2> QED  BY <1>6, <1>8, <2>2, <2>3, <2>4 DEF CoinInv
<1> QED  BY <1>9, <1>10

\* A flush takes the undo data of the chain along.
LEMMA FlushKeepsUndo ==
  ASSUME TypeOK, UndoKept, NEW cs, NEW b \in Active, Flushed(cs, b), UNCHANGED undo, tip' \in Active
  PROVE  UndoKept' /\ dbUndo' \subseteq Block
<1>1. tip \in Block /\ Chain[b] \subseteq Active /\ Chain[tip'] \subseteq Active /\ Active \subseteq Block
  BY ChainTransitive, ChainContains DEF TypeOK, Active
<1>2. dbUndo' = {x \in Block : undo[x] # none} /\ dbTip' = b
  BY DEF Flushed
<1> QED  BY <1>1, <1>2 DEF UndoKept, Active

\* Then the tip follows.
LEMMA DisconnectEndKeepsCoins ==
  ASSUME CoinInv, DisconnectEnd
  PROVE  CoinInv'
<1>1. /\ TypeOK /\ CoinTypes /\ Places /\ UndoKept /\ Sound(tip) /\ Indexed /\ RewardsKept
      /\ tip \in Block /\ tip # Genesis /\ Same(unmarked, coins, CoinsAt[Parent[tip]])
  BY DEF CoinInv, CoinsMatchChain, DisconnectEnd, Places, TypeOK
<1>2. /\ dbTip' = Parent[tip] /\ dbCoins' = coins /\ tip' = Parent[tip] /\ stage' = "ready"
      /\ UNCHANGED <<coins, undo, spends, txindex, vcoins, vtip, vclean, vstart, verified,
                     stopping, unmarked, torn, used>>
  BY DEF DisconnectEnd, Flushed, recordVars, verifyVars, historyVars
<1>3. /\ Parent[tip] \in Block /\ Parent[tip] \in Active
      /\ Chain[Parent[tip]] \subseteq Active /\ Parent[tip] \in Chain[Parent[tip]]
  BY <1>1, ChainStep, ChainContains DEF Active
<1>4. UndoKept' /\ dbUndo' \subseteq Block
  BY <1>1, <1>2, <1>3, FlushKeepsUndo DEF DisconnectEnd
<1>5. TypeOK'
  BY <1>1, <1>2, <1>3, <1>4 DEF TypeOK
<1>6. CoinTypes' /\ Places' /\ Indexed' /\ RewardsKept' /\ Clean'
  BY <1>1, <1>2, <1>3 DEF CoinTypes, Places, Indexed, RewardsKept, Clean, Active
<1>7. CoinsMatchChain'
  BY <1>1, <1>2 DEF CoinsMatchChain
<1>8. Sound(tip)'
  BY <1>1, <1>2, <1>3, SoundChains DEF Active
<1> QED  BY <1>4, <1>5, <1>6, <1>7, <1>8 DEF CoinInv

\* What leaves chain, coins and undo data alone, though it flushes them, and begins
\* a verification or leaves the view alone too, keeps what is known of the coins.
LEMMA ChainUnchanged ==
  ASSUME CoinInv, TypeOK', UNCHANGED <<tip, coins, undo, txindex, unmarked>>,
         stage' = "flush" <=> stage = "flush",
         \/ UNCHANGED <<dbTip, dbCoins, dbUndo>>
         \/ stage # "flush" /\ Flushed(coins, tip),
         \/ stage # "flush" /\ vcoins' = coins /\ vtip' = tip /\ vclean' = TRUE
         \/ /\ UNCHANGED <<vcoins, vtip, vclean>>
            /\ stage' \in {"down", "up"} => stage \in {"down", "up"}
  PROVE  CoinInv'
<1>1. /\ TypeOK /\ CoinTypes /\ Places /\ UndoKept /\ Sound(tip) /\ Indexed /\ RewardsKept
      /\ Clean /\ CoinsMatchChain /\ tip \in Block /\ tip \in Active
  BY ChainContains DEF CoinInv, TypeOK, Active
<1>2. UndoKept' /\ (Flushed(coins, tip) => dbTip' = tip /\ dbCoins' = coins)
  BY <1>1, FlushKeepsUndo DEF UndoKept, Active, Flushed
<1>3. Sound(tip)' /\ Indexed' /\ RewardsKept'
  BY <1>1 DEF Indexed, RewardsKept, Active
<1>4. CoinTypes' /\ Places'
  BY <1>1, <1>2 DEF CoinTypes, Places, Active
<1>5. Clean'
  <2>1. MarkLost' <=> MarkLost
    BY DEF MarkLost, Active
  <2> QED  BY <1>1, <2>1 DEF Clean
<1>6. CoinsMatchChain'
  <2>1. Same(unmarked, coins, CoinsAt[IF stage = "flush" THEN Parent[tip] ELSE tip])
    BY <1>1 DEF CoinsMatchChain
  <2> QED  BY <1>1, <1>2, <2>1 DEF CoinsMatchChain
<1> QED  BY <1>2, <1>3, <1>4, <1>5, <1>6 DEF CoinInv

\* The other flushes change nothing in memory.
LEMMA FlushKeepsCoins ==
  ASSUME CoinInv, FlushStateToDisk
  PROVE  CoinInv'
<1>1. /\ stage = "ready" /\ Flushed(coins, tip)
      /\ UNCHANGED <<tip, coins, undo, spends, txindex, stage, vcoins, vtip, vclean, vstart, verified,
                     stopping, unmarked, torn, used>>
  BY DEF FlushStateToDisk, chainVars, recordVars, verifyVars, historyVars
<1>2. TypeOK'
  BY <1>1 DEF CoinInv, TypeOK, Flushed
<1> QED  BY <1>1, <1>2, ChainUnchanged

\* CVerifyDB begins with the coins of the tip.
LEMMA VerifyChainKeepsCoins ==
  ASSUME CoinInv, VerifyChain
  PROVE  CoinInv'
<1>1. /\ stage = "ready" /\ stage' = "down" /\ vcoins' = coins /\ vtip' = tip
      /\ vclean' = TRUE /\ vstart' = FALSE /\ verified' = TRUE
      /\ UNCHANGED <<tip, coins, undo, dbTip, dbCoins, dbUndo, spends, txindex, stopping, unmarked, torn>>
      /\ Use("verify")
  BY DEF VerifyChain, Verify, chainVars, diskVars, recordVars, historyVars
<1>2. TypeOK'
  <2>1. used' \in [Operations -> Nat]
    BY <1>1 DEF CoinInv, TypeOK, Use, Operations
  <2> QED  BY <1>1, <2>1 DEF CoinInv, TypeOK
<1> QED  BY <1>1, <1>2, ChainUnchanged

\* Its view goes back as the coins do, clean unless a mark was lost.
LEMMA VerifyDisconnectKeepsCoins ==
  ASSUME CoinInv, VerifyDisconnect
  PROVE  CoinInv'
<1> DEFINE r == DisconnectBlock(vcoins, vtip)
           lost == unmarked \cup Restakes(vtip)
<1>1. /\ TypeOK /\ CoinTypes /\ Places /\ UndoKept /\ Sound(tip) /\ Indexed
      /\ vtip \in Active /\ vtip # Genesis /\ vcoins \in CoinSets
      /\ Same(unmarked, vcoins, CoinsAt[vtip]) /\ Same(unmarked, coins, CoinsAt[tip])
      /\ Same(unmarked, dbCoins, CoinsAt[dbTip]) /\ (vclean \/ MarkLost)
  BY DEF CoinInv, CoinTypes, CoinsMatchChain, VerifyDisconnect, Below, Places, Clean, Active
<1>2. /\ stage = "down" /\ vcoins' = r.coins /\ vclean' = (vclean /\ r.clean) /\ vtip' = Parent[vtip]
      /\ spends' = WithoutSpends(vtip) /\ unmarked' = lost
      /\ UNCHANGED <<tip, coins, undo, dbTip, dbCoins, dbUndo, txindex, stage, vstart, verified,
                     stopping, torn, used>>
  BY DEF VerifyDisconnect, chainVars, diskVars
<1>3. /\ vtip \in Block /\ Parent[vtip] \in Block /\ Parent[vtip] \in Active /\ lost \subseteq Tx
      /\ r \in UndoResults /\ Same(lost, r.coins, CoinsAt[Parent[vtip]])
      /\ r.clean \/ Txs(vtip) \cap lost # {}
  <2> HIDE DEF lost
  <2> QED  BY <1>1, TakenBack DEF lost
<1>4. r.coins \in CoinSets /\ r.clean \in BOOLEAN /\ \A t \in Tx : r.coins[t] \in CCoins
  BY <1>3 DEF UndoResults, CoinSets
<1> HIDE DEF r
<1>5. unmarked \subseteq unmarked' /\ tip' = tip
  BY <1>2
<1> HIDE DEF lost
<1>6. TypeOK'
  <2>1. spends' \in [Serial -> Tx \cup {none}] /\ vclean' \in BOOLEAN
    BY <1>1, <1>2, <1>3, <1>4, RecordsType DEF TypeOK
  <2> QED  BY <1>1, <1>2, <1>3, <1>4, <2>1 DEF TypeOK
<1>7. CoinTypes' /\ Places' /\ UndoKept' /\ Indexed'
  BY <1>1, <1>2, <1>3, <1>4 DEF CoinTypes, Places, UndoKept, Indexed, Active
<1>8. RewardsKept' /\ (MarkLost => MarkLost')
  BY <1>5, MoreUnmarked
<1>9. Clean'
  <2>1. CASE vclean /\ r.clean
    BY <1>2, <2>1 DEF Clean
  <2>2. CASE ~vclean
    BY <1>1, <1>8, <2>2 DEF Clean
  <2>3. CASE ~r.clean
    <3>1. MarkLost'
      BY <1>1, <1>2, <1>3, <2>3 DEF MarkLost, Active
    <3> QED  BY <3>1 DEF Clean
  <2> QED  BY <2>1, <2>2, <2>3
<1>10. CoinsMatchChain'
  <2>1. Same(lost, coins, CoinsAt[tip]) /\ Same(lost, dbCoins, CoinsAt[dbTip])
    BY <1>1, SameMore DEF lost
  <2> QED  BY <1>2, <1>3, <2>1 DEF CoinsMatchChain
<1>11. Sound(tip)'
  BY <1>1, <1>2
<1> QED  BY <1>6, <1>7, <1>8, <1>9, <1>10, <1>11 DEF CoinInv

\* It turns round at the last block.
LEMMA VerifyTurnKeepsCoins ==
  ASSUME CoinInv, VerifyTurn
  PROVE  CoinInv'
<1>1. /\ stage = "down" /\ stage' \in {"up", "ready", "corrupt"} /\ verified' \in {verified, FALSE}
      /\ torn' = torn \/ torn' = torn \cup BrokenOff
      /\ UNCHANGED <<tip, coins, undo, dbTip, dbCoins, dbUndo, spends, txindex,
                     vcoins, vtip, vclean, vstart, stopping, unmarked, used>>
  BY DEF VerifyTurn, Complain, Level4, chainVars, diskVars, recordVars, verifyVars
<1>2. TypeOK'
  <2>1. BrokenOff \subseteq Block
    BY ChainContains DEF BrokenOff, CoinInv, TypeOK, Active
  <2> QED  BY <1>1, <2>1 DEF CoinInv, TypeOK
<1> QED  BY <1>1, <1>2, ChainUnchanged

\* Its view comes back as the coins came, and nothing is written anew.
LEMMA VerifyConnectKeepsCoins ==
  ASSUME CoinInv, VerifyConnect
  PROVE  CoinInv'
<1>1. /\ TypeOK /\ CoinTypes /\ Places /\ UndoKept /\ Sound(tip) /\ Indexed /\ RewardsKept /\ Clean
      /\ tip \in Block /\ stage = "up" /\ vcoins \in CoinSets /\ Same(unmarked, vcoins, CoinsAt[vtip])
      /\ Same(unmarked, coins, CoinsAt[tip]) /\ Same(unmarked, dbCoins, CoinsAt[dbTip])
      /\ DOMAIN undo = Block
  BY DEF CoinInv, CoinTypes, CoinsMatchChain, VerifyConnect, TypeOK
<1>2. UNCHANGED <<tip, coins, dbTip, dbCoins, dbUndo, vclean, vstart, stopping, unmarked, used>>
  BY DEF VerifyConnect, diskVars
<1>3. PICK b \in Active \ {Genesis} :
        LET r == ConnectBlock(vcoins, b, TRUE) IN
        /\ Parent[b] = vtip
        /\ IF r.ok
           THEN /\ vcoins' = r.coins /\ vtip' = b /\ undo' = WrittenUndo(b, r.undo)
                /\ spends' = WithSpends(b) /\ txindex' = WithIndex(b)
                /\ UNCHANGED <<stage, torn, verified>>
           ELSE Complain /\ UNCHANGED <<vcoins, vtip, undo, recordVars>>
  BY DEF VerifyConnect
<1> DEFINE r == ConnectBlock(vcoins, b, TRUE)
<1>4. CASE r.ok
  <2>1. b \in Block /\ Sound(b) /\ Sound(Parent[b]) /\ JoinsUpTo(b, Len(Body[b]))
    <3>1. b \in Block /\ Sound(b)
      BY <1>1, ChainContains, SoundChains DEF Active
    <3> QED  BY <1>3, <3>1, ChainStep DEF Sound
  <2>2. AcceptedJoin(unmarked, b, TRUE)
    BY <2>1 DEF AcceptedJoin, JoinsUpTo
  <2>3. r.coins \in CoinSets /\ Same(unmarked, r.coins, CoinsAt[b])
    BY <1>1, <1>3, <1>4, <2>1, <2>2, ConnectBlockGood
  <2> HIDE DEF r
  <2>4. /\ vcoins' = r.coins /\ vtip' = b /\ spends' = WithSpends(b) /\ txindex' = WithIndex(b)
        /\ stage' = "up" /\ verified' = verified /\ torn' = torn
    BY <1>1, <1>3, <1>4 DEF r
  <2>5. undo' = undo
    <3>1. undo[b] # none
      BY <1>1, <1>3 DEF UndoKept
    <3> QED  BY <1>3, <1>4, <3>1 DEF WrittenUndo, r
  <2>6. TypeOK'
    <3>1. \A t \in Tx : r.coins[t] \in CCoins
      BY <2>3 DEF CoinSets
    <3> QED  BY <1>1, <1>2, <1>3, <2>1, <2>4, <2>5, <3>1, RecordsType DEF TypeOK
  <2>7. CoinTypes' /\ Places' /\ UndoKept' /\ RewardsKept' /\ CoinsMatchChain'
    BY <1>1, <1>2, <1>3, <2>3, <2>4, <2>5
       DEF CoinTypes, Places, UndoKept, RewardsKept, Active, CoinsMatchChain
  <2>8. Indexed'
    <3> SUFFICES ASSUME NEW a \in Active \ {Genesis}, NEW t \in Txs(a) PROVE txindex'[t] = a
      BY <1>2 DEF Indexed, Active
    <3>1. t \in Tx
      BY <1>1, BodyType, ChainContains DEF Active
    <3>2. CASE t \in Txs(b)
      <4>1. a = b
        BY <1>1, <1>3, <3>2, SharedByNone DEF Active
      <4> QED  BY <2>4, <3>1, <3>2, <4>1 DEF WithIndex
    <3>3. CASE t \notin Txs(b)
      BY <1>1, <2>4, <3>1, <3>3 DEF WithIndex, Indexed
    <3> QED  BY <3>2, <3>3
  <2>9. Clean' /\ Sound(tip)'
    BY <1>1, <1>2, <2>4 DEF Clean, MarkLost, Active
  <2> QED  BY <2>6, <2>7, <2>8, <2>9 DEF CoinInv
<1>5. CASE ~r.ok
  <2>1. /\ stage' \in {"ready", "corrupt"} /\ verified' = FALSE
        /\ torn' = torn \/ torn' = torn \cup BrokenOff
        /\ UNCHANGED <<vcoins, vtip, undo, spends, txindex>>
    BY <1>3, <1>5 DEF Complain, recordVars
  <2>2. TypeOK'
    <3>1. BrokenOff \subseteq Block
      BY <1>1, ChainContains DEF BrokenOff, Active
    <3> QED  BY <1>1, <1>2, <2>1, <3>1 DEF TypeOK
  <2> QED  BY <1>1, <1>2, <2>1, <2>2, ChainUnchanged
<1> QED  BY <1>4, <1>5

\* A process that ends in order and the next one.
LEMMA RestartKeepsCoins ==
  ASSUME CoinInv, stage # "flush", Restart, torn' \in SUBSET Block,
         UNCHANGED <<tip, coins, undo, spends, txindex, unmarked, used>>
  PROVE  CoinInv'
<1>1. /\ Flushed(coins, tip) /\ stage' = "down" /\ vcoins' = coins /\ vtip' = tip
      /\ vclean' = TRUE /\ vstart' = TRUE /\ verified' = TRUE /\ stopping' = FALSE
  BY DEF Restart, Verify
<1>2. TypeOK'
  BY <1>1 DEF CoinInv, TypeOK, Flushed
<1> QED  BY <1>1, <1>2, ChainUnchanged

\* At the end it leaves its view.
LEMMA VerifyEndKeepsCoins ==
  ASSUME CoinInv, VerifyEnd
  PROVE  CoinInv'
<1>1. /\ stage = "up" /\ torn' \in SUBSET Block
      /\ \/ Restart
         \/ stage' = "ready" /\ UNCHANGED <<diskVars, verifyVars, stopping>>
      /\ UNCHANGED <<tip, coins, undo, spends, txindex, unmarked, used>>
  BY DEF VerifyEnd, chainVars, recordVars, CoinInv, TypeOK
<1>2. CASE Restart
  BY <1>1, <1>2, RestartKeepsCoins
<1>3. CASE stage' = "ready" /\ UNCHANGED <<diskVars, verifyVars, stopping>>
  <2>1. UNCHANGED <<dbTip, dbCoins, dbUndo, vcoins, vtip, vclean, vstart, verified, stopping>>
    BY <1>3 DEF diskVars, verifyVars
  <2>2. TypeOK'
    BY <1>1, <1>3, <2>1 DEF CoinInv, TypeOK
  <2> QED  BY <1>1, <1>3, <2>1, <2>2, ChainUnchanged
<1> QED  BY <1>1, <1>2, <1>3

\* And so when it is stopped.
LEMMA VerifyStoppedKeepsCoins ==
  ASSUME CoinInv, VerifyStopped
  PROVE  CoinInv'
<1>0. BrokenOff \subseteq Block
  BY ChainContains DEF BrokenOff, Active, CoinInv, TypeOK
<1>1. /\ stage = "down" /\ torn' \in SUBSET Block
      /\ \/ Restart
         \/ stage' = "ready" /\ UNCHANGED <<diskVars, verifyVars, stopping>>
      /\ UNCHANGED <<tip, coins, undo, spends, txindex, unmarked, used>>
  BY <1>0 DEF VerifyStopped, chainVars, recordVars, CoinInv, TypeOK
<1>2. CASE Restart
  BY <1>1, <1>2, RestartKeepsCoins
<1>3. CASE stage' = "ready" /\ UNCHANGED <<diskVars, verifyVars, stopping>>
  <2>1. UNCHANGED <<dbTip, dbCoins, dbUndo, vcoins, vtip, vclean, vstart, verified, stopping>>
    BY <1>3 DEF diskVars, verifyVars
  <2>2. TypeOK'
    BY <1>1, <1>3, <2>1 DEF CoinInv, TypeOK
  <2> QED  BY <1>1, <1>3, <2>1, <2>2, ChainUnchanged
<1> QED  BY <1>1, <1>2, <1>3

\* A request for shutdown is only a flag.
LEMMA StartShutdownKeepsCoins ==
  ASSUME CoinInv, StartShutdown
  PROVE  CoinInv'
<1>1. /\ stopping' = TRUE /\ Use("stop")
      /\ UNCHANGED <<tip, coins, undo, dbTip, dbCoins, dbUndo, spends, txindex, stage,
                     vcoins, vtip, vclean, vstart, verified, unmarked, torn>>
  BY DEF StartShutdown, chainVars, diskVars, recordVars, verifyVars, historyVars
<1>2. TypeOK'
  <2>1. used' \in [Operations -> Nat]
    BY <1>1 DEF CoinInv, TypeOK, Use, Operations
  <2> QED  BY <1>1, <2>1 DEF CoinInv, TypeOK
<1> QED  BY <1>1, <1>2, ChainUnchanged

\* Shutdown and another start.
LEMMA ShutdownKeepsCoins ==
  ASSUME CoinInv, Shutdown \/ StartAgain
  PROVE  CoinInv'
<1>1. /\ stage # "flush" /\ Restart /\ torn' \in SUBSET Block
      /\ UNCHANGED <<tip, coins, undo, spends, txindex, unmarked, used>>
  BY DEF Shutdown, StartAgain, chainVars, recordVars, historyVars, CoinInv, TypeOK
<1> QED  BY <1>1, RestartKeepsCoins

\* A crash takes chain, coins and undo data back to one and the same flush.
LEMMA CrashKeepsCoins ==
  ASSUME CoinInv, Crash
  PROVE  CoinInv'
<1>1. /\ TypeOK /\ CoinTypes /\ Places /\ UndoKept /\ Sound(tip) /\ Indexed /\ RewardsKept
      /\ tip \in Block /\ Same(unmarked, dbCoins, CoinsAt[dbTip])
  BY DEF CoinInv, CoinsMatchChain, TypeOK
<1>2. /\ tip' = dbTip /\ coins' = dbCoins
      /\ undo' = [b \in Block |-> IF b \in dbUndo THEN undo[b] ELSE none]
      /\ stage' = "down" /\ vcoins' = dbCoins /\ vtip' = dbTip /\ vclean' = TRUE /\ vstart' = TRUE
      /\ verified' = TRUE /\ stopping' = FALSE
      /\ torn' = torn \/ torn' = torn \cup BrokenOff
      /\ UNCHANGED <<dbTip, dbCoins, dbUndo, spends, txindex, unmarked>>
      /\ Use("crash")
  BY DEF Crash, Verify, diskVars, recordVars
<1>3. /\ dbTip \in Block /\ dbTip \in Active /\ Chain[dbTip] \subseteq Active
      /\ Active \subseteq Block /\ dbTip \in Chain[dbTip]
  <2>1. dbTip \in Active /\ Active \subseteq Block /\ dbTip \in Block
    BY <1>1, ChainContains DEF Places, Active
  <2> QED  BY <1>1, <2>1, ChainTransitive, ChainContains DEF Active
<1>4. TypeOK'
  <2>1. used' \in [Operations -> Nat]
    BY <1>1, <1>2 DEF TypeOK, Use, Operations
  <2>2. DOMAIN undo' = Block /\ BrokenOff \subseteq Block
    BY <1>2, <1>3 DEF BrokenOff
  <2> QED  BY <1>1, <1>2, <1>3, <2>1, <2>2 DEF TypeOK
<1>5. CoinTypes' /\ Places' /\ Indexed' /\ RewardsKept' /\ Clean' /\ CoinsMatchChain'
  BY <1>1, <1>2, <1>3 DEF CoinTypes, Places, Indexed, RewardsKept, Clean, Active, CoinsMatchChain
<1>6. UndoKept'
  <2>1. \A b \in Block : undo'[b] = IF b \in dbUndo THEN undo[b] ELSE none
    BY <1>2
  <2>2. dbUndo \subseteq Block
    BY <1>1 DEF TypeOK
  <2> QED  BY <1>1, <1>2, <1>3, <2>1, <2>2 DEF UndoKept, Active
<1>7. Sound(tip)'
  BY <1>1, <1>2, <1>3, SoundChains DEF Active
<1> QED  BY <1>4, <1>5, <1>6, <1>7 DEF CoinInv

\* All steps keep the coins.
LEMMA CoinStep ==
  ASSUME CoinbaseOnce, CoinInv, [Next]_vars
  PROVE  CoinInv'
<1>1. ASSUME NEW b \in Block \ {Genesis}, ConnectTip(b) PROVE CoinInv'
  BY <1>1, ConnectTipKeepsCoins
<1>2. CASE DisconnectTip
  BY <1>2, DisconnectTipKeepsCoins
<1>3. CASE DisconnectEnd
  BY <1>3, DisconnectEndKeepsCoins
<1>4. CASE FlushStateToDisk
  BY <1>4, FlushKeepsCoins
<1>5. CASE VerifyChain
  BY <1>5, VerifyChainKeepsCoins
<1>6. CASE VerifyDisconnect
  BY <1>6, VerifyDisconnectKeepsCoins
<1>7. CASE VerifyTurn
  BY <1>7, VerifyTurnKeepsCoins
<1>8. CASE VerifyConnect
  BY <1>8, VerifyConnectKeepsCoins
<1>9. CASE VerifyEnd
  BY <1>9, VerifyEndKeepsCoins
<1>10. CASE VerifyStopped
  BY <1>10, VerifyStoppedKeepsCoins
<1>11. CASE StartShutdown
  BY <1>11, StartShutdownKeepsCoins
<1>12. CASE Shutdown \/ StartAgain
  BY <1>12, ShutdownKeepsCoins
<1>13. CASE Crash
  BY <1>13, CrashKeepsCoins
<1>14. CASE UNCHANGED vars
  <2>1. UNCHANGED <<tip, coins, undo, dbTip, dbCoins, dbUndo, spends, txindex, stage,
                    vcoins, vtip, vclean, vstart, verified, stopping, unmarked, torn, used>>
    BY <1>14 DEF vars, chainVars, diskVars, recordVars, verifyVars, historyVars
  <2>2. TypeOK'
    BY <2>1 DEF CoinInv, TypeOK
  <2> QED  BY <2>1, <2>2, ChainUnchanged
<1> QED  BY <1>1, <1>2, <1>3, <1>4, <1>5, <1>6, <1>7, <1>8, <1>9, <1>10, <1>11, <1>12, <1>13, <1>14 DEF Next

\* In every behaviour the coins are those of a chain, but for lost marks.
THEOREM CoinsKept ==
  ASSUME CoinbaseOnce
  PROVE  Spec => []CoinInv
<1>1. Init => CoinInv
  BY CoinInit
<1>2. CoinInv /\ [Next]_vars => CoinInv'
  BY CoinStep
<1> QED  BY <1>1, <1>2, PTL DEF Spec

\* Every variable keeps its type.
THEOREM LedgerTypesCorrect ==
  ASSUME CoinbaseOnce
  PROVE  Spec => []TypeOK
<1>1. CoinInv => TypeOK
  BY DEF CoinInv
<1> QED  BY <1>1, CoinsKept, PTL

\* The coins are those of the chain, metadata included, in memory, on disk and
\* in the view that verifies; only a coinstake of which undo data restored the
\* last output may have lost its mark.
THEOREM CoinsCorrect ==
  ASSUME CoinbaseOnce
  PROVE  Spec => []CoinsMatchChain
<1>1. CoinInv => CoinsMatchChain
  BY DEF CoinInv
<1> QED  BY <1>1, CoinsKept, PTL

\* A transaction that is there was mined at the place that BlocksOf names.
LEMMA BornInBlock ==
  ASSUME NEW b \in Block, b # Genesis, JoinsUpTo(b, Len(Body[b])), NEW i \in 1 .. Len(Body[b]),
         NEW q \in Tx, Born(b, i - 1)[q] # 0
  PROVE  Born(b, i - 1)[q] = BornAt(b, q) /\ BlocksOf(b, q) # {}
<1>0. /\ TxsUpTo(b, i - 1) \subseteq Txs(b)
      /\ \A t \in Txs(b) : BlocksOf(Parent[b], t) = {}
  <2>1. 1 .. i - 1 \subseteq 1 .. Len(Body[b])
    BY BodyType
  <2>2. ASSUME NEW t \in Txs(b) PROVE BlocksOf(Parent[b], t) = {}
    <3>1. PICK j \in 1 .. Len(Body[b]) : t = Body[b][j] /\ t \in Tx
      BY BodyType
    <3>2. Born(b, j - 1)[t] = 0
      BY <3>1 DEF JoinsUpTo, Joins
    <3> QED  BY <3>1, <3>2, BlockType
  <2> QED  BY <2>1, <2>2, BodyType DEF TxsUpTo
<1>1. q \in TxsUpTo(b, i - 1) \/ BlocksOf(Parent[b], q) # {}
  BY BlockType
<1>2. CASE q \in TxsUpTo(b, i - 1)
  <2>1. BlocksOf(b, q) = {b}
    BY <1>0, <1>2, BlocksOfStep
  <2>2. {b} \in SUBSET Chain[b] /\ {b} # {}
    BY ChainContains
  <2>3. Highest({b}) = b
    BY <2>2, HighestIsOne
  <2> QED  BY <1>2, <2>1, <2>3 DEF Born, BornAt
<1>3. CASE q \notin TxsUpTo(b, i - 1)
  <2>1. q \notin Txs(b) /\ BlocksOf(Parent[b], q) # {}
    BY <1>0, <1>1, <1>3
  <2>0. BlocksOf(b, q) = BlocksOf(Parent[b], q) \cup (IF q \in Txs(b) THEN {b} ELSE {})
    BY BlocksOfStep
  <2>2. BlocksOf(b, q) = BlocksOf(Parent[b], q)
    BY ONLY <2>0, <2>1
  <2>3. BornAt(b, q) = BornAt(Parent[b], q)
    BY <2>2 DEF BornAt
  <2>4. Born(b, i - 1)[q] = BornAt(Parent[b], q)
    BY <1>3 DEF Born
  <2> QED  BY <2>1, <2>2, <2>3, <2>4
<1> QED  BY <1>2, <1>3

\* Rewards are left to mature, but for those that may have lost their mark.
THEOREM MaturityCorrect ==
  ASSUME CoinbaseOnce
  PROVE  Spec => []MaturityKept
<1>1. ASSUME CoinInv PROVE MaturityKept
  <2> SUFFICES ASSUME NEW b \in Active \ {Genesis}, NEW t \in Txs(b), NEW k \in DOMAIN Ins[t],
                      NEW q, q = Ins[t][k][1],
                      Kind[q] = "coinbase" \/ (Kind[q] = "coinstake" /\ q \notin unmarked)
               PROVE  Height[b] - Height[Highest(BlocksOf(b, q))] >= Maturity
    BY DEF MaturityKept
  <2>1. tip \in Block /\ Sound(tip) /\ RewardsKept
    BY <1>1 DEF CoinInv, TypeOK
  <2>2. b \in Block /\ JoinsUpTo(b, Len(Body[b]))
    BY <2>1, ChainContains DEF Active, Sound
  <2>3. PICK i \in 1 .. Len(Body[b]) : t = Body[b][i] /\ t \in Tx
    BY <2>2, BodyType
  <2>4. q \in Tx
    BY <2>3, TxType
  <2>5. Born(b, i - 1)[q] # 0 /\ Height[b] - Born(b, i - 1)[q] >= Maturity
    <3>1. InputsThere(b, i) /\ MaturedAt(unmarked, b, i)
      BY <2>1, <2>2, <2>3 DEF JoinsUpTo, Joins, RewardsKept
    <3> QED  BY <2>3, <3>1 DEF InputsThere, MaturedAt
  <2>6. Born(b, i - 1)[q] = Height[Highest(BlocksOf(b, q))]
    BY <2>2, <2>4, <2>5, BornInBlock DEF BornAt
  <2> QED  BY <2>5, <2>6
<1>2. CoinInv => MaturityKept
  BY <1>1
<1> QED  BY <1>2, CoinsKept, PTL
-----------------------------------------------------------------------------
(***************************************************************************)
(* zerocoinDB goes its own way, on disk and at once.  While a block is     *)
(* being taken back, or CVerifyDB has it out of its view, its serials are  *)
(* erased; and when a start does not come to its end, they stay so until   *)
(* the next one has come by.  The blocks that verifychain leaves like that *)
(* are torn, and nothing is said of what they spend.                       *)
(***************************************************************************)

Recorded(b) == \A t \in Txs(b) : \A s \in Serials[t] : spends[s] = t
Apart(a, b) == \A t \in Txs(a), u \in Txs(b) : Serials[t] \cap Serials[u] = {}

\* The serials of b may be missing.
Erased(b) ==
  \/ stage = "flush" /\ b = tip
  \/ stage \in {"down", "up"} /\ b \notin Chain[vtip]
  \/ stage \in {"down", "corrupt"} /\ vstart = TRUE /\ Deep(b)
SpendsKept == \A b \in Active \ ({Genesis} \cup torn) : Recorded(b) \/ Erased(b)

\* A block spends nothing again that an untorn block below it spent.
SerialsNew ==
  \A b \in Active \ {Genesis} : \A a \in Chain[Parent[b]] \ ({Genesis} \cup torn) : Apart(a, b)

\* What level 4 makes sure of: once it has come up to a block, that block is as
\* good as untorn.  Above its view only what the view itself spends is there.
Sure(a) == a \notin torn \/ Deep(a)
Held(s) == \E a \in Chain[vtip] \ {Genesis} : \E t \in Txs(a) : s \in Serials[t] /\ spends[s] = t
InView ==
  /\ stage \in {"down", "up"} => Height[vtip] >= Height[tip] - Depth - 1
  /\ stage = "up" => \A b \in Chain[vtip] \ {Genesis} :
       /\ \A a \in Chain[Parent[b]] \ {Genesis} : Sure(a) => Apart(a, b)
       /\ Sure(b) => Recorded(b)
  /\ stage \in {"down", "up"} =>
       \A b \in Active \ Chain[vtip] : \A t \in Txs(b) : \A s \in Serials[t] : spends[s] = none \/ Held(s)
  /\ stage = "corrupt" => vstart = TRUE
RecordInv == SpendsKept /\ SerialsNew /\ InView

\* The blocks of a chain, their places and their transactions.
LEMMA ActiveType ==
  ASSUME CoinInv
  PROVE  /\ tip \in Block /\ tip \in Active /\ Active \subseteq Block /\ Depth \in Nat /\ Height[tip] \in Nat
         /\ \A b \in Active : Height[b] \in Nat /\ Height[b] <= Height[tip]
         /\ \A b \in Active \ {Genesis} : \A t \in Txs(b) :
              t \in Tx /\ Serials[t] \subseteq Serial /\ txindex[t] = b
         /\ stage \in {"down", "up"} => vtip \in Active /\ Chain[vtip] \subseteq Active
<1>1. tip \in Block /\ tip \in Active /\ Active \subseteq Block
  BY ChainContains DEF CoinInv, TypeOK, Active
<1>2. \A b \in Active : Height[b] \in Nat /\ Height[b] <= Height[tip]
  <2> TAKE b \in Active
  <2>1. Height[b] \in Nat /\ Height[tip] \in Nat
    BY <1>1, HeightType
  <2>2. b = tip \/ Height[b] < Height[tip]
    BY <1>1, HeightGrows DEF Active
  <2> QED  BY <2>1, <2>2
<1>3. Depth \in Nat
  BY <1>1, <1>2, LedgerAssumption DEF Depth
<1>4. \A b \in Active \ {Genesis} : \A t \in Txs(b) :
        t \in Tx /\ Serials[t] \subseteq Serial /\ txindex[t] = b
  BY <1>1, BodyType, TxType DEF CoinInv, Indexed
<1>5. stage \in {"down", "up"} => vtip \in Active /\ Chain[vtip] \subseteq Active
  BY <1>1, ChainTransitive DEF CoinInv, Places, Active
<1> QED  BY <1>1, <1>2, <1>3, <1>4, <1>5

\* What connecting and disconnecting a block do to a serial.
LEMMA SpendsOfBlock ==
  ASSUME NEW b \in Block, b # Genesis
  PROVE  /\ \A t \in Txs(b) : \A s \in Serials[t] : WithSpends(b)[s] = t /\ WithoutSpends(b)[s] = none
         /\ \A s \in Serial : (\A t \in Txs(b) : s \notin Serials[t]) =>
              WithSpends(b)[s] = spends[s] /\ WithoutSpends(b)[s] = spends[s]
<1>1. ASSUME NEW t \in Txs(b), NEW s \in Serials[t]
      PROVE  WithSpends(b)[s] = t /\ WithoutSpends(b)[s] = none
  <2>1. s \in Serial
    BY BodyType, TxType
  <2>2. ASSUME NEW u \in Txs(b), s \in Serials[u] PROVE u = t
    <3>1. PICK i \in 1 .. Len(Body[b]) : t = Body[b][i]
      BY BodyType
    <3>2. PICK j \in 1 .. Len(Body[b]) : u = Body[b][j]
      BY BodyType
    <3>3. CASE i = j
      BY <3>1, <3>2, <3>3
    <3>4. CASE i # j
      <4>1. Serials[Body[b][i]] \cap Serials[Body[b][j]] = {}
        BY <3>4, BodyType
      <4> QED  BY <2>2, <3>1, <3>2, <4>1
    <3> QED  BY <3>3, <3>4
  <2>3. (CHOOSE u \in Txs(b) : s \in Serials[u]) = t
    BY <2>2
  <2> QED  BY <2>1, <2>3 DEF WithSpends, WithoutSpends
<1>2. ASSUME NEW s \in Serial, \A t \in Txs(b) : s \notin Serials[t]
      PROVE  WithSpends(b)[s] = spends[s] /\ WithoutSpends(b)[s] = spends[s]
  BY <1>2 DEF WithSpends, WithoutSpends
<1> QED  BY <1>1, <1>2

\* To a block that spends nothing of what b spends they do nothing.
LEMMA SpendsOfOthers ==
  ASSUME NEW a \in Block \ {Genesis}, NEW b \in Block \ {Genesis}, Apart(a, b), Recorded(a)
  PROVE  \A t \in Txs(a) : \A s \in Serials[t] : WithSpends(b)[s] = t /\ WithoutSpends(b)[s] = t
<1> SUFFICES ASSUME NEW t \in Txs(a), NEW s \in Serials[t]
             PROVE  WithSpends(b)[s] = t /\ WithoutSpends(b)[s] = t
  OBVIOUS
<1>1. s \in Serial
  BY BodyType, TxType
<1>2. \A u \in Txs(b) : s \notin Serials[u]
  BY DEF Apart
<1>3. spends[s] = t
  BY DEF Recorded
<1> QED  BY <1>1, <1>2, <1>3, SpendsOfBlock

\* What may be missing in CVerifyDB lies within its depth.
LEMMA ErasedHigh ==
  ASSUME CoinInv, RecordInv, stage \in {"down", "up", "corrupt"}, NEW b \in Active, Erased(b)
  PROVE  Deep(b)
<1>1. /\ tip \in Block /\ Depth \in Nat /\ Height[tip] \in Nat /\ Height[b] \in Nat /\ b \in Block
      /\ stage \in {"down", "up"} => vtip \in Active /\ vtip \in Block /\ Height[vtip] \in Nat
  BY ActiveType
<1>2. CASE stage \in {"down", "up"} /\ b \notin Chain[vtip]
  <2>1. vtip \in Chain[b] /\ b # vtip
    BY <1>1, <1>2, ChainLinear, ChainContains DEF Active
  <2>2. Height[vtip] < Height[b]
    BY <1>1, <2>1, HeightGrows
  <2>3. Height[vtip] >= Height[tip] - Depth - 1
    BY <1>2 DEF RecordInv, InView
  <2> QED  BY <1>1, <1>2, <2>2, <2>3 DEF Deep
<1> QED  BY <1>2 DEF Erased

\* A verification begins with everything in its view.
LEMMA VerifyBegins ==
  ASSUME CoinInv, tip' \in Active, vtip' = tip', stage' = "down",
         \A b \in Chain[tip'] \ ({Genesis} \cup torn') : Recorded(b)' \/ (vstart' = TRUE /\ Deep(b)'),
         SerialsNew'
  PROVE  RecordInv'
<1>1. tip' \in Block /\ Height[tip'] \in Nat
  BY ActiveType
<1>2. Depth' \in Nat
  BY <1>1, LedgerAssumption DEF Depth
<1>3. InView'
  BY <1>1, <1>2 DEF InView, Active
<1>4. SpendsKept'
  BY DEF SpendsKept, Erased, Active
<1> QED  BY <1>3, <1>4 DEF RecordInv

\* At the start nothing is spent.
LEMMA RecordInit == Init => RecordInv
<1> SUFFICES ASSUME Init PROVE RecordInv
  OBVIOUS
<1>1. Chain[Genesis] = {Genesis}
  BY ChainOfGenesis
<1> QED  BY <1>1 DEF Init, RecordInv, SerialsNew, SpendsKept, InView, Active

\* An accepted block spends nothing that zerocoinDB has of a block of the chain.
LEMMA AcceptedApart ==
  ASSUME CoinInv, NEW lost, NEW b \in Block \ {Genesis}, NEW f,
         \A i \in 1 .. Len(Body[b]) : Accepted(lost, b, i, f),
         NEW a \in Active \ {Genesis}, Recorded(a)
  PROVE  Apart(a, b)
<1> SUFFICES ASSUME NEW u \in Txs(a), NEW t \in Txs(b), NEW s \in Serials[t] \cap Serials[u]
             PROVE  FALSE
  BY DEF Apart
<1>1. PICK i \in 1 .. Len(Body[b]) : t = Body[b][i] /\ t \in Tx
  BY BodyType
<1>2. u \in Tx /\ txindex[u] = a /\ a \in Block /\ spends[s] = u
  BY ActiveType DEF Recorded
<1>3. SerialInChain(s)
  BY <1>2, LedgerAssumption DEF TransactionInChain, SerialInChain
<1>4. Kind[t] = "spend"
  BY <1>1, TxType
<1> QED  BY <1>1, <1>3, <1>4 DEF Accepted, AcceptTx

\* A block spends no serial that the chain spent, for zerocoinDB names those.
LEMMA ConnectTipKeepsRecords ==
  ASSUME CoinbaseOnce, CoinInv, RecordInv, NEW b \in Block \ {Genesis}, ConnectTip(b)
  PROVE  RecordInv'
<1>1. /\ stage = "ready" /\ Parent[b] = tip /\ ConnectBlock(coins, b, FALSE).ok
      /\ tip' = b /\ spends' = WithSpends(b) /\ stage' = "ready" /\ torn' = torn \ {b}
  BY DEF ConnectTip
<1>2. tip \in Block /\ Sound(tip) /\ coins \in CoinSets /\ Same(unmarked, coins, CoinsAt[tip])
  BY <1>1 DEF CoinInv, CoinTypes, TypeOK, CoinsMatchChain
<1>3. \A i \in 1 .. Len(Body[b]) : Accepted(unmarked, b, i, FALSE)
  BY <1>1, <1>2, TipAccepts, ConnectBlockGood
<1>4. Chain[b] = Chain[tip] \cup {b} /\ b \notin Chain[tip] /\ Active \subseteq Block
  BY <1>1, <1>2, ChainStep, ActiveType
<1>5. \A a \in Active \ ({Genesis} \cup torn') : Recorded(a) /\ a \notin torn
  BY <1>1, <1>4 DEF RecordInv, SpendsKept, Erased, Active
<1>6. \A a \in Active \ ({Genesis} \cup torn') : Apart(a, b)
  BY <1>3, <1>5, AcceptedApart
<1>7. SerialsNew'
  <2> SUFFICES ASSUME NEW c \in Chain[b] \ {Genesis}, NEW a \in Chain[Parent[c]] \ ({Genesis} \cup torn')
               PROVE  Apart(a, c)
    BY <1>1 DEF SerialsNew, Active, Apart
  <2>1. CASE c = b
    BY <1>1, <1>6, <2>1 DEF Active
  <2>2. CASE c # b
    <3>1. c \in Active /\ a \in Active
      BY <1>2, <1>4, <2>2, ChainClosed, ChainTransitive DEF Active
    <3> QED  BY <1>5, <3>1 DEF RecordInv, SerialsNew
  <2> QED  BY <2>1, <2>2
<1>8. SpendsKept'
  <2> SUFFICES ASSUME NEW a \in Chain[b] \ ({Genesis} \cup torn') PROVE Recorded(a)'
    BY <1>1 DEF SpendsKept, Active
  <2>1. CASE a = b
    BY <1>1, <2>1, SpendsOfBlock DEF Recorded
  <2>2. CASE a # b
    <3>1. a \in Active
      BY <1>4, <2>2 DEF Active
    <3>2. \A t \in Txs(a) : \A s \in Serials[t] : WithSpends(b)[s] = t
      BY <1>4, <1>5, <1>6, <3>1, SpendsOfOthers
    <3> QED  BY <1>1, <3>2 DEF Recorded
  <2> QED  BY <2>1, <2>2
<1> QED  BY <1>1, <1>7, <1>8 DEF RecordInv, InView

\* A block on its way out has lost its serials, and no untorn one below it.
LEMMA DisconnectTipKeepsRecords ==
  ASSUME CoinInv, RecordInv, DisconnectTip
  PROVE  RecordInv'
<1>1. /\ stage = "ready" /\ tip # Genesis /\ spends' = WithoutSpends(tip) /\ tip' = tip
      /\ \/ stage' = "flush" /\ torn' = torn
         \/ stage' = "ready" /\ torn' = torn \cup {tip}
  BY DEF DisconnectTip
<1>2. tip \in Block /\ tip \in Active /\ Active \subseteq Block
  BY ActiveType
<1>3. Chain[tip] = Chain[Parent[tip]] \cup {tip}
  BY <1>1, <1>2, ChainStep
<1>4. SpendsKept'
  <2> SUFFICES ASSUME NEW a \in Active \ ({Genesis} \cup torn), a # tip PROVE Recorded(a)'
    BY <1>1 DEF SpendsKept, Active, Erased
  <2>1. Recorded(a)
    BY <1>1 DEF RecordInv, SpendsKept, Erased
  <2>2. Apart(a, tip)
    BY <1>1, <1>2, <1>3 DEF RecordInv, SerialsNew, Active
  <2>3. \A t \in Txs(a) : \A s \in Serials[t] : WithoutSpends(tip)[s] = t
    BY <1>1, <1>2, <2>1, <2>2, SpendsOfOthers
  <2> QED  BY <1>1, <2>3 DEF Recorded
<1>5. SerialsNew'
  BY <1>1 DEF RecordInv, SerialsNew, Active, Apart
<1> QED  BY <1>1, <1>4, <1>5 DEF RecordInv, InView

\* The block is gone.
LEMMA DisconnectEndKeepsRecords ==
  ASSUME CoinInv, RecordInv, DisconnectEnd
  PROVE  RecordInv'
<1>1. /\ stage = "flush" /\ tip' = Parent[tip] /\ stage' = "ready"
      /\ UNCHANGED <<spends, torn>>
  BY DEF DisconnectEnd, recordVars, historyVars
<1>2. tip \in Block /\ tip # Genesis
  BY <1>1 DEF CoinInv, TypeOK, Places
<1>3. Chain[tip] = Chain[Parent[tip]] \cup {tip} /\ tip \notin Chain[Parent[tip]]
  BY <1>2, ChainStep
<1>4. SpendsKept'
  BY <1>1, <1>3 DEF RecordInv, SpendsKept, Erased, Recorded, Active
<1>5. SerialsNew'
  BY <1>1, <1>3 DEF RecordInv, SerialsNew, Active, Apart
<1> QED  BY <1>1, <1>4, <1>5 DEF RecordInv, InView

\* What has nothing to do with zerocoinDB or with the view keeps the records.
LEMMA RecordsUnchanged ==
  ASSUME RecordInv, UNCHANGED <<tip, spends, stage, vtip, vstart, torn>>
  PROVE  RecordInv'
<1>1. Depth' = Depth
  BY DEF Depth
<1>2. SpendsKept' /\ SerialsNew'
  BY <1>1 DEF RecordInv, SpendsKept, SerialsNew, Erased, Deep, Recorded, Apart, Active
<1>3. InView'
  BY <1>1 DEF RecordInv, InView, Sure, Held, Deep, Recorded, Apart, Active
<1> QED  BY <1>2, <1>3 DEF RecordInv

\* verifychain begins when nothing is missing.
LEMMA VerifyChainKeepsRecords ==
  ASSUME CoinInv, RecordInv, VerifyChain
  PROVE  RecordInv'
<1>1. /\ stage = "ready" /\ stage' = "down" /\ vtip' = tip
      /\ UNCHANGED <<tip, spends, torn>>
  BY DEF VerifyChain, Verify, chainVars, recordVars, historyVars
<1>2. \A b \in Active \ ({Genesis} \cup torn) : Recorded(b)'
  BY <1>1 DEF RecordInv, SpendsKept, Erased, Recorded
<1>3. SerialsNew'
  BY <1>1 DEF RecordInv, SerialsNew, Active, Apart
<1> QED  BY <1>1, <1>2, <1>3, ActiveType, VerifyBegins DEF Active

\* On its way down CVerifyDB erases what it comes by.
LEMMA VerifyDisconnectKeepsRecords ==
  ASSUME CoinInv, RecordInv, VerifyDisconnect
  PROVE  RecordInv'
<1>1. /\ stage = "down" /\ vtip # Genesis /\ Deep(vtip)
      /\ vtip' = Parent[vtip] /\ spends' = WithoutSpends(vtip)
      /\ UNCHANGED <<tip, stage, vstart, torn>>
  BY DEF VerifyDisconnect, Below, chainVars
<1>2. /\ vtip \in Active /\ vtip \in Block /\ tip \in Block /\ Depth \in Nat /\ Height[tip] \in Nat
      /\ Active \subseteq Block
  BY <1>1, ActiveType
<1>3. /\ Chain[vtip] = Chain[Parent[vtip]] \cup {vtip} /\ vtip \notin Chain[Parent[vtip]]
      /\ Parent[vtip] \in Block
      /\ Height[vtip] = Height[Parent[vtip]] + 1 /\ Height[Parent[vtip]] \in Nat
  BY <1>1, <1>2, ChainStep, HeightStep, HeightType
<1>4. Depth' = Depth
  BY <1>1 DEF Depth
<1>5. SpendsKept'
  <2> SUFFICES ASSUME NEW a \in Active \ ({Genesis} \cup torn), a \in Chain[Parent[vtip]],
                      ~(vstart = TRUE /\ Deep(a))
               PROVE  Recorded(a)'
    BY <1>1, <1>4 DEF SpendsKept, Active, Erased, Deep
  <2>1. Recorded(a)
    BY <1>1, <1>3 DEF RecordInv, SpendsKept, Erased
  <2>2. Apart(a, vtip)
    BY <1>1, <1>2 DEF RecordInv, SerialsNew
  <2>3. \A t \in Txs(a) : \A s \in Serials[t] : WithoutSpends(vtip)[s] = t
    BY <1>1, <1>2, <2>1, <2>2, SpendsOfOthers
  <2> QED  BY <1>1, <2>3 DEF Recorded
<1>6. InView'
  <2>1. Height[Parent[vtip]] >= Height[tip] - Depth - 1
    BY <1>1, <1>2, <1>3 DEF Deep
  <2>2. ASSUME NEW a \in Active \ Chain[Parent[vtip]], NEW t \in Txs(a), NEW s \in Serials[t]
        PROVE  spends'[s] = none \/ Held(s)'
    <3>0. a # Genesis /\ s \in Serial
      <4>1. a # Genesis /\ a \in Block
        BY <1>2, <1>3, GenesisInChain
      <4> QED  BY <4>1, BodyType, TxType
    <3>1. CASE \E u \in Txs(vtip) : s \in Serials[u]
      BY <1>1, <1>2, <3>1, SpendsOfBlock
    <3>2. CASE \A u \in Txs(vtip) : s \notin Serials[u]
      <4>1. spends'[s] = spends[s] /\ a # vtip
        BY <1>1, <1>2, <3>0, <3>2, SpendsOfBlock
      <4>2. spends[s] = none \/ Held(s)
        BY <1>1, <1>3, <4>1 DEF RecordInv, InView
      <4>3. Held(s) => Held(s)'
        BY <1>1, <1>3, <3>2, <4>1 DEF Held
      <4> QED  BY <4>1, <4>2, <4>3
    <3> QED  BY <3>1, <3>2
  <2> QED  BY <1>1, <1>4, <2>1, <2>2 DEF InView, Active
<1>7. SerialsNew'
  BY <1>1 DEF RecordInv, SerialsNew, Active, Apart
<1> QED  BY <1>5, <1>6, <1>7 DEF RecordInv

\* A verification that breaks off leaves its blocks to the next start, or torn.
LEMMA BreaksOff ==
  ASSUME CoinInv, RecordInv, stage \in {"down", "up"}, UNCHANGED <<tip, spends, vstart>>,
         \/ vstart = TRUE /\ stage' = "corrupt" /\ torn' = torn
         \/ vstart = FALSE /\ stage' = "ready" /\ torn' = torn \cup BrokenOff
  PROVE  RecordInv'
<1>1. Depth' = Depth
  BY DEF Depth
<1>2. SpendsKept'
  <2>1. CASE vstart = TRUE
    <3> SUFFICES ASSUME NEW a \in Active \ ({Genesis} \cup torn) PROVE Recorded(a) \/ Deep(a)
      BY <1>1, <2>1 DEF SpendsKept, Active, Erased, Deep, Recorded
    <3> QED  BY ErasedHigh DEF RecordInv, SpendsKept
  <2>2. CASE vstart = FALSE
    <3> SUFFICES ASSUME NEW a \in Active \ ({Genesis} \cup torn), a \in Chain[vtip] PROVE Recorded(a)
      BY <2>2 DEF SpendsKept, Active, BrokenOff, Recorded
    <3> QED  BY <2>2 DEF RecordInv, SpendsKept, Erased
  <2>3. vstart = TRUE \/ vstart = FALSE
    OBVIOUS
  <2> QED  BY <2>1, <2>2, <2>3
<1>3. SerialsNew'
  BY DEF RecordInv, SerialsNew, Active, Apart
<1>4. InView'
  BY DEF InView
<1> QED  BY <1>2, <1>3, <1>4 DEF RecordInv

\* Where it turns round nothing below is missing.
LEMMA VerifyTurnKeepsRecords ==
  ASSUME CoinInv, RecordInv, VerifyTurn
  PROVE  RecordInv'
<1>1. /\ stage = "down" /\ ~Below
      /\ \/ stage' = "up" /\ torn' = torn
         \/ Complain
      /\ UNCHANGED <<tip, spends, vtip, vstart>> /\ vstart \in BOOLEAN
  BY DEF VerifyTurn, Level4, chainVars, recordVars, CoinInv, TypeOK
<1>2. CASE Complain
  BY <1>1, <1>2, BreaksOff DEF Complain
<1>3. CASE stage' = "up" /\ torn' = torn
  <2>1. /\ vtip \in Active /\ vtip \in Block /\ tip \in Block /\ Depth \in Nat /\ Height[tip] \in Nat
        /\ Height[vtip] \in Nat /\ Chain[vtip] \subseteq Active /\ \A a \in Active : Height[a] \in Nat
    BY <1>1, ActiveType
  <2>2. Depth' = Depth
    BY <1>1 DEF Depth
  <2>3. \A a \in Chain[vtip] \ {Genesis} : ~Deep(a)
    <3> TAKE a \in Chain[vtip] \ {Genesis}
    <3>1. vtip # Genesis
      BY ChainOfGenesis
    <3>2. ~Deep(vtip)
      BY <1>1, <3>1 DEF Below
    <3>3. a = vtip \/ Height[a] < Height[vtip]
      BY <2>1, HeightGrows
    <3> QED  BY <2>1, <3>2, <3>3 DEF Deep
  <2>4. SpendsKept'
    BY <1>1, <1>3, <2>2, <2>3 DEF RecordInv, SpendsKept, Erased, Deep, Recorded, Active
  <2>5. SerialsNew'
    BY <1>1, <1>3 DEF RecordInv, SerialsNew, Active, Apart
  <2>6. ASSUME NEW b \in Chain[vtip] \ {Genesis}
        PROVE  /\ \A a \in Chain[Parent[b]] \ {Genesis} : Sure(a) => Apart(a, b)
               /\ Sure(b) => Recorded(b)
    <3>1. b \in Active /\ b \in Block
      BY <2>1, ChainContains DEF Active
    <3>2. Chain[Parent[b]] \subseteq Chain[vtip]
      BY <2>1, <3>1, ChainClosed, ChainTransitive
    <3>3. \A a \in Chain[vtip] \ {Genesis} : Sure(a) => a \notin torn
      BY <2>3 DEF Sure
    <3>4. \A a \in Chain[Parent[b]] \ {Genesis} : Sure(a) => Apart(a, b)
      BY <3>1, <3>2, <3>3 DEF RecordInv, SerialsNew
    <3>5. Sure(b) => Recorded(b)
      BY <1>1, <2>3, <3>1, <3>3 DEF RecordInv, SpendsKept, Erased
    <3> QED  BY <3>4, <3>5
  <2>7. InView'
    <3>1. /\ Height[vtip] >= Height[tip] - Depth - 1
          /\ \A b \in Active \ Chain[vtip] : \A t \in Txs(b) : \A s \in Serials[t] : spends[s] = none \/ Held(s)
      BY <1>1 DEF RecordInv, InView
    <3> QED  BY <1>1, <1>3, <2>2, <2>6, <3>1 DEF InView, Sure, Held, Deep, Recorded, Apart, Active
  <2> QED  BY <2>4, <2>5, <2>7 DEF RecordInv
<1> QED  BY <1>1, <1>2, <1>3

\* On its way up CVerifyDB records what it comes by, and sees that it is new.
LEMMA VerifyConnectKeepsRecords ==
  ASSUME CoinInv, RecordInv, VerifyConnect
  PROVE  RecordInv'
<1>1. /\ stage = "up" /\ vcoins \in CoinSets /\ Same(unmarked, vcoins, CoinsAt[vtip])
      /\ UNCHANGED <<tip, vstart>> /\ vstart \in BOOLEAN
  BY DEF VerifyConnect, CoinInv, CoinTypes, CoinsMatchChain, TypeOK
<1>2. PICK b \in Active \ {Genesis} :
        LET r == ConnectBlock(vcoins, b, TRUE) IN
        /\ Parent[b] = vtip
        /\ IF r.ok
           THEN vtip' = b /\ spends' = WithSpends(b) /\ UNCHANGED <<stage, torn>>
           ELSE Complain /\ UNCHANGED <<spends>>
  BY DEF VerifyConnect, recordVars
<1>3. CASE ~ConnectBlock(vcoins, b, TRUE).ok
  <2>1. Complain /\ UNCHANGED <<spends>>
    BY <1>2, <1>3
  <2> QED  BY <1>1, <2>1, BreaksOff DEF Complain
<1>4. CASE ConnectBlock(vcoins, b, TRUE).ok
  <2>1. vtip' = b /\ spends' = WithSpends(b) /\ UNCHANGED <<stage, torn>>
    BY <1>2, <1>4
  <2>2. /\ vtip \in Active /\ vtip \in Block /\ tip \in Block /\ Depth \in Nat /\ Height[tip] \in Nat
        /\ b \in Block /\ Sound(tip) /\ Chain[vtip] \subseteq Active /\ Active \subseteq Block
    BY <1>1, ActiveType DEF CoinInv
  <2>3. /\ Chain[b] = Chain[vtip] \cup {b} /\ b \notin Chain[vtip]
        /\ Height[b] = Height[vtip] + 1 /\ Height[vtip] \in Nat
    BY <1>2, <2>2, ChainStep, HeightStep, HeightType
  <2>4. \A i \in 1 .. Len(Body[b]) : Accepted(unmarked, b, i, TRUE)
    <3>1. Sound(b) /\ Sound(Parent[b]) /\ JoinsUpTo(b, Len(Body[b]))
      <4>1. Sound(b)
        BY <2>2, SoundChains DEF Active
      <4> QED  BY <2>2, <4>1, ChainStep DEF Sound
    <3>2. AcceptedJoin(unmarked, b, TRUE)
      BY <3>1 DEF AcceptedJoin, JoinsUpTo
    <3> QED  BY <1>1, <1>2, <1>4, <2>2, <3>1, <3>2, ConnectBlockGood
  <2>5. \A a \in Chain[vtip] \ {Genesis} : Recorded(a) => Apart(a, b)
    BY <2>2, <2>4, AcceptedApart
  <2>6. \A a \in Chain[vtip] \ {Genesis} : Recorded(a) => Recorded(a)'
    <3> TAKE a \in Chain[vtip] \ {Genesis}
    <3> SUFFICES ASSUME Recorded(a) PROVE Recorded(a)'
      OBVIOUS
    <3>1. \A t \in Txs(a) : \A s \in Serials[t] : WithSpends(b)[s] = t
      BY <2>2, <2>5, SpendsOfOthers
    <3> QED  BY <2>1, <3>1 DEF Recorded
  <2>7. Recorded(b)'
    BY <2>1, <2>2, SpendsOfBlock DEF Recorded
  <2>8. Depth' = Depth
    BY <1>1 DEF Depth
  <2>9. SpendsKept'
    <3> SUFFICES ASSUME NEW a \in Active \ ({Genesis} \cup torn), a \in Chain[b] PROVE Recorded(a)'
      BY <1>1, <2>1 DEF SpendsKept, Active, Erased
    <3>1. CASE a = b
      BY <2>7, <3>1
    <3>2. CASE a # b
      <4>1. a \in Chain[vtip]
        BY <2>3, <3>2
      <4>2. Recorded(a)
        BY <1>1, <4>1 DEF RecordInv, SpendsKept, Erased
      <4> QED  BY <2>6, <4>1, <4>2
    <3> QED  BY <3>1, <3>2
  <2>10. SerialsNew'
    BY <1>1, <2>1 DEF RecordInv, SerialsNew, Active, Apart
  <2>11. Height[b] >= Height[tip] - Depth - 1
    <3>1. Height[vtip] >= Height[tip] - Depth - 1
      BY <1>1 DEF RecordInv, InView
    <3> QED  BY <2>2, <2>3, <3>1
  <2>12. ASSUME NEW c \in Chain[b] \ {Genesis}
         PROVE  /\ \A a \in Chain[Parent[c]] \ {Genesis} : Sure(a) => Apart(a, c)
                /\ Sure(c) => Recorded(c)'
    <3>0. \A a \in Chain[vtip] \ {Genesis} : Sure(a) => Recorded(a)
      BY <1>1 DEF RecordInv, InView
    <3>1. CASE c = b
      BY <1>2, <2>5, <2>7, <3>0, <3>1
    <3>2. CASE c # b
      <4>1. c \in Chain[vtip] \ {Genesis}
        BY <2>3, <3>2
      <4>2. \A a \in Chain[Parent[c]] \ {Genesis} : Sure(a) => Apart(a, c)
        BY <1>1, <4>1 DEF RecordInv, InView
      <4> QED  BY <2>6, <3>0, <4>1, <4>2
    <3> QED  BY <3>1, <3>2
  <2>13. ASSUME NEW a \in Active \ Chain[b], NEW t \in Txs(a), NEW s \in Serials[t]
         PROVE  spends'[s] = none \/ Held(s)'
    <3>0. a # Genesis /\ s \in Serial
      <4>1. a # Genesis /\ a \in Block
        BY <2>2, GenesisInChain
      <4> QED  BY <4>1, BodyType, TxType
    <3>1. CASE \E u \in Txs(b) : s \in Serials[u]
      <4>1. PICK u \in Txs(b) : s \in Serials[u]
        BY <3>1
      <4>2. spends'[s] = u /\ b \in Chain[b] \ {Genesis}
        BY <2>1, <2>2, <2>3, <4>1, SpendsOfBlock
      <4> QED  BY <2>1, <4>1, <4>2 DEF Held
    <3>2. CASE \A u \in Txs(b) : s \notin Serials[u]
      <4>1. spends'[s] = spends[s] /\ a \notin Chain[vtip]
        BY <2>1, <2>2, <2>3, <3>0, <3>2, SpendsOfBlock
      <4>2. spends[s] = none \/ Held(s)
        BY <1>1, <4>1 DEF RecordInv, InView
      <4>3. Held(s) => Held(s)'
        BY <2>1, <2>3, <4>1 DEF Held
      <4> QED  BY <4>1, <4>2, <4>3
    <3> QED  BY <3>1, <3>2
  <2>14. InView'
    BY <1>1, <2>1, <2>8, <2>11, <2>12, <2>13 DEF InView, Sure, Deep, Apart, Active
  <2> QED  BY <2>9, <2>10, <2>14 DEF RecordInv
<1> QED  BY <1>3, <1>4

\* What the next start finds missing is within its depth.
LEMMA RestartKeepsRecords ==
  ASSUME CoinInv, Restart, UNCHANGED <<tip, spends>>,
         \A b \in Active \ ({Genesis} \cup torn') : Recorded(b) \/ (vstart = TRUE /\ Deep(b)),
         SerialsNew'
  PROVE  RecordInv'
<1>1. stage' = "down" /\ vtip' = tip /\ vstart' = TRUE
  BY DEF Restart, Verify
<1>2. \A b : vstart = TRUE /\ Deep(b) => Deep(b)'
  BY <1>1 DEF Deep, Depth
<1>3. \A b \in Active \ ({Genesis} \cup torn') : Recorded(b)' \/ (vstart' = TRUE /\ Deep(b)')
  BY <1>1, <1>2 DEF Recorded
<1> QED  BY <1>1, <1>3, ActiveType, VerifyBegins DEF Active

\* At the end all that it came by is recorded, and spent once.
LEMMA VerifyEndKeepsRecords ==
  ASSUME CoinInv, RecordInv, VerifyEnd
  PROVE  RecordInv'
<1>1. /\ stage = "up" /\ vtip = tip /\ torn' = torn \ {b \in Active : Deep(b)}
      /\ Restart \/ stage' = "ready"
      /\ UNCHANGED <<tip, spends>>
  BY DEF VerifyEnd, chainVars, recordVars
<1>2. \A b \in Active : b \notin torn' => Sure(b)
  BY <1>1 DEF Sure
<1>3. \A b \in Active \ ({Genesis} \cup torn') : Recorded(b)
  BY <1>1, <1>2 DEF RecordInv, InView, Active
<1>4. SerialsNew'
  <2> SUFFICES ASSUME NEW b \in Active \ {Genesis}, NEW a \in Chain[Parent[b]] \ ({Genesis} \cup torn')
               PROVE  Apart(a, b)
    BY <1>1 DEF SerialsNew, Active, Apart
  <2>1. a \in Active
    BY ActiveType, ChainClosed, ChainTransitive DEF Active
  <2>2. Sure(a)
    BY <1>2, <2>1
  <2> QED  BY <1>1, <2>2 DEF RecordInv, InView, Active
<1>5. CASE Restart
  BY <1>1, <1>3, <1>4, <1>5, RestartKeepsRecords
<1>6. CASE stage' = "ready"
  BY <1>1, <1>3, <1>4, <1>6 DEF RecordInv, SpendsKept, InView, Recorded, Active
<1> QED  BY <1>1, <1>5, <1>6

\* When it is stopped, the blocks it has disconnected are left to the next start or
\* torn.
LEMMA VerifyStoppedKeepsRecords ==
  ASSUME CoinInv, RecordInv, VerifyStopped
  PROVE  RecordInv'
<1>1. /\ stage = "down" /\ vstart \in BOOLEAN
      /\ \/ vstart = TRUE /\ Restart /\ torn' = torn
         \/ vstart = FALSE /\ stage' = "ready" /\ torn' = torn \cup BrokenOff /\ vstart' = vstart
      /\ UNCHANGED <<tip, spends>>
  BY DEF VerifyStopped, chainVars, recordVars, verifyVars, CoinInv, TypeOK
<1>2. CASE vstart = TRUE /\ Restart /\ torn' = torn
  <2>1. \A b \in Active \ ({Genesis} \cup torn) : Recorded(b) \/ Deep(b)
    BY <1>1, ErasedHigh DEF RecordInv, SpendsKept
  <2>2. SerialsNew'
    BY <1>1, <1>2 DEF RecordInv, SerialsNew, Active, Apart
  <2> QED  BY <1>1, <1>2, <2>1, <2>2, RestartKeepsRecords
<1>3. CASE vstart = FALSE /\ stage' = "ready" /\ torn' = torn \cup BrokenOff /\ vstart' = vstart
  BY <1>1, <1>3, BreaksOff
<1> QED  BY <1>1, <1>2, <1>3

\* A shutdown comes when nothing is missing, and a start that failed is made up
\* for by the next.
LEMMA ShutdownKeepsRecords ==
  ASSUME CoinInv, RecordInv, Shutdown \/ StartAgain
  PROVE  RecordInv'
<1>1. /\ stage \in {"ready", "corrupt"} /\ Restart
      /\ UNCHANGED <<tip, spends, torn>>
  BY DEF Shutdown, StartAgain, chainVars, recordVars, historyVars
<1>2. \A b \in Active \ ({Genesis} \cup torn) : Recorded(b) \/ (vstart = TRUE /\ Deep(b))
  BY <1>1 DEF RecordInv, SpendsKept, Erased
<1>3. SerialsNew'
  BY <1>1 DEF RecordInv, SerialsNew, Active, Apart
<1> QED  BY <1>1, <1>2, <1>3, RestartKeepsRecords

\* After a crash the start comes by all that a start had erased, and by a block
\* that was being disconnected.
LEMMA CrashKeepsRecords ==
  ASSUME CoinInv, RecordInv, Crash
  PROVE  RecordInv'
<1>1. /\ tip' = dbTip /\ vtip' = dbTip /\ stage' = "down" /\ vstart' = TRUE /\ spends' = spends
      /\ torn' = IF stage \in {"down", "up"} /\ ~vstart THEN torn \cup BrokenOff ELSE torn
      /\ vstart \in BOOLEAN
  BY DEF Crash, Verify, recordVars, CoinInv, TypeOK
<1>2. /\ dbTip \in Active /\ tip \in Block /\ Chain[dbTip] \subseteq Active
      /\ Depth \in Nat /\ Height[tip] \in Nat /\ Height[dbTip] \in Nat /\ Height[dbTip] <= Height[tip]
      /\ \A b \in Active : Height[b] \in Nat
  BY ActiveType, ChainTransitive DEF CoinInv, Places, Active
<1>3. Depth' \in Nat /\ CheckDepth \in Nat /\ Depth' = IF CheckDepth = 0 THEN Height[dbTip] ELSE CheckDepth
  BY <1>1, <1>2, LedgerAssumption DEF Depth
<1>4. ASSUME NEW b \in Chain[dbTip] \ ({Genesis} \cup torn')
      PROVE  Recorded(b) \/ Deep(b)'
  <2>1. b \in Active \ ({Genesis} \cup torn) /\ Height[b] \in Nat
    BY <1>1, <1>2
  <2>2. Recorded(b) \/ Erased(b)
    BY <2>1 DEF RecordInv, SpendsKept
  <2>3. CASE stage = "flush" /\ b = tip
    BY <1>1, <1>2, <1>3, <2>3 DEF Deep
  <2>4. CASE stage \in {"down", "up", "corrupt"} /\ Erased(b) /\ vstart = TRUE
    <3>1. Height[b] >= Height[tip] - Depth
      BY <2>1, <2>4, ErasedHigh DEF Deep
    <3>2. Depth = IF CheckDepth = 0 THEN Height[tip] ELSE CheckDepth
      BY <2>4 DEF Depth
    <3> QED  BY <1>1, <1>2, <1>3, <2>1, <3>1, <3>2 DEF Deep
  <2>5. CASE stage \in {"down", "up"} /\ Erased(b) /\ vstart = FALSE
    <3>1. b \in Chain[vtip]
      BY <1>1, <2>1, <2>5 DEF BrokenOff
    <3> QED  BY <2>5, <3>1 DEF Erased
  <2> QED  BY <1>1, <2>2, <2>3, <2>4, <2>5 DEF Erased
<1>5. \A b \in Chain[tip'] \ ({Genesis} \cup torn') : Recorded(b)' \/ (vstart' = TRUE /\ Deep(b)')
  BY <1>1, <1>4 DEF Recorded
<1>6. SerialsNew'
  BY <1>1, <1>2 DEF RecordInv, SerialsNew, Active, Apart
<1> QED  BY <1>1, <1>2, <1>5, <1>6, VerifyBegins

\* All steps keep the records.
LEMMA RecordStep ==
  ASSUME CoinbaseOnce, CoinInv, RecordInv, [Next]_vars
  PROVE  RecordInv'
<1>1. ASSUME NEW b \in Block \ {Genesis}, ConnectTip(b) PROVE RecordInv'
  BY <1>1, ConnectTipKeepsRecords
<1>2. CASE DisconnectTip
  BY <1>2, DisconnectTipKeepsRecords
<1>3. CASE DisconnectEnd
  BY <1>3, DisconnectEndKeepsRecords
<1>4. CASE FlushStateToDisk \/ StartShutdown \/ UNCHANGED vars
  <2>1. UNCHANGED <<tip, spends, stage, vtip, vstart, torn>>
    BY <1>4 DEF FlushStateToDisk, StartShutdown, vars, chainVars, recordVars, verifyVars, historyVars
  <2> QED  BY <2>1, RecordsUnchanged
<1>5. CASE VerifyChain
  BY <1>5, VerifyChainKeepsRecords
<1>6. CASE VerifyDisconnect
  BY <1>6, VerifyDisconnectKeepsRecords
<1>7. CASE VerifyTurn
  BY <1>7, VerifyTurnKeepsRecords
<1>8. CASE VerifyConnect
  BY <1>8, VerifyConnectKeepsRecords
<1>9. CASE VerifyEnd
  BY <1>9, VerifyEndKeepsRecords
<1>10. CASE VerifyStopped
  BY <1>10, VerifyStoppedKeepsRecords
<1>11. CASE Shutdown \/ StartAgain
  BY <1>11, ShutdownKeepsRecords
<1>12. CASE Crash
  BY <1>12, CrashKeepsRecords
<1> QED  BY <1>1, <1>2, <1>3, <1>4, <1>5, <1>6, <1>7, <1>8, <1>9, <1>10, <1>11, <1>12 DEF Next

\* In every behaviour zerocoinDB and the index fit the chain, but for torn blocks.
THEOREM RecordsKept ==
  ASSUME CoinbaseOnce
  PROVE  Spec => [](CoinInv /\ RecordInv)
<1>1. Init => CoinInv /\ RecordInv
  BY CoinInit, RecordInit
<1>2. (CoinInv /\ RecordInv) /\ [Next]_vars => (CoinInv /\ RecordInv)'
  BY CoinStep, RecordStep
<1> QED  BY <1>1, <1>2, PTL DEF Spec

\* CVerifyDB connects again what was connected once, unless a mark was lost or a
\* serial is spent twice.
LEMMA LevelFourPasses ==
  ASSUME CoinInv, RecordInv, stage = "up", ~MarkLost, ~SerialTwice,
         NEW b \in Active \ {Genesis}, Parent[b] = vtip
  PROVE  ConnectBlock(vcoins, b, TRUE).ok
<1>1. /\ tip \in Block /\ Sound(tip) /\ RewardsKept
      /\ vcoins \in CoinSets /\ Same(unmarked, vcoins, CoinsAt[vtip])
      /\ vtip \in Active /\ Chain[vtip] \subseteq Active /\ b \in Block /\ vtip \in Block
  BY ActiveType DEF CoinInv, CoinTypes, CoinsMatchChain
<1>2. Sound(b) /\ JoinsUpTo(b, Len(Body[b])) /\ b \notin Chain[vtip] /\ Chain[b] \subseteq Active
  <2>1. Sound(b) /\ Chain[b] \subseteq Active
    BY <1>1, SoundChains, ChainTransitive DEF Active
  <2> QED  BY <1>1, <2>1, ChainStep DEF Sound
<1>3. ASSUME NEW i \in 1 .. Len(Body[b])
      PROVE  LET t == Body[b][i] IN
             /\ MaturedAt(unmarked, b, i)
             /\ \A k \in DOMAIN Ins[t] : Ins[t][k][1] \notin unmarked
             /\ Kind[t] = "spend" => \A c \in CoinSets : AcceptTx(c, t, b, TRUE)
  <2> DEFINE t == Body[b][i]
  <2>1. t \in Txs(b) /\ t \in Tx /\ txindex[t] = b /\ InputsThere(b, i)
    <3>1. t \in Txs(b) /\ t \in Tx
      BY <1>1, BodyType
    <3> QED  BY <1>2, <3>1, ActiveType DEF JoinsUpTo, Joins
  <2>2. MaturedAt(unmarked, b, i)
    BY <1>1 DEF RewardsKept
  <2>3. ASSUME NEW k \in DOMAIN Ins[t] PROVE Ins[t][k][1] \notin unmarked
    <3> DEFINE q == Ins[t][k][1]
    <3>1. q \in Tx /\ Born(b, i - 1)[q] # 0
      BY <2>1, TxType DEF InputsThere
    <3> HIDE DEF q
    <3>2. BlocksOf(b, q) # {}
      BY <1>1, <1>2, <3>1, BornInBlock
    <3>3. PICK a \in Active \ {Genesis} : q \in Txs(a)
      BY <1>2, <3>2 DEF BlocksOf
    <3>4. q \notin unmarked
      BY <3>3 DEF MarkLost
    <3> QED  BY <3>4 DEF q
  <2>4. ASSUME NEW s \in Serials[t] PROVE ~SerialInChain(s)
    <3>1. ~Held(s)
      <4> SUFFICES ASSUME NEW a \in Chain[vtip] \ {Genesis}, NEW u \in Txs(a), s \in Serials[u]
                   PROVE  FALSE
        BY DEF Held
      <4>1. a \in Active \ {Genesis} /\ a # b
        BY <1>1, <1>2
      <4> QED  BY <2>1, <4>1 DEF SerialTwice
    <3>2. spends[s] = none
      BY <1>2, <2>1, <3>1 DEF RecordInv, InView
    <3> QED  BY <3>2 DEF SerialInChain
  <2>5. Height[b] <= Height[txindex[t]]
    BY <1>1, <2>1, HeightType
  <2>6. Kind[t] = "spend" => \A c \in CoinSets : AcceptTx(c, t, b, TRUE)
    BY <2>4, <2>5 DEF AcceptTx
  <2> QED  BY <2>2, <2>3, <2>6
<1> QED  BY <1>1, <1>2, <1>3, ConnectBlockPasses

\* CVerifyDB complains of nothing but a mark that may be lost or a serial that is
\* spent twice.
THEOREM VerifyCorrect ==
  ASSUME CoinbaseOnce
  PROVE  Spec => VerifyPasses
<1>1. ASSUME CoinInv, RecordInv, Next, verified, ~verified'
      PROVE  MarkLost \/ SerialTwice
  <2>1. CASE VerifyTurn
    <3>1. stage = "down" /\ ~vclean
      BY <1>1, <2>1 DEF VerifyTurn
    <3> QED  BY <1>1, <3>1 DEF CoinInv, Clean
  <2>2. CASE VerifyConnect
    <3>1. PICK b \in Active \ {Genesis} : Parent[b] = vtip /\ ~ConnectBlock(vcoins, b, TRUE).ok
      BY <1>1, <2>2 DEF VerifyConnect
    <3>2. stage = "up"
      BY <2>2 DEF VerifyConnect
    <3> QED  BY <1>1, <3>1, <3>2, LevelFourPasses
  <2>3. CASE Restart
    BY <1>1, <2>3 DEF Restart, Verify
  <2>4. ASSUME NEW b \in Block \ {Genesis}, ConnectTip(b) PROVE FALSE
    BY <1>1, <2>4 DEF ConnectTip, verifyVars
  <2>5. CASE DisconnectTip \/ DisconnectEnd \/ FlushStateToDisk
    BY <1>1, <2>5 DEF DisconnectTip, DisconnectEnd, FlushStateToDisk, verifyVars
  <2>6. CASE VerifyChain \/ VerifyDisconnect \/ VerifyEnd
    BY <1>1, <2>3, <2>6 DEF VerifyChain, VerifyDisconnect, VerifyEnd, Verify, verifyVars
  <2>7. CASE VerifyStopped \/ StartShutdown
    BY <1>1, <2>3, <2>7 DEF VerifyStopped, StartShutdown, verifyVars
  <2>8. CASE Shutdown \/ StartAgain
    BY <2>3, <2>8 DEF Shutdown, StartAgain
  <2>9. CASE Crash
    BY <1>1, <2>9 DEF Crash, Verify
  <2> QED  BY <1>1, <2>1, <2>2, <2>4, <2>5, <2>6, <2>7, <2>8, <2>9 DEF Next
<1> DEFINE Passes == verified /\ ~verified' => MarkLost \/ SerialTwice
<1>2. (CoinInv /\ RecordInv) /\ [Next]_vars => [Passes]_vars
  BY <1>1
<1>3. VerifyPasses <=> [][Passes]_vars
  BY DEF VerifyPasses
<1> HIDE DEF Passes
<1> QED  BY <1>2, <1>3, RecordsKept, PTL DEF Spec

\* When the node takes blocks, zerocoinDB names the spender of every serial that
\* the active chain spends, but for torn blocks.
THEOREM SerialsCorrect ==
  ASSUME CoinbaseOnce
  PROVE  Spec => []SerialsRecorded
<1>1. RecordInv => SerialsRecorded
  BY DEF RecordInv, SpendsKept, Recorded, Erased, SerialsRecorded
<1> QED  BY <1>1, RecordsKept, PTL

\* A transaction that joins spends nothing that an earlier one spent.
LEMMA SpentBefore ==
  ASSUME NEW b \in Block, b # Genesis, NEW j \in 1 .. Len(Body[b]), InputsThere(b, j),
         NEW l \in DOMAIN Ins[Body[b][j]],
         NEW a \in Block, a # Genesis, NEW i \in 1 .. Len(Body[a]), NEW k \in DOMAIN Ins[Body[a][i]],
         (a = b /\ i < j) \/ a \in Chain[Parent[b]]
  PROVE  Ins[Body[a][i]][k] # Ins[Body[b][j]][l]
<1> DEFINE t == Body[b][j]
           q == Ins[t][l][1]
           n == Ins[t][l][2]
<1>1. t \in Tx /\ q \in Tx /\ Ins[t][l] = <<q, n>> /\ Parent[b] \in Block
  <2>1. t \in Tx /\ Parent[b] \in Block
    BY BodyType, ChainStep
  <2>2. l \in 1 .. Len(Ins[t])
    BY <2>1, TxType
  <2> QED  BY <2>1, <2>2, TxType
<1>2. n \in Outs[q] /\ n \notin SpentAt(Parent[b], q) /\ n \notin SpentIn(b, j - 1, q)
  BY <1>1 DEF InputsThere, Spent
<1> SUFFICES ASSUME Ins[Body[a][i]][k] = <<q, n>> PROVE FALSE
  BY <1>1
<1> HIDE DEF q, n, t
<1>3. CASE a = b /\ i < j
  <2>1. i \in 1 .. j - 1
    BY <1>3, BodyType
  <2>2. Uses(Body[b][i], q, n)
    BY <1>3 DEF Uses
  <2> QED  BY <1>2, <2>1, <2>2 DEF SpentIn
<1>4. CASE a \in Chain[Parent[b]]
  <2>1. Body[a][i] \in Txs(a)
    BY BodyType
  <2> QED  BY <1>2, <1>4, <2>1 DEF SpentAt
<1> QED  BY <1>3, <1>4

\* No output is spent twice on the active chain, and no serial of an untorn block.
THEOREM SpendsCorrect ==
  ASSUME CoinbaseOnce
  PROVE  Spec => []SpentOnce
<1>1. ASSUME CoinInv, RecordInv PROVE SpentOnce
  <2> SUFFICES ASSUME NEW b \in Active \ {Genesis}, NEW a \in Chain[b] \ {Genesis},
                      NEW i \in DOMAIN Body[a], NEW j \in DOMAIN Body[b], <<a, i>> # <<b, j>>
               PROVE  /\ a \notin torn => Serials[Body[a][i]] \cap Serials[Body[b][j]] = {}
                      /\ \A k \in DOMAIN Ins[Body[a][i]], l \in DOMAIN Ins[Body[b][j]] :
                           Ins[Body[a][i]][k] # Ins[Body[b][j]][l]
    BY DEF SpentOnce
  <2>1. tip \in Block /\ Sound(tip) /\ SerialsNew
    BY <1>1 DEF CoinInv, TypeOK, RecordInv
  <2>2. /\ a \in Block /\ b \in Block /\ a \in Active
        /\ i \in 1 .. Len(Body[a]) /\ j \in 1 .. Len(Body[b])
    <3>1. a \in Block /\ b \in Block /\ a \in Active
      BY <2>1, ChainContains, ChainTransitive DEF Active
    <3> QED  BY <3>1, BodyType
  <2>3. (a = b /\ i # j) \/ a \in Chain[Parent[b]]
    BY <2>2, ChainStep
  <2>4. a \notin torn => Serials[Body[a][i]] \cap Serials[Body[b][j]] = {}
    <3>1. CASE a = b /\ i # j
      BY <2>2, <3>1, BodyType
    <3>2. CASE a \in Chain[Parent[b]]
      <4>1. Body[a][i] \in Txs(a) /\ Body[b][j] \in Txs(b)
        BY <2>2, BodyType
      <4> QED  BY <2>1, <3>2, <4>1 DEF SerialsNew, Apart
    <3> QED  BY <2>3, <3>1, <3>2
  <2>5. InputsThere(a, i) /\ InputsThere(b, j)
    BY <2>1, <2>2 DEF Sound, JoinsUpTo, Joins, Active
  <2>6. ASSUME NEW k \in DOMAIN Ins[Body[a][i]], NEW l \in DOMAIN Ins[Body[b][j]]
        PROVE  Ins[Body[a][i]][k] # Ins[Body[b][j]][l]
    <3>1. CASE (a = b /\ i < j) \/ a \in Chain[Parent[b]]
      BY <2>2, <2>5, <3>1, SpentBefore
    <3>2. CASE b = a /\ j < i
      <4>1. /\ a \in Block /\ a # Genesis /\ b \in Block /\ b # Genesis
            /\ i \in 1 .. Len(Body[a]) /\ j \in 1 .. Len(Body[b]) /\ InputsThere(a, i)
            /\ (b = a /\ j < i) \/ b \in Chain[Parent[a]]
        BY <2>2, <2>5, <3>2
      <4>2. Ins[Body[b][j]][l] # Ins[Body[a][i]][k]
        BY ONLY <2>6, <4>1, SpentBefore
      <4> QED  BY <4>2
    <3>3. i \in Nat /\ j \in Nat
      BY <2>2
    <3> QED  BY <2>3, <3>1, <3>2, <3>3
  <2> QED  BY <2>4, <2>6
<1>2. CoinInv /\ RecordInv => SpentOnce
  BY <1>1
<1> QED  BY <1>2, RecordsKept, PTL
=============================================================================
