------------------------------ MODULE MCLedger ------------------------------
(***************************************************************************)
(* A small ledger.  The number of a block is its height.                   *)
(*                                                                         *)
(*   g -- p1 -- p2 -- s3 -- s4 -- s5                                       *)
(*                     |     \--- d5                                       *)
(*                     |\--- q4 -- q5                                      *)
(*                      \--- e4                                            *)
(*                                                                         *)
(* p1, p2 pay rewards; the coinstake k3 and then t3 spend the first whole; *)
(* v3 spends one zerocoin, z4 and y4 spend another, on different branches  *)
(* and, in d5, on one; t5, which two branches hold, spends a reward whole  *)
(* and a part of the stake, and u5 in the same block spends t5 and the     *)
(* rest of the stake, so that taking s5 back loses the mark of k3; e4      *)
(* spends the stake too early.                                             *)
(***************************************************************************)
EXTENDS Ledger, TLC

CONSTANTS g, p1, p2, s3, s4, s5, d5, q4, q5, e4,   \* blocks
          c1, c2, k3, t3, z4, y4, v3, t5, u5, x4,  \* transactions
          v, z                                     \* serials

LedgerBlocks == {g, p1, p2, s3, s4, s5, d5, q4, q5, e4}
LedgerParent == p1 :> g @@ p2 :> p1 @@ s3 :> p2 @@ s4 :> s3 @@ s5 :> s4 @@
                d5 :> s4 @@ q4 :> s3 @@ q5 :> q4 @@ e4 :> s3
LedgerWork == g :> 0 @@ p1 :> 1 @@ p2 :> 2 @@ s3 :> 3 @@ s4 :> 4 @@ q4 :> 4 @@ e4 :> 4 @@
              s5 :> 5 @@ d5 :> 5 @@ q5 :> 5
LedgerAddress == g :> 0 @@ p1 :> 1 @@ p2 :> 2 @@ s3 :> 3 @@ s4 :> 4 @@ q4 :> 5 @@ e4 :> 6 @@
                 s5 :> 7 @@ d5 :> 8 @@ q5 :> 9

LedgerTx == {c1, c2, k3, t3, v3, z4, y4, t5, u5, x4}
LedgerBody == p1 :> <<c1>> @@ p2 :> <<c2>> @@ s3 :> <<k3, t3, v3>> @@ s4 :> <<z4>> @@
              s5 :> <<t5, u5>> @@ d5 :> <<y4>> @@ q4 :> <<y4>> @@ q5 :> <<t5>> @@ e4 :> <<x4>>
LedgerKind == v3 :> "spend" @@ c1 :> "coinbase" @@ c2 :> "coinbase" @@ k3 :> "coinstake" @@
              z4 :> "spend" @@ y4 :> "spend" @@ [t \in LedgerTx |-> "plain"]
LedgerSerials == v3 :> {v} @@ z4 :> {z} @@ y4 :> {z} @@ [t \in LedgerTx |-> {}]
LedgerOuts == c1 :> {0, 1} @@ k3 :> {0, 1} @@ [t \in LedgerTx |-> {0}]
LedgerIns == k3 :> <<<<c1, 0>>>> @@ t3 :> <<<<c1, 1>>>> @@
             t5 :> <<<<k3, 1>>, <<c2, 0>>>> @@ u5 :> <<<<t5, 0>>, <<k3, 0>>>> @@ x4 :> <<<<k3, 1>>>> @@
             [t \in LedgerTx |-> <<>>]

\* What the proofs suppose holds of this ledger.
ASSUME LedgerHypotheses == CoinbaseOnce

\* What the coins, CVerifyDB and zerocoinDB do not keep to.
CoinsExact == coins = CoinsAt[IF stage = "flush" THEN Parent[tip] ELSE tip]
NothingTorn == stage = "ready" /\ unmarked = {} =>
  \A b \in Active \ {Genesis} : \A t \in Txs(b) : \A s \in Serials[t] : spends[s] = t
NoSerialTwice == ~SerialTwice
=============================================================================
