----------------------------- MODULE MCMempool ------------------------------
(***************************************************************************)
(* Eight transactions for Mempool:                                         *)
(*                                                                         *)
(*   f(1) -- a and b, in conflict     c spends a and the coinbase k        *)
(*   f(2) -- n, not standard          d spends c and n, e spends c         *)
(***************************************************************************)
EXTENDS Mempool, TLC

CONSTANTS f, k, a, b, c, d, e, n

MCTx == {f, k, a, b, c, d, e, n}
MCInputs ==
  f :> {} @@ k :> {} @@ a :> {<<f, 1>>} @@ b :> {<<f, 1>>} @@ n :> {<<f, 2>>}
    @@ c :> {<<a, 1>>, <<k, 1>>} @@ d :> {<<c, 1>>, <<n, 1>>}
    @@ e :> {<<c, 1>>}
MCOutputs == [t \in MCTx |-> IF t = f THEN 3 ELSE 1]
=============================================================================
