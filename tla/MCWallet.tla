------------------------------ MODULE MCWallet -------------------------------
(***************************************************************************)
(* Five transactions for Wallet.  The wallet has the coins f(1), f(2), the *)
(* coinstake's k(1) and the change a(1):                                   *)
(*                                                                         *)
(*   f(1) -- a, and b in conflict with a     d spends f(2), a(1) and k(1)  *)
(*                                                                         *)
(* A copy of the wallet may have made those that this one does not create. *)
(***************************************************************************)
EXTENDS Wallet, TLC

CONSTANTS f, k, a, b, d

MCTx == {f, k, a, b, d}
MCInputs ==
  f :> {} @@ k :> {} @@ a :> {<<f, 1>>} @@ b :> {<<f, 1>>}
    @@ d :> {<<f, 2>>, <<a, 1>>, <<k, 1>>}
MCOutputs == [t \in MCTx |-> IF t = f THEN 2 ELSE 1]
MCMine == {<<f, 1>>, <<f, 2>>, <<k, 1>>, <<a, 1>>}
MCHashOrder == <<f, k, d, a, b>>
=============================================================================
