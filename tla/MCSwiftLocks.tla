---------------------------- MODULE MCSwiftLocks -----------------------------
(***************************************************************************)
(* Three transactions for SwiftLocks: a and b conflict in f(1).  Both are  *)
(* requested; the masternodes vote for a, and b locks f(1) when it is      *)
(* rejected.                                                               *)
(***************************************************************************)
EXTENDS SwiftLocks, TLC

CONSTANTS f, a, b, m1, m2

MCTx == {f, a, b}
MCInputs == f :> {} @@ a :> {<<f, 1>>} @@ b :> {<<f, 1>>}
MCOutputs == [t \in MCTx |-> IF t = f THEN 2 ELSE 1]
MCBallots == {m1, m2} \X {a}
=============================================================================
