---------------------------- MODULE MCChainState ----------------------------
(***************************************************************************)
(* Two small trees for ChainState.                                         *)
(*                                                                         *)
(*   Fork:   g -- a1 -- a2         b1 is as good as a1 (which comes first, *)
(*            \-- b1 -- b2         in time or in memory, decides), and b2  *)
(*                                 outweighs a2.                           *)
(*                                                                         *)
(*   Over:   g -- a1               The fork without a2: b2 overtakes a1.   *)
(*            \-- b1 -- b2                                                 *)
(***************************************************************************)
EXTENDS ChainState, TLC

CONSTANTS g, a1, a2, b1, b2

ForkBlocks  == {g, a1, a2, b1, b2}
ForkParent  == a1 :> g @@ a2 :> a1 @@ b1 :> g @@ b2 :> b1
ForkWork    == g :> 0 @@ a1 :> 1 @@ a2 :> 2 @@ b1 :> 1 @@ b2 :> 3
ForkAddress == g :> 0 @@ a1 :> 4 @@ a2 :> 2 @@ b1 :> 3 @@ b2 :> 1

OverBlocks  == {g, a1, b1, b2}
OverParent  == a1 :> g @@ b1 :> g @@ b2 :> b1
OverWork    == g :> 0 @@ a1 :> 1 @@ b1 :> 1 @@ b2 :> 2
OverAddress == g :> 0 @@ a1 :> 2 @@ b1 :> 3 @@ b2 :> 1
=============================================================================
