--------------------------- MODULE MCBlockDownload ---------------------------
(***************************************************************************)
(* Three blocks for BlockDownload: a peer may change from one branch to    *)
(* the other, and b2 is beyond a window of one block.                      *)
(*                                                                         *)
(*   g -- b1 -- b2                                                         *)
(*    \-- c1                                                               *)
(***************************************************************************)
EXTENDS BlockDownload, TLC

CONSTANTS g, b1, b2, c1

MCBlock == {g, b1, b2, c1}
MCParent == b1 :> g @@ b2 :> b1 @@ c1 :> g
MCWork == g :> 0 @@ b1 :> 1 @@ b2 :> 2 @@ c1 :> 1
MCAddress == g :> 0 @@ b1 :> 1 @@ b2 :> 2 @@ c1 :> 3
=============================================================================
