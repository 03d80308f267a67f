--------------------------- MODULE MC_CoinsCache ---------------------------
(* A small stack of coins views: two outpoints, two coins of different     *)
(* memory usage (an outpoint may be overwritten by a different coin) and   *)
(* two blocks.                                                             *)
EXTENDS CoinsCache, TLC

CONSTANTS c1, c2

MCUsage == c1 :> 1 @@ c2 :> 3
=============================================================================
