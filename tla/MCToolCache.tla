---------------------------- MODULE MCToolCache ----------------------------
(* Two keys whose results fit the cache one at a time, until the write      *)
(* makes the second one's too large for it.                                 *)
EXTENDS ToolCache, TLC

CONSTANTS k1, k2

MCSize == (k1 :> (0 :> 1 @@ 1 :> 1)) @@ (k2 :> (0 :> 2 @@ 1 :> 3))
=============================================================================
