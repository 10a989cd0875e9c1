--------------------------- MODULE MCPalaceMutex ----------------------------
(***************************************************************************)
(* Four calls over two palaces: enough for a chain of three behind a       *)
(* holder, a call that arrives between the settling of the tail and its    *)
(* cleanup, and two palaces with two calls each.                           *)
(***************************************************************************)
EXTENDS PalaceMutex, TLC
=============================================================================
