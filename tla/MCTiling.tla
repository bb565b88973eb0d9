------------------------------ MODULE MCTiling ------------------------------
(***************************************************************************)
(* Instances of the tiling window manager whose events come in any order   *)
(***************************************************************************)
EXTENDS TilingProperties, TilingLayouts
=============================================================================
