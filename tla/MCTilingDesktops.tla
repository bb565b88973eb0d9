-------------------------- MODULE MCTilingDesktops --------------------------
(***************************************************************************)
(* Instances of the tiling window manager among the virtual desktops       *)
(***************************************************************************)
EXTENDS TilingDesktops, TilingLayouts

\* Two windows, of the same category if any, and the workspaces
DesktopSymmetry == Permutations({w1, w2}) \cup Permutations(Workspace)
=============================================================================
