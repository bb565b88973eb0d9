-------------------------- MODULE MCNativeTaskbar --------------------------
(***************************************************************************)
(* Instances of NativeTaskbar: the tasks and the threads are alike.        *)
(***************************************************************************)
EXTENDS NativeTaskbar, TLC

Symmetry == Permutations(Request) \cup Permutations(Hider)
=============================================================================
