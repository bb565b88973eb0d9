---------------------------- MODULE TilingLayouts ----------------------------
(***************************************************************************)
(* Layouts and categories for the instances of the tiling window manager.  *)
(***************************************************************************)
EXTENDS TilingTree

CONSTANTS w1, w2, w3

Node(parent, kids, kind, condition, max, policy) ==
  [parent |-> parent, children |-> kids, kind |-> kind, temporal |-> FALSE,
   priority |-> 1, condition |-> condition, max |-> max, policy |-> policy,
   windows |-> <<>>, active |-> None]

Leaf(parent) == Node(parent, <<>>, "Leaf", None, 3, "Auto")

\* One leaf: the smallest tree a reservation can split
SingleLeaf == << Leaf(None) >>

\* A leaf that comes second and is there once one window is tiled, as in the
\* grid layout
Conditional ==
  << Node(None, <<2, 3>>, "Split", None, 3, "Auto"),
     [Node(1, <<>>, "Leaf", (1..3) \X BOOLEAN, 3, "Auto") EXCEPT !.priority = 2],
     Leaf(1) >>

\* A leaf, and a stack for what does not fit
WithOverflow ==
  << Node(None, <<2, 3>>, "Split", None, 3, "Auto"),
     Leaf(1),
     Node(1, <<>>, "Stack", None, 2, "AutoWhenOverflow") >>

MonocleLayout == << Node(None, <<>>, "Stack", None, None, "Auto") >>

OneLeaf == {SingleLeaf}
LeafOrOverflow == {SingleLeaf, WithOverflow}
ConditionalOrOverflow == {Conditional, WithOverflow}
OneStack == {MonocleLayout}

NoCategory == [w \in {w1, w2, w3} |-> None]
TwoAlike == [w \in {w1, w2, w3} |-> IF w = w3 THEN None ELSE "browser"]

WindowSymmetry == Permutations({w1, w2, w3})
=============================================================================
