-------------------------- MODULE TilingProperties --------------------------
(***************************************************************************)
(* What the tiling window manager is to guarantee whatever the order of    *)
(* the events and commands.                                                *)
(***************************************************************************)
EXTENDS TilingManager

Nodes(t) == DOMAIN t.nodes

Ended == {t \in Range(trees) : ~t.endless}

\* Types. Nodes carry their kind, lifetime, policy and condition; the map
\* and the times are about the same windows; ranks are dense.
TwmTypeOK ==
  /\ trees \in [DOMAIN trees -> Range(trees)] /\ DOMAIN trees \subseteq Workspace
  /\ \A t \in Range(trees) :
       /\ t.next \in Nat
       /\ Nodes(t) \subseteq 1..(t.next - 1)
       /\ DOMAIN t.at \subseteq Window /\ DOMAIN t.time = DOMAIN t.at
       /\ t.floating \subseteq Window
       /\ \A n \in Nodes(t) :
            /\ t.nodes[n].kind \in {"Leaf", "Stack", "Split"}
            /\ t.nodes[n].policy \in {"Manual", "Auto", "AutoWhenOverflow"}
            /\ t.nodes[n].temporal \in BOOLEAN
  /\ monocle \subseteq Workspace
  /\ reservation \in Reservation \cup {None}
  /\ setting \in Layouts /\ Range(layoutCache) \subseteq Layouts
  /\ changed \in 0..MaxChanged

\* The map and the nodes agree: a tiled window is in the list of its node and
\* in no other list, and a window is not tiled and floating at once. Adding,
\* reindexing, collapsing, swapping and splitting change the two separately.
MapAgreesWithNodes ==
  \A t \in Ended :
    /\ \A n \in Nodes(t) :
         /\ ToSet(t.nodes[n].windows) = {w \in DOMAIN t.at : t.at[w] = n}
         /\ IsInjective(t.nodes[n].windows)
    /\ Range(t.at) \subseteq Nodes(t)
    /\ t.floating \cap DOMAIN t.at = {}

\* Every node is reached from the root once, below the parent it names; only
\* containers have children and only the others have windows. A node that the
\* traversal misses is never drawn and its windows are never placed again.
TreesConnected ==
  \A t \in Ended :
    /\ IsInjective(Preorder(t)) /\ ToSet(Preorder(t)) = Nodes(t)
    /\ \A n \in Nodes(t) :
         LET node == t.nodes[n]
         IN  /\ \A c \in ToSet(node.children) : t.nodes[c].parent = n
             /\ IF IsContainer(node) THEN node.windows = <<>> ELSE node.children = <<>>

\* A leaf shows one window, and a node with windows has one of them active:
\* otherwise restore_stacks leaves a tile with every window minimized.
TilesShowOneWindow ==
  \A t \in Ended : \A n \in Nodes(t) :
    LET node == t.nodes[n]
    IN  /\ node.kind = "Leaf" => Len(node.windows) <= 1
        /\ IF node.windows = <<>> THEN node.active = None
           ELSE node.active \in ToSet(node.windows)

ManagedWindows == {w \in Window : IsManaged(w)}

TogetherIn(ts, x, a, b) ==
  Manages(ts[x], a) /\ Manages(ts[x], b) =>
    {a, b} \subseteq DOMAIN ts[x].at /\ ts[x].at[a] = ts[x].at[b]

\* Adding or removing a window never parts two windows of a stack the user has
\* made ("Multi-window stacks are skipped", reindex_windows), whatever the
\* collapse and the reindexing do to the nodes around it: they share a node as
\* long as both are managed. The last window of a stack may well float.
StacksStayTogether ==
  [][ ManagedWindows' # ManagedWindows =>
        \A x \in DOMAIN trees \cap DOMAIN trees' :
          \A n \in {m \in Nodes(trees[x]) : IsKept(trees[x].nodes[m])} :
            \A a, b \in ToSet(trees[x].nodes[n].windows) :
              a # b => TogetherIn(trees', x, a, b)
    ]_twmVars

\* normalize: "We repeat until none of the three steps produces a change."
NormalizeEnds == Unlocked
=============================================================================
