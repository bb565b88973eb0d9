----------------------------- MODULE TilingTree -----------------------------
(***************************************************************************)
(* The tree of a tiled workspace (libs/core/src/state/wm_layout.rs): which *)
(* node holds which windows, which one of them is active, and the map from *)
(* windows to nodes that is kept beside it.                                *)
(*                                                                         *)
(* Sizes and rectangles are left out, so rows and columns are the same     *)
(* kind, "Split". A condition is the set of contexts in which it holds,    *)
(* None when it always does. A context is a pair: how many windows are     *)
(* tiled so far, and whether they are being placed again.                  *)
(* Times are ranks: only their order decides anything.                     *)
(***************************************************************************)
EXTENDS Integers, SequencesExt

CONSTANTS
  None,      \* no window, no node, no limit
  Category   \* window -> its slu_category, or None

IsContainer(node) == node.kind = "Split"

\* Fault: off by one.
IsKeptFromThree(node) ==
  node.kind = "Stack" /\ node.policy = "Manual" /\ Len(node.windows) > 2

\* A stack the user made: it is kept together.
IsKept(node) ==
  node.kind = "Stack" /\ node.policy = "Manual" /\ Len(node.windows) >= 2

\* The structure of a plugin, its nodes numbered from the root on as
\* insert_plugin_node does; no nodes when the structure is null. The field
\* children is documented to be "ignored for leaf and stack nodes": they have
\* none here.
IsLayout(layout) ==
  /\ layout \in Seq([parent : {None} \cup Nat, children : Seq(Nat),
                     kind : {"Leaf", "Stack", "Split"}, temporal : BOOLEAN,
                     priority : Nat, condition : {None} \cup SUBSET (Nat \X BOOLEAN),
                     max : {None} \cup Nat,
                     policy : {"Manual", "Auto", "AutoWhenOverflow"},
                     windows : {<<>>}, active : {None}])
  /\ \A n \in DOMAIN layout :
       LET node == layout[n]
       IN  /\ IsInjective(node.children)
           /\ IsContainer(node) \/ node.children = <<>>
           /\ \A c \in ToSet(node.children) : c \in DOMAIN layout /\ layout[c].parent = n
           /\ IF n = 1 THEN node.parent = None
              ELSE /\ node.parent \in 1..(n - 1)
                   /\ n \in ToSet(layout[node.parent].children)

FromPlugin(layout) ==
  [root |-> IF layout = <<>> THEN 0 ELSE 1,
   next |-> Len(layout) + 1,
   nodes |-> layout,
   at |-> <<>>, time |-> <<>>, floating |-> {}, endless |-> FALSE]

\* insert of a hash map
Inserted(f, x, v) == [y \in DOMAIN f \cup {x} |-> IF y = x THEN v ELSE f[y]]

Manages(t, w) == w \in DOMAIN t.at \cup t.floating
-----------------------------------------------------------------------------
(* Sequences *)

\* s without the elements that are in S: retain, drain
Minus(s, S) ==
  LET kept[i \in 0..Len(s)] ==
        IF i = 0 THEN <<>>
        ELSE IF s[i] \in S THEN kept[i - 1] ELSE Append(kept[i - 1], s[i])
  IN  kept[Len(s)]

\* sort_by_key, which is stable: the elements of s, those with small keys first
SortedBy(keys, s) ==
  LET rank(j) == Cardinality({k \in DOMAIN keys :
                   \/ keys[k] < keys[j]
                   \/ keys[k] = keys[j] /\ k <= j})
  IN  [i \in DOMAIN s |-> s[CHOOSE j \in DOMAIN keys : rank(j) = i]]

PositionOf(s, x) == CHOOSE i \in DOMAIN s : s[i] = x
-----------------------------------------------------------------------------
(* Traversal *)

ByPriority(t, kids) == SortedBy([i \in DOMAIN kids |-> t.nodes[kids[i]].priority], kids)

\* next() of TwmTreeIter: a node is popped, its children are pushed.
Visited(t, s) ==
  IF s.stack = <<>> \/ Head(s.stack) \notin DOMAIN t.nodes THEN s
  ELSE [done  |-> Append(s.done, Head(s.stack)),
        stack |-> ByPriority(t, t.nodes[Head(s.stack)].children) \o Tail(s.stack)]

\* TwmTreeIter: the nodes below the root, a parent before its children.
Preorder(t) ==
  LET walk[k \in 0..Cardinality(DOMAIN t.nodes)] ==
        IF k = 0 THEN [done |-> <<>>, stack |-> <<t.root>>] ELSE Visited(t, walk[k - 1])
  IN  walk[Cardinality(DOMAIN t.nodes)].done

\* The first node of the traversal that is in ns, or None.
FirstOf(order, ns) ==
  LET found == {i \in DOMAIN order : order[i] \in ns}
  IN  IF found = {} THEN None ELSE order[Min(found)]

FirstNode(t, ns) == FirstOf(Preorder(t), ns)
-----------------------------------------------------------------------------
(* Adding *)

HasRoom(node) == node.max = None \/ Len(node.windows) < node.max

Holds(node, ctx) == node.condition = None \/ ctx \in node.condition

Accepts(node, ctx) ==
  /\ Holds(node, ctx)
  /\ \/ node.kind = "Leaf" /\ node.windows = <<>>
     \/ node.kind = "Stack" /\ node.policy = "Auto" /\ HasRoom(node)

AcceptsOnOverflow(node, ctx) ==
  /\ node.kind = "Stack"
  /\ Holds(node, ctx)
  /\ node.policy = "AutoWhenOverflow"
  /\ HasRoom(node)

\* SystemTime::now(): later than every time in the map.
Now(t) == 1 + Max(Range(t.time) \cup {0})

Located(t, w, n) ==
  [t EXCEPT !.at = Inserted(@, w, n),
            !.time = Inserted(@, w, Now(t)),
            !.floating = @ \ {w}]

\* The window goes to the end of the node's list and becomes its active one.
Push(t, w, n) ==
  [Located(t, w, n) EXCEPT !.nodes[n].windows = Append(@, w),
                           !.nodes[n].active = w]

\* Only the order of the times is of interest.
Ranked(t) ==
  [t EXCEPT !.time = [w \in DOMAIN @ |->
                        Cardinality({s \in Range(@) : s <= @[w]})]]

AddToFloating(t, w) == [t EXCEPT !.floating = @ \cup {w}]

\* The node try_add_window chooses, order being the traversal of the tree.
Target(t, order, ctx) ==
  LET n == FirstOf(order, {m \in DOMAIN t.nodes : Accepts(t.nodes[m], ctx)})
  IN  IF n # None THEN n
      ELSE FirstOf(order, {m \in DOMAIN t.nodes : AcceptsOnOverflow(t.nodes[m], ctx)})

\* Windows of the same time stay in the order of the traversal.
OldestFirst(t, ws) == SortedBy([i \in DOMAIN ws |-> t.time[ws[i]]], ws)

\* The windows of these nodes
WindowsOf(t, ns) ==
  LET drained[i \in 0..Len(ns)] ==
        IF i = 0 THEN <<>> ELSE drained[i - 1] \o t.nodes[ns[i]].windows
  IN  drained[Len(ns)]

Emptied(node) == [node EXCEPT !.windows = <<>>, !.active = None]

Without(t, ws) ==
  [t EXCEPT !.at = Restrict(@, DOMAIN @ \ ws), !.time = Restrict(@, DOMAIN @ \ ws)]

\* What try_add_window does to the tree and to the count of reindex_windows
PlacedNext(so, order, w) ==
  LET n == Target(so.tree, order, <<so.count, TRUE>>)
  IN  IF n = None
      THEN [tree |-> AddToFloating(so.tree, w), count |-> so.count]
      ELSE [tree |-> Push(so.tree, w, n), count |-> so.count + 1]

\* The windows ws are taken out of the nodes loose and placed again, none of
\* which changes the order of the traversal.
PlacedAgain(t, order, loose, ws) ==
  LET start == [Without(t, ToSet(ws)) EXCEPT !.nodes =
                  [n \in DOMAIN @ |-> IF n \in loose THEN Emptied(@[n]) ELSE @[n]]]
      placed[i \in 0..Len(ws)] ==
        IF i = 0 THEN [tree |-> start, count |-> 0] ELSE PlacedNext(placed[i - 1], order, ws[i])
  IN  Ranked(placed[Len(ws)].tree)

ReindexLoose(t, order, loose) ==
  PlacedAgain(t, order, ToSet(loose), OldestFirst(t, WindowsOf(t, loose)))

ReindexIn(t, order) ==
  ReindexLoose(t, order, Minus(order, {n \in DOMAIN t.nodes : IsKept(t.nodes[n])}))

\* Every window that is not in a kept stack is placed again, the oldest one
\* first. The callers put those that no longer fit among the floating ones.
Reindex(t) == ReindexIn(t, Preorder(t))

AddedAt(t, w, n) == IF n = None THEN AddToFloating(t, w) ELSE Reindex(Push(t, w, n))

AddToTiled(t, w) ==
  AddedAt(t, w, Target(t, Preorder(t), <<Cardinality(DOMAIN t.at), FALSE>>))
-----------------------------------------------------------------------------
(* Removing *)

Dropped(t, ns) ==
  [t EXCEPT !.nodes =
     [n \in DOMAIN t.nodes \ ns |->
        [t.nodes[n] EXCEPT !.children = Minus(@, ns)]]]

\* Steps A and B of the loop
DropTemporal(t) ==
  Dropped(t, {n \in DOMAIN t.nodes : /\ ~IsContainer(t.nodes[n])
                                     /\ t.nodes[n].temporal
                                     /\ t.nodes[n].windows = <<>>})

DropChildless(t) ==
  Dropped(t, {n \in DOMAIN t.nodes : /\ IsContainer(t.nodes[n])
                                     /\ t.nodes[n].children = <<>>})

\* Fault: the map still leads to the child.
AbsorbUnmapped(t, parent, child) ==
  [t EXCEPT !.nodes = [n \in DOMAIN @ \ {child} |->
     IF n = parent THEN [@[child] EXCEPT !.parent = t.nodes[n].parent] ELSE @[n]]]

\* Step C for one pair. The child is taken out of the map first: when the
\* parent is no longer there either, the child and what it holds are gone.
Absorb(t, parent, child) ==
  LET c == t.nodes[child]
      kept == [n \in DOMAIN t.nodes \ {child} |->
                 IF n = parent
                 THEN [c EXCEPT !.parent = t.nodes[n].parent,
                                !.priority = t.nodes[n].priority]
                 ELSE IF n \in ToSet(c.children)
                      THEN [t.nodes[n] EXCEPT !.parent = parent]
                      ELSE t.nodes[n]]
  IN  [t EXCEPT !.nodes = kept,
                !.at = [w \in DOMAIN @ |-> IF w \in ToSet(c.windows)
                                           THEN parent ELSE @[w]]]

CollapseOne(t, pair) ==
  IF pair[2] \notin DOMAIN t.nodes THEN t
  ELSE IF pair[1] \notin DOMAIN t.nodes
       THEN [t EXCEPT !.nodes = Restrict(@, DOMAIN @ \ {pair[2]})]
       ELSE Absorb(t, pair[1], pair[2])

\* The pairs are collected before the first is collapsed.
ToCollapse(t) ==
  {<<n, t.nodes[n].children[1]>> :
     n \in {m \in DOMAIN t.nodes : /\ IsContainer(t.nodes[m])
                                   /\ Len(t.nodes[m].children) = 1}}

\* One round of the loop; a hash map gives the pairs in any order.
Round(t) ==
  LET kept == DropChildless(DropTemporal(t))
      pairs == ToCollapse(kept)
      step[k \in 0..Cardinality(pairs)] ==
        IF k = 0 THEN {[tree |-> kept, left |-> pairs]}
        ELSE UNION {{[tree |-> CollapseOne(s.tree, p), left |-> s.left \ {p}] : p \in s.left}
                     : s \in step[k - 1]}
  IN  {s.tree : s \in step[Cardinality(pairs)]}

\* A stack the user made that is down to one window is a leaf again.
Plain(node) ==
  IF node.kind = "Stack" /\ node.policy = "Manual" /\ Len(node.windows) <= 1
  THEN [node EXCEPT !.kind = "Leaf"] ELSE node

\* Each round of the loop takes a node away, until one changes nothing: then
\* the loop ends, unless a container still waits for its only child, which is
\* no longer there. That loop never ends.
Normalize(t) ==
  LET plain == [t EXCEPT !.nodes =
                  [n \in DOMAIN t.nodes |-> Plain(t.nodes[n])]]
      after[k \in 0..Cardinality(DOMAIN t.nodes)] ==
        IF k = 0 THEN {plain} ELSE UNION {Round(s) : s \in after[k - 1]}
  IN  {[s EXCEPT !.endless = ToCollapse(s) # {}] :
         s \in after[Cardinality(DOMAIN t.nodes)]}

\* Fault: the removed window stays the active one.
ActiveKept(node, w) == node.active

\* The window next to the removed one becomes the active one.
ActiveWithout(node, w) ==
  LET i == PositionOf(node.windows, w)
  IN  IF node.active # w THEN node.active
      ELSE IF i < Len(node.windows) THEN node.windows[i + 1]
      ELSE IF i > 1 THEN node.windows[i - 1] ELSE None

TakenOut(t, w) ==
  IF w \notin DOMAIN t.at THEN [t EXCEPT !.floating = @ \ {w}]
  ELSE LET node == t.nodes[t.at[w]]
           others == [node EXCEPT !.windows = Minus(@, {w}),
                                  !.active = ActiveWithout(node, w)]
       IN  [Without(t, {w}) EXCEPT !.nodes[t.at[w]] = others]

\* The trees remove_window may leave
RemoveWindow(t, w) ==
  {IF s.endless THEN s ELSE Reindex(s) : s \in Normalize(TakenOut(t, w))}
-----------------------------------------------------------------------------
(* Other changes *)

\* The policy stays with the node, the kind goes with the windows.
SwapNodes(t, a, b) ==
  LET na == t.at[a]
      nb == t.at[b]
      swapped(n, m) == [t.nodes[n] EXCEPT !.kind = t.nodes[m].kind,
                                          !.windows = t.nodes[m].windows,
                                          !.active = t.nodes[m].active]
      goes == [w \in DOMAIN t.at |-> CASE t.at[w] = na -> nb
                                       [] t.at[w] = nb -> na
                                       [] OTHER -> t.at[w]]
  IN  IF ~({a, b} \subseteq DOMAIN t.at) THEN t
      ELSE IF na = nb THEN t
      ELSE Ranked([t EXCEPT !.nodes = [t.nodes EXCEPT ![na] = swapped(na, nb),
                                                      ![nb] = swapped(nb, na)],
                            !.at = goes,
                            !.time = [w \in DOMAIN @ |->
                                        CASE goes[w] = na -> t.time[a]
                                          [] goes[w] = nb -> t.time[b]
                                          [] OTHER -> t.time[w]]])

\* Fault: the parent still has the node for its child.
SplitDetached(t, n, side, w) ==
  LET leaf == [t.nodes[n] EXCEPT !.windows = <<w>>, !.active = w, !.kind = "Leaf",
                                 !.temporal = TRUE, !.parent = t.next + 1]
      container == [t.nodes[n] EXCEPT !.windows = <<>>, !.active = None, !.kind = "Split",
                                      !.temporal = TRUE, !.children = <<t.next, n>>]
  IN  Ranked([Located(t, w, t.next) EXCEPT
        !.next = t.next + 2,
        !.root = IF t.nodes[n].parent = None THEN t.next + 1 ELSE @,
        !.nodes = (t.next :> leaf) @@ (t.next + 1 :> container)
                  @@ [@ EXCEPT ![n].parent = t.next + 1]])

\* A new leaf with the window beside node n, both below a new container.
SplitNode(t, n, side, w) ==
  LET leaf == t.next
      container == t.next + 1
      node == t.nodes[n]
      fresh(kind, parent, kids, ws, active) ==
        [parent |-> parent, children |-> kids, kind |-> kind, temporal |-> TRUE,
         priority |-> node.priority, condition |-> None, max |-> None,
         policy |-> "Manual", windows |-> ws, active |-> active]
      kids == IF side = "before" THEN <<leaf, n>> ELSE <<n, leaf>>
      below == [m \in DOMAIN t.nodes |->
                  CASE m = n -> [node EXCEPT !.parent = container]
                    [] m = node.parent ->
                         [t.nodes[m] EXCEPT !.children = ReplaceAll(@, n, container)]
                    [] OTHER -> t.nodes[m]]
  IN  Ranked([Located(t, w, leaf) EXCEPT
        !.next = t.next + 2,
        !.root = IF node.parent = None THEN container ELSE @,
        !.nodes = Inserted(Inserted(below,
                    leaf, fresh("Leaf", container, <<>>, <<w>>, w)),
                    container, fresh("Split", node.parent, kids, <<>>, None))])

\* A node that is used as a stack becomes one, whatever it was.
Stacked(node) ==
  IF node.kind = "Stack" THEN node
  ELSE [node EXCEPT !.kind = "Stack", !.policy = "Manual"]

PushStacked(t, w, n) == Ranked(Push([t EXCEPT !.nodes[n] = Stacked(@)], w, n))

\* The node with a window of the same category, or None
NodeOfCategory(t, w) ==
  IF Category[w] = None THEN None
  ELSE FirstNode(t, {n \in DOMAIN t.nodes :
         /\ ~IsContainer(t.nodes[n])
         /\ \E v \in ToSet(t.nodes[n].windows) : Category[v] = Category[w]})

\* The tiled windows move to a new layout in the order of the old one; those
\* that find no place there float.
ChangeLayout(t, layout) ==
  LET ws == WindowsOf(t, Preorder(t))
      moved[i \in 0..Len(ws)] ==
        IF i = 0 THEN [FromPlugin(layout) EXCEPT !.floating = t.floating]
        ELSE AddToTiled(moved[i - 1], ws[i])
  IN  moved[Len(ws)]

SetActive(t, w) ==
  IF w \in DOMAIN t.at /\ t.nodes[t.at[w]].kind = "Stack"
  THEN [t EXCEPT !.nodes[t.at[w]].active = w] ELSE t

\* way: 1 for the next window of the stack, -1 for the previous one
CycleStack(t, w, way) ==
  IF ~(w \in DOMAIN t.at /\ t.nodes[t.at[w]].kind = "Stack") THEN t
  ELSE LET node == t.nodes[t.at[w]]
           next == PositionOf(node.windows, node.active) - 1 + way
       IN  IF node.active \notin ToSet(node.windows) THEN t
           ELSE [t EXCEPT !.nodes[t.at[w]].active =
                   node.windows[1 + ((next + Len(node.windows)) % Len(node.windows))]]
=============================================================================
