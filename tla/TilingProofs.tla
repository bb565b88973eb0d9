---------------------------- MODULE TilingProofs ----------------------------
(*****************************************************************************)
(* The tiling window manager, for any number of workspaces, windows and      *)
(* commands: the trees stay sound, and what the runs check of them follows   *)
(* (the first three parts). Then the manager among the virtual desktops: the *)
(* events that reach it name windows and workspaces, so whatever the threads *)
(* do it takes steps it could have taken with events in any order.           *)
(*****************************************************************************)
EXTENDS TilingDesktops, TilingTreeProofs

-----------------------------------------------------------------------------
(* The trees of the workspaces *)

\* A tree is sound unless the loop of normalize does not end for it.
TreeFine(t) == IsTree(t) /\ (t.endless \/ TreeOK(t))

\* No window is managed on two workspaces.
Apart(ts) ==
  \A x, y \in DOMAIN ts : x # y => Managed(ts[x]) \cap Managed(ts[y]) = {}

\* The trees of all the workspaces
Forest(ts) ==
  /\ ts \in Partial(Workspace, TreeSet)
  /\ \A x \in DOMAIN ts : TreeFine(ts[x])
  /\ Apart(ts)

\* A reservation names a node that holds windows, or one that is gone for good.
Reserves(ts, r) ==
  r # None =>
    /\ r \in Reservation /\ r.workspace \in DOMAIN ts
    /\ r.node < ts[r.workspace].next
    /\ r.node \in Nodes(ts[r.workspace]) => ~IsContainer(ts[r.workspace].nodes[r.node])

\* The types of what else the manager has
Settled ==
  /\ setting \in Layouts /\ layoutCache \in Partial(Workspace, Layouts)
  /\ monocle \subseteq Workspace /\ changed \in 0..MaxChanged

\* The inductive invariant
TwmInv == Forest(trees) /\ Reserves(trees, reservation) /\ Settled

\* A fine tree whose loops ended is sound.
LEMMA NotEndless ==
  ASSUME NEW t, TreeFine(t), ~t.endless
  PROVE  TreeOK(t) /\ t.endless = FALSE
BY TreeParts DEF TreeFine

\* So is each tree of a forest.
LEMMA ForestTree ==
  ASSUME NEW ts, Forest(ts), EndsIn(ts), NEW x \in DOMAIN ts
  PROVE  TreeOK(ts[x]) /\ ts[x].endless = FALSE /\ x \in Workspace
<1>1. TreeFine(ts[x]) /\ ~ts[x].endless
  BY DEF Forest, EndsIn
<1>2. x \in Workspace
  BY PartialFunction DEF Forest
<1> QED BY <1>1, <1>2, NotEndless

\* The tree is the same.
LEMMA NothingDone ==
  ASSUME NEW t, TreeFine(t)
  PROVE  Kin(t, t) /\ (~t.endless => Together(t, t))
<1>1. t.next \in Nat
  BY TreeParts DEF TreeFine
<1>2. Kin(t, t)
  BY <1>1 DEF Kin
<1>3. ASSUME ~t.endless PROVE Together(t, t)
  <2>1. Agreement(t)
    BY <1>3, NotEndless DEF TreeOK
  <2> QED BY <2>1, StaysTogether
<1> QED BY <1>2, <1>3

\* One tree changes.
LEMMA UpdatedForest ==
  ASSUME NEW ts, Forest(ts), NEW x \in Workspace, NEW u, TreeFine(u),
         \A y \in DOMAIN ts : y # x => Managed(u) \cap Managed(ts[y]) = {}
  PROVE  Forest(Updated(ts, x, u))
<1> DEFINE us == Updated(ts, x, u)
<1>1. /\ DOMAIN us = DOMAIN ts \cup {x}
      /\ us[x] = u /\ \A y \in DOMAIN ts \ {x} : us[y] = ts[y]
  BY DEF Updated, Inserted
<1>2. us = [y \in DOMAIN us |-> us[y]]
  BY DEF Updated, Inserted
<1> HIDE DEF us
<1>3. /\ DOMAIN ts \subseteq Workspace /\ \A y \in DOMAIN ts : TreeFine(ts[y])
  BY PartialFunction DEF Forest
<1>4. \A y \in DOMAIN us : TreeFine(us[y])
  BY <1>1, <1>3
<1>5. us \in Partial(Workspace, TreeSet)
  <2>1. \A y \in DOMAIN us : us[y] \in TreeSet
    BY <1>4 DEF TreeFine, IsTree
  <2> QED BY <1>1, <1>2, <1>3, <2>1, PartialFunction
<1>6. Apart(us)
  <2> SUFFICES ASSUME NEW y \in DOMAIN us, NEW z \in DOMAIN us, y # z
               PROVE  Managed(us[y]) \cap Managed(us[z]) = {}
    BY DEF Apart
  <2>1. CASE y = x
    BY <1>1, <2>1
  <2>2. CASE z = x
    BY <1>1, <2>2
  <2>3. CASE y # x /\ z # x
    BY <1>1, <2>3 DEF Forest, Apart
  <2> QED BY <2>1, <2>2, <2>3
<1> QED BY <1>4, <1>5, <1>6 DEF Forest, us

\* A reservation stays good as long as its tree has kin.
LEMMA ReservesStays ==
  ASSUME NEW ts, Forest(ts), NEW us, NEW r, Reserves(ts, r),
         r # None => r.workspace \in DOMAIN us /\ Kin(ts[r.workspace], us[r.workspace]),
         Forest(us)
  PROVE  Reserves(us, r)
<1> SUFFICES ASSUME r # None
             PROVE  /\ r \in Reservation /\ r.workspace \in DOMAIN us
                    /\ r.node < us[r.workspace].next
                    /\ r.node \in Nodes(us[r.workspace]) =>
                         ~IsContainer(us[r.workspace].nodes[r.node])
  BY DEF Reserves
<1> DEFINE t == ts[r.workspace]
           u == us[r.workspace]
           n == r.node
<1>1. /\ r \in Reservation /\ r.workspace \in DOMAIN ts /\ n \in Nat
      /\ n < t.next /\ (n \in Nodes(t) => ~IsContainer(t.nodes[n]))
  BY DEF Reserves, Reservation
<1>2. t.next \in Nat /\ u.next \in Nat
  BY <1>1, TreeParts DEF Forest, TreeFine
<1>3. Kin(t, u) /\ r.workspace \in DOMAIN us
  OBVIOUS
<1> HIDE DEF t, u, n
<1>4. u.next >= t.next
  BY <1>3 DEF Kin
<1>5. n < u.next
  BY <1>1, <1>2, <1>4
<1>6. n \in Nodes(u) => ~IsContainer(u.nodes[n])
  BY <1>1, <1>3 DEF Kin
<1> QED BY <1>1, <1>3, <1>5, <1>6 DEF t, u, n

\* remove: the window is taken out of the tree it is in.
LEMMA RemovalsOK ==
  ASSUME NEW ts, Forest(ts), EndsIn(ts), NEW w \in Window, NEW us \in Removals(ts, w)
  PROVE  /\ Forest(us) /\ DOMAIN us = DOMAIN ts
         /\ \A x \in DOMAIN ts : /\ Managed(us[x]) = Managed(ts[x]) \ {w}
                                 /\ Kin(ts[x], us[x]) /\ Together(ts[x], us[x])
<1>1. \A x \in DOMAIN ts : x \in ManagedOn(ts, w) <=> w \in Managed(ts[x])
  BY DEF ManagedOn, Manages, Managed
<1>2. \A x \in DOMAIN ts : TreeOK(ts[x]) /\ ts[x].endless = FALSE /\ x \in Workspace
  BY ForestTree
<1>3. \A x \in DOMAIN ts : Kin(ts[x], ts[x]) /\ Together(ts[x], ts[x])
  <2> TAKE x \in DOMAIN ts
  <2>1. TreeFine(ts[x]) /\ ~ts[x].endless
    BY <1>2 DEF Forest
  <2> QED BY <2>1, NothingDone
<1>4. CASE ManagedOn(ts, w) = {}
  <2>1. us = ts
    BY <1>4 DEF Removals
  <2> QED BY <1>1, <1>3, <1>4, <2>1
<1>5. CASE ManagedOn(ts, w) # {}
  <2>1. PICK x \in ManagedOn(ts, w) : us \in {Updated(ts, x, t) : t \in RemoveWindow(ts[x], w)}
    BY <1>5 DEF Removals
  <2>2. PICK u \in RemoveWindow(ts[x], w) : us = Updated(ts, x, u)
    BY <2>1
  <2>3. x \in DOMAIN ts /\ w \in Managed(ts[x])
    BY <1>1, <2>1 DEF ManagedOn
  <2>4. /\ IsTree(u) /\ (u.endless \/ TreeOK(u)) /\ Managed(u) = Managed(ts[x]) \ {w}
        /\ Kin(ts[x], u) /\ Together(ts[x], u)
    BY <1>2, <2>2, <2>3, RemoveWindowOK
  <2>5. \A y \in DOMAIN ts : y # x => w \notin Managed(ts[y]) /\ Managed(u) \cap Managed(ts[y]) = {}
    BY <2>3, <2>4 DEF Forest, Apart
  <2>6. Forest(us)
    BY <1>2, <2>2, <2>3, <2>4, <2>5, UpdatedForest DEF TreeFine
  <2>7. /\ DOMAIN us = DOMAIN ts /\ us[x] = u /\ \A y \in DOMAIN ts \ {x} : us[y] = ts[y]
    <3>1. DOMAIN us = DOMAIN ts \cup {x} /\ us[x] = u /\ \A y \in DOMAIN ts \ {x} : us[y] = ts[y]
      BY <2>2 DEF Updated, Inserted
    <3> QED BY <2>3, <3>1
  <2>8. ASSUME NEW y \in DOMAIN ts
        PROVE  /\ Managed(us[y]) = Managed(ts[y]) \ {w}
               /\ Kin(ts[y], us[y]) /\ Together(ts[y], us[y])
    <3>1. CASE y = x
      BY <2>4, <2>7, <3>1
    <3>2. CASE y # x
      BY <1>3, <2>5, <2>7, <3>2
    <3> QED BY <3>1, <3>2
  <2> QED BY <2>6, <2>7, <2>8
<1> QED BY <1>4, <1>5

\* get_or_insert_tree_mut hands out a sound tree.
LEMMA TreeOfOK ==
  ASSUME NEW ts, Forest(ts), EndsIn(ts), NEW x \in Workspace, setting \in Layouts
  PROVE  LET t == TreeOf(ts, x)
         IN  /\ TreeOK(t) /\ t.endless = FALSE
             /\ x \in DOMAIN ts => t = ts[x]
             /\ x \notin DOMAIN ts => Managed(t) = {}
<1>1. IsLayout(setting)
  BY LayoutAssumption
<1>2. CASE x \in DOMAIN ts
  <2>1. TreeOf(ts, x) = ts[x]
    BY <1>2 DEF TreeOf
  <2> QED BY <1>2, <2>1, ForestTree
<1>3. CASE x \notin DOMAIN ts
  <2>1. TreeOf(ts, x) = FromPlugin(setting)
    BY <1>3 DEF TreeOf
  <2> QED BY <1>1, <1>3, <2>1, FromPluginOK
<1> QED BY <1>2, <1>3

\* us is ts with one more window, on workspace x.
Grown(ts, us, x, w) ==
  /\ Forest(us) /\ EndsIn(us) /\ DOMAIN us = DOMAIN ts \cup {x}
  /\ \A y \in DOMAIN ts : /\ Kin(ts[y], us[y]) /\ Together(ts[y], us[y])
                          /\ y # x => us[y] = ts[y]
  /\ \A y \in DOMAIN us :
       Managed(us[y]) = (IF y \in DOMAIN ts THEN Managed(ts[y]) ELSE {})
                          \cup (IF y = x THEN {w} ELSE {})

\* A window that is in no tree is put into one.
LEMMA GainsForest ==
  ASSUME NEW ts, Forest(ts), EndsIn(ts), NEW x \in Workspace, setting \in Layouts,
         NEW w, \A y \in DOMAIN ts : w \notin Managed(ts[y]),
         NEW u, Gains(TreeOf(ts, x), u, w)
  PROVE  Grown(ts, Updated(ts, x, u), x, w)
<1> DEFINE us == Updated(ts, x, u)
           t == TreeOf(ts, x)
<1>1. /\ TreeOK(t) /\ t.endless = FALSE
      /\ x \in DOMAIN ts => t = ts[x]
      /\ x \notin DOMAIN ts => Managed(t) = {}
  BY TreeOfOK
<1> HIDE DEF t
<1>2. /\ TreeOK(u) /\ Kin(t, u) /\ u.endless = FALSE /\ Together(t, u)
      /\ Managed(u) = Managed(t) \cup {w}
  BY <1>1 DEF Gains, t
<1>3. /\ DOMAIN us = DOMAIN ts \cup {x}
      /\ us[x] = u /\ \A y \in DOMAIN ts \ {x} : us[y] = ts[y]
  BY DEF Updated, Inserted
<1> HIDE DEF us
<1>4. \A y \in DOMAIN ts : y # x => Managed(u) \cap Managed(ts[y]) = {}
  BY <1>1, <1>2 DEF Forest, Apart
<1>5. Forest(us)
  <2>1. TreeFine(u)
    BY <1>2 DEF TreeFine, TreeOK
  <2> QED BY <1>4, <2>1, UpdatedForest DEF us
<1>6. EndsIn(us)
  BY <1>2, <1>3 DEF EndsIn
<1>7. ASSUME NEW y \in DOMAIN ts
      PROVE  Kin(ts[y], us[y]) /\ Together(ts[y], us[y])
  <2>1. CASE y = x
    BY <1>1, <1>2, <1>3, <2>1
  <2>2. CASE y # x
    <3>1. TreeFine(ts[y]) /\ ~ts[y].endless
      BY DEF Forest, EndsIn
    <3> QED BY <1>3, <2>2, <3>1, NothingDone
  <2> QED BY <2>1, <2>2
<1>8. \A y \in DOMAIN us : Managed(us[y]) =
        (IF y \in DOMAIN ts THEN Managed(ts[y]) ELSE {}) \cup (IF y = x THEN {w} ELSE {})
  BY <1>1, <1>2, <1>3
<1> QED BY <1>3, <1>5, <1>6, <1>7, <1>8 DEF Grown, us

\* add_to_layout
LEMMA AddedToGains ==
  ASSUME NEW ts, Forest(ts), EndsIn(ts), NEW x \in Workspace, setting \in Layouts,
         NEW w \in Window, \A y \in DOMAIN ts : w \notin Managed(ts[y]),
         Reserves(ts, reservation)
  PROVE  \E u : Gains(TreeOf(ts, x), u, w) /\ AddedTo(ts, w, x) = Updated(ts, x, u)
<1> DEFINE t == TreeOf(ts, x)
<1>1. /\ TreeOK(t)
      /\ x \in DOMAIN ts => t = ts[x]
      /\ x \notin DOMAIN ts => Managed(t) = {}
  BY TreeOfOK
<1>2. w \notin DOMAIN t.at
  BY <1>1 DEF Managed
<1>3. CASE reservation # None /\ reservation.workspace = x
  <2>1. reservation.node \in Nodes(t) => ~IsContainer(t.nodes[reservation.node])
    BY <1>1, <1>3 DEF Reserves
  <2>2. Gains(t, Reserved(t, w, reservation), w)
    <3> HIDE DEF t
    <3> QED BY <1>1, <1>2, <2>1, ReservedGains
  <2>3. AddedTo(ts, w, x) = Updated(ts, x, Reserved(t, w, reservation))
    BY <1>3 DEF AddedTo
  <2> QED BY <2>2, <2>3
<1>4. CASE ~(reservation # None /\ reservation.workspace = x)
  <2>1. Gains(t, PlacedByLayout(t, w), w)
    <3> HIDE DEF t
    <3> QED BY <1>1, <1>2, PlacedByLayoutGains
  <2>2. AddedTo(ts, w, x) = Updated(ts, x, PlacedByLayout(t, w))
    BY <1>4 DEF AddedTo
  <2> QED BY <2>1, <2>2
<1> QED BY <1>3, <1>4

\* add_to_floating
LEMMA FloatedGains ==
  ASSUME NEW ts, Forest(ts), EndsIn(ts), NEW x \in Workspace, setting \in Layouts,
         NEW w \in Window, \A y \in DOMAIN ts : w \notin Managed(ts[y])
  PROVE  \E u : Gains(TreeOf(ts, x), u, w) /\ Floated(ts, w, x) = Updated(ts, x, u)
<1> DEFINE t == TreeOf(ts, x)
<1>1. /\ TreeOK(t)
      /\ x \in DOMAIN ts => t = ts[x]
      /\ x \notin DOMAIN ts => Managed(t) = {}
  BY TreeOfOK
<1>2. w \notin DOMAIN t.at
  BY <1>1 DEF Managed
<1>3. Gains(t, AddToFloating(t, w), w)
  <2> HIDE DEF t
  <2> QED BY <1>1, <1>2, AddToFloatingGains
<1> QED BY <1>3 DEF Floated

\* The windows that are managed on some workspace
AllManaged(ts) == {w \in Window : \E x \in DOMAIN ts : w \in Managed(ts[x])}

\* StacksStayTogether for one step
TogetherStep ==
  ManagedWindows' # ManagedWindows =>
    \A x \in DOMAIN trees \cap DOMAIN trees' : Together(trees[x], trees'[x])

\* They are ManagedWindows.
LEMMA ManagedIsAll ==
  /\ ManagedWindows = AllManaged(trees)
  /\ ManagedWindows' = AllManaged(trees')
BY DEF ManagedWindows, IsManaged, ManagedOn, Manages, AllManaged, Managed

\* IsManaged asks for one of them.
LEMMA IsManagedIsThere ==
  ASSUME NEW w \in Window
  PROVE  IsManaged(w) <=> \E x \in DOMAIN trees : w \in Managed(trees[x])
BY DEF IsManaged, ManagedOn, Manages, Managed

\* The count of waiting events keeps to its bound.
LEMMA NotifyCounts ==
  ASSUME changed \in 0..MaxChanged, NEW b, Notify \/ NotifyIf(b) \/ UNCHANGED changed
  PROVE  changed' \in 0..MaxChanged
<1>1. ASSUME Notify PROVE changed' \in 0..MaxChanged
  <2>1. changed + 1 \in Nat /\ MaxChanged \in Nat
    BY ChangedAssumption
  <2>2. changed' = Min({changed + 1, MaxChanged})
    BY <1>1 DEF Notify
  <2>3. \E m \in {changed + 1, MaxChanged} : \A k \in {changed + 1, MaxChanged} : m <= k
    BY <2>1
  <2>4. /\ changed' \in {changed + 1, MaxChanged}
        /\ \A k \in {changed + 1, MaxChanged} : changed' <= k
    BY <2>2, <2>3 DEF Min
  <2> QED BY <2>1, <2>4
<1> QED BY <1>1 DEF NotifyIf

\* A window that is managed nowhere is added to one workspace.
LEMMA AddToLayoutOK ==
  ASSUME NEW ts, Forest(ts), EndsIn(ts), NEW x \in Workspace, setting \in Layouts,
         NEW w \in Window, \A y \in DOMAIN ts : w \notin Managed(ts[y]),
         Reserves(ts, reservation), AddToLayout(ts, w, x)
  PROVE  /\ Forest(trees') /\ Reserves(trees', reservation')
         /\ DOMAIN ts \subseteq DOMAIN trees'
         /\ \A y \in DOMAIN ts : Together(ts[y], trees'[y])
         /\ AllManaged(trees') = AllManaged(ts) \cup {w}
<1>1. trees' = AddedTo(ts, w, x) /\ reservation' = None
  BY DEF AddToLayout
<1>2. PICK u : Gains(TreeOf(ts, x), u, w) /\ AddedTo(ts, w, x) = Updated(ts, x, u)
  BY AddedToGains
<1>3. trees' = Updated(ts, x, u)
  BY <1>1, <1>2
<1>4. Grown(ts, trees', x, w)
  BY <1>2, <1>3, GainsForest
<1>5. AllManaged(trees') = AllManaged(ts) \cup {w}
  BY <1>4 DEF Grown, AllManaged
<1>6. Reserves(trees', reservation')
  BY <1>1 DEF Reserves
<1> QED BY <1>4, <1>5, <1>6 DEF Grown

\* The trees change, not what they manage.
LEMMA SameManaged ==
  ASSUME NEW ts, Forest(ts), NEW us, DOMAIN us = DOMAIN ts, us = [x \in DOMAIN us |-> us[x]],
         \A x \in DOMAIN ts : TreeFine(us[x]) /\ Managed(us[x]) = Managed(ts[x])
  PROVE  Forest(us) /\ AllManaged(us) = AllManaged(ts)
<1>1. DOMAIN ts \subseteq Workspace
  BY PartialFunction DEF Forest
<1>2. us \in Partial(Workspace, TreeSet)
  <2>1. \A x \in DOMAIN us : us[x] \in TreeSet
    BY DEF TreeFine, IsTree
  <2> QED BY <1>1, <2>1, PartialFunction
<1>3. Apart(us)
  BY DEF Apart, Forest
<1> QED BY <1>2, <1>3 DEF Forest, AllManaged

\* A tree whose map and frame are unchanged
LEMMA FrameStays ==
  ASSUME NEW t, TreeOK(t), NEW u, TreeOK(u), SameFrame(t, u), u.at = t.at,
         u.floating = t.floating
  PROVE  Kin(t, u) /\ TreeFine(u) /\ Managed(u) = Managed(t)
<1>1. IsTree(t)
  BY DEF TreeOK
<1> QED BY <1>1, SameFrameKin DEF TreeOK, TreeFine, Managed

\* The lock is free when all loops ended.
LEMMA UnlockedEnds == Unlocked <=> EndsIn(trees)
BY DEF Unlocked, EndsIn

-----------------------------------------------------------------------------
(* The initial states and the steps *)

\* The invariant at the start
LEMMA TwmInitInv == TwmInit => TwmInv
<1> SUFFICES ASSUME TwmInit PROVE TwmInv
  OBVIOUS
<1> USE DEF TwmInit
<1>1. IsLayout(setting)
  BY LayoutAssumption
<1>2. \A x \in DOMAIN trees : TreeOK(trees[x]) /\ Managed(trees[x]) = {}
  BY <1>1, FromPluginOK
<1>3. \A x \in DOMAIN trees : TreeFine(trees[x]) /\ trees[x] \in TreeSet
  BY <1>2 DEF TreeFine, TreeOK, IsTree
<1>4. trees \in Partial(Workspace, TreeSet) /\ layoutCache \in Partial(Workspace, Layouts)
  BY <1>3, PartialFunction
<1>5. Apart(trees)
  BY <1>2 DEF Apart
<1>6. Settled
  BY <1>4, ChangedAssumption DEF Settled
<1>7. Reserves(trees, reservation)
  BY DEF Reserves
<1> QED BY <1>3, <1>4, <1>5, <1>6, <1>7 DEF TwmInv, Forest

\* Nothing that matters here changes.
LEMMA NothingMoves ==
  ASSUME TwmInv, UNCHANGED <<trees, setting, layoutCache, monocle>>,
         Reserves(trees, reservation'), changed' \in 0..MaxChanged
  PROVE  TwmInv' /\ TogetherStep
<1>1. Forest(trees') /\ Reserves(trees', reservation')
  BY DEF TwmInv
<1>2. Settled'
  BY DEF TwmInv, Settled
<1>3. TogetherStep
  BY ManagedIsAll DEF TogetherStep
<1> QED BY <1>1, <1>2, <1>3 DEF TwmInv

\* Adding a window that is in no tree
LEMMA AddingStep ==
  ASSUME TwmInv, Unlocked, NEW w \in Window, NEW x \in Workspace, ~IsManaged(w),
         AddToLayout(trees, w, x), Notify, UNCHANGED <<monocle, setting, layoutCache>>
  PROVE  TwmInv' /\ TogetherStep
<1>1. Forest(trees) /\ EndsIn(trees) /\ setting \in Layouts /\ Reserves(trees, reservation)
  BY UnlockedEnds DEF TwmInv, Settled
<1>2. \A y \in DOMAIN trees : w \notin Managed(trees[y])
  BY IsManagedIsThere
<1>3. /\ Forest(trees') /\ Reserves(trees', reservation')
      /\ \A y \in DOMAIN trees : Together(trees[y], trees'[y])
  BY <1>1, <1>2, AddToLayoutOK
<1>4. Settled'
  BY NotifyCounts DEF TwmInv, Settled
<1> QED BY <1>3, <1>4 DEF TwmInv, TogetherStep

\* The steps keep the invariant and what is to stay together.
LEMMA OnDesktopChangedStep ==
  TwmInv /\ OnDesktopChanged => TwmInv' /\ TogetherStep
<1> SUFFICES ASSUME TwmInv, OnDesktopChanged PROVE TwmInv' /\ TogetherStep
  OBVIOUS
<1>1. Reserves(trees, reservation') /\ UNCHANGED <<trees, setting, layoutCache, monocle>>
  BY DEF OnDesktopChanged, Reserves
<1>2. changed' \in 0..MaxChanged
  BY NotifyCounts DEF OnDesktopChanged, TwmInv, Settled
<1> QED BY <1>1, <1>2, NothingMoves

LEMMA OnWindowAddedStep ==
  ASSUME TwmInv, NEW w \in Window, NEW x \in Workspace, NEW manageable,
         OnWindowAdded(w, x, manageable)
  PROVE  TwmInv' /\ TogetherStep
<1>1. CASE ~IsManaged(w) /\ manageable
  BY <1>1, AddingStep DEF OnWindowAdded
<1>2. CASE ~(~IsManaged(w) /\ manageable)
  <2>1. UNCHANGED <<trees, reservation, changed, monocle, setting, layoutCache>>
    BY <1>2 DEF OnWindowAdded
  <2> QED BY <2>1, NothingMoves DEF TwmInv, Settled
<1> QED BY <1>1, <1>2

\* Removing a window, up to what is done with it afterwards
LEMMA RemovingStep ==
  ASSUME TwmInv, Unlocked, NEW w \in Window, NEW ts \in Removals(trees, w)
  PROVE  /\ Forest(ts) /\ DOMAIN ts = DOMAIN trees /\ Reserves(ts, reservation)
         /\ \A y \in DOMAIN ts : w \notin Managed(ts[y]) /\ Together(trees[y], ts[y])
         /\ AllManaged(ts) = AllManaged(trees) \ {w}
<1>1. Forest(trees) /\ EndsIn(trees) /\ Reserves(trees, reservation)
  BY UnlockedEnds DEF TwmInv
<1>2. /\ Forest(ts) /\ DOMAIN ts = DOMAIN trees
      /\ \A x \in DOMAIN trees : /\ Managed(ts[x]) = Managed(trees[x]) \ {w}
                                 /\ Kin(trees[x], ts[x]) /\ Together(trees[x], ts[x])
  BY <1>1, RemovalsOK
<1>3. Reserves(ts, reservation)
  <2>1. reservation # None =>
          reservation.workspace \in DOMAIN ts
          /\ Kin(trees[reservation.workspace], ts[reservation.workspace])
    BY <1>1, <1>2 DEF Reserves
  <2> QED BY <1>1, <1>2, <2>1, ReservesStays
<1>4. AllManaged(ts) = AllManaged(trees) \ {w}
  BY <1>2 DEF AllManaged
<1> QED BY <1>2, <1>3, <1>4

\* A removal, finished or not
LEMMA RemovedStep ==
  ASSUME TwmInv, Unlocked, NEW w \in Window, NEW ts \in Removals(trees, w), trees' = ts,
         UNCHANGED <<reservation, monocle, setting, layoutCache>>,
         Notify \/ UNCHANGED changed
  PROVE  TwmInv' /\ TogetherStep
<1>1. /\ Forest(ts) /\ DOMAIN ts = DOMAIN trees /\ Reserves(ts, reservation)
      /\ \A y \in DOMAIN ts : Together(trees[y], ts[y])
  BY RemovingStep
<1>2. Settled'
  BY NotifyCounts DEF TwmInv, Settled
<1>3. TogetherStep
  BY <1>1 DEF TogetherStep
<1> QED BY <1>1, <1>2, <1>3 DEF TwmInv

LEMMA OnWindowMovedStep ==
  ASSUME TwmInv, NEW w \in Window, NEW x \in Workspace, OnWindowMoved(w, x)
  PROVE  TwmInv' /\ TogetherStep
<1>0. Unlocked /\ UNCHANGED <<monocle, setting, layoutCache>>
  BY DEF OnWindowMoved
<1>1. CASE ~IsManaged(w)
  <2>1. UNCHANGED <<trees, reservation, changed>>
    BY <1>1 DEF OnWindowMoved
  <2> QED BY <1>0, <2>1, NothingMoves DEF TwmInv, Settled
<1>2. CASE IsManaged(w)
  <2>1. PICK ts \in Removals(trees, w) :
          IF EndsIn(ts) THEN AddToLayout(ts, w, x) /\ Notify ELSE Stuck(ts)
    BY <1>2 DEF OnWindowMoved
  <2>2. CASE ~EndsIn(ts)
    BY <1>0, <2>1, <2>2, RemovedStep DEF Stuck
  <2>3. CASE EndsIn(ts)
    <3>1. AddToLayout(ts, w, x) /\ Notify
      BY <2>1, <2>3
    <3>2. /\ Forest(ts) /\ DOMAIN ts = DOMAIN trees /\ Reserves(ts, reservation)
          /\ \A y \in DOMAIN ts : w \notin Managed(ts[y])
          /\ AllManaged(ts) = AllManaged(trees) \ {w}
      BY <1>0, RemovingStep
    <3>3. setting \in Layouts
      BY DEF TwmInv, Settled
    <3>4. /\ Forest(trees') /\ Reserves(trees', reservation')
          /\ AllManaged(trees') = AllManaged(ts) \cup {w}
      BY <2>3, <3>1, <3>2, <3>3, AddToLayoutOK
    <3>5. w \in AllManaged(trees)
      BY <1>2, IsManagedIsThere DEF AllManaged
    <3>6. TogetherStep
      BY <3>2, <3>4, <3>5, ManagedIsAll DEF TogetherStep
    <3>7. Settled'
      BY <1>0, <3>1, NotifyCounts DEF TwmInv, Settled
    <3> QED BY <3>4, <3>6, <3>7 DEF TwmInv
  <2> QED BY <2>2, <2>3
<1> QED BY <1>1, <1>2

LEMMA OnDesktopDestroyedStep ==
  ASSUME TwmInv, NEW x \in Workspace, OnDesktopDestroyed(x)
  PROVE  TwmInv' /\ TogetherStep
<1>1. /\ trees' = Restrict(trees, DOMAIN trees \ {x})
      /\ monocle' = monocle \ {x} /\ setting' = setting /\ Notify
      /\ layoutCache' = Restrict(layoutCache, DOMAIN layoutCache \ {x})
      /\ reservation' = IF reservation # None /\ reservation.workspace = x
                        THEN None ELSE reservation
      /\ Unlocked
  BY DEF OnDesktopDestroyed
<1>2. /\ DOMAIN trees' = DOMAIN trees \ {x} /\ \A y \in DOMAIN trees' : trees'[y] = trees[y]
      /\ trees' = [y \in DOMAIN trees' |-> trees'[y]]
  BY <1>1 DEF Restrict
<1>3. /\ trees \in Partial(Workspace, TreeSet) /\ DOMAIN trees \subseteq Workspace
      /\ \A y \in DOMAIN trees : TreeFine(trees[y]) /\ trees[y] \in TreeSet
  BY PartialFunction DEF TwmInv, Forest
<1>4. Forest(trees')
  <2>1. trees' \in Partial(Workspace, TreeSet)
    <3>1. \A y \in DOMAIN trees' : trees'[y] \in TreeSet
      BY <1>2, <1>3
    <3> QED BY <1>2, <1>3, <3>1, PartialFunction
  <2>2. Apart(trees')
    BY <1>2 DEF TwmInv, Forest, Apart
  <2> QED BY <1>2, <1>3, <2>1, <2>2 DEF Forest
<1>5. Reserves(trees', reservation')
  <2>1. CASE reservation' = None
    BY <2>1 DEF Reserves
  <2>2. CASE reservation' # None
    <3>1. reservation' = reservation /\ reservation # None /\ reservation.workspace # x
      BY <1>1, <2>2
    <3> QED BY <1>2, <3>1 DEF TwmInv, Reserves
  <2> QED BY <2>1, <2>2
<1>6. Settled'
  <2>1. layoutCache' \in Partial(Workspace, Layouts)
    <3>1. layoutCache \in [DOMAIN layoutCache -> Layouts] /\ DOMAIN layoutCache \subseteq Workspace
      BY PartialFunction DEF TwmInv, Settled
    <3>2. /\ DOMAIN layoutCache' \subseteq Workspace
          /\ layoutCache' \in [DOMAIN layoutCache' -> Layouts]
      BY <1>1, <3>1 DEF Restrict
    <3> QED BY <3>2, PartialFunction
  <2> QED BY <1>1, <2>1, NotifyCounts DEF TwmInv, Settled
<1>7. TogetherStep
  <2> SUFFICES ASSUME NEW y \in DOMAIN trees \cap DOMAIN trees'
               PROVE  Together(trees[y], trees'[y])
    BY DEF TogetherStep
  <2>1. ~trees[y].endless /\ TreeFine(trees[y])
    BY <1>1, <1>3 DEF Unlocked
  <2> QED BY <1>2, <2>1, NothingDone
<1> QED BY <1>4, <1>5, <1>6, <1>7 DEF TwmInv

LEMMA ForgetStep ==
  ASSUME TwmInv, NEW w \in Window, Forget(w)
  PROVE  TwmInv' /\ TogetherStep
<1>0. Unlocked /\ UNCHANGED <<monocle, setting, layoutCache>>
  BY DEF Forget
<1>1. CASE ~IsManaged(w)
  <2>1. UNCHANGED <<trees, reservation, changed>>
    BY <1>1 DEF Forget
  <2> QED BY <1>0, <2>1, NothingMoves DEF TwmInv, Settled
<1>2. CASE IsManaged(w)
  <2>1. PICK ts \in Removals(trees, w) :
          IF EndsIn(ts) THEN trees' = ts /\ Notify /\ UNCHANGED reservation ELSE Stuck(ts)
    BY <1>2 DEF Forget
  <2>2. trees' = ts /\ UNCHANGED reservation /\ (Notify \/ UNCHANGED changed)
    BY <2>1 DEF Stuck
  <2> QED BY <1>0, <2>2, RemovedStep
<1> QED BY <1>1, <1>2

\* Trees of the same windows in place of some of the trees
LEMMA TreesReplaced ==
  ASSUME TwmInv, Unlocked, changed' \in 0..MaxChanged,
         setting' \in Layouts, layoutCache' \in Partial(Workspace, Layouts),
         monocle' \subseteq Workspace, DOMAIN trees' = DOMAIN trees,
         trees' = [x \in DOMAIN trees' |-> trees'[x]],
         \A x \in DOMAIN trees : \/ trees'[x] = trees[x]
                                 \/ /\ TreeOK(trees'[x])
                                    /\ Managed(trees'[x]) = Managed(trees[x]),
         Reserves(trees', reservation')
  PROVE  TwmInv' /\ TogetherStep
<1>1. Forest(trees)
  BY DEF TwmInv
<1>2. \A x \in DOMAIN trees : TreeFine(trees'[x]) /\ Managed(trees'[x]) = Managed(trees[x])
  <2> TAKE x \in DOMAIN trees
  <2>1. CASE trees'[x] = trees[x]
    BY <1>1, <2>1 DEF Forest
  <2>2. CASE TreeOK(trees'[x]) /\ Managed(trees'[x]) = Managed(trees[x])
    BY <2>2 DEF TreeFine, TreeOK
  <2> QED BY <2>1, <2>2
<1>3. Forest(trees') /\ AllManaged(trees') = AllManaged(trees)
  BY <1>1, <1>2, SameManaged
<1>4. Settled'
  BY DEF Settled
<1>5. TogetherStep
  BY <1>3, ManagedIsAll DEF TogetherStep
<1> QED BY <1>3, <1>4, <1>5 DEF TwmInv

\* The same, when the nodes with windows keep their places
LEMMA FramesKept ==
  ASSUME TwmInv, Unlocked, changed' \in 0..MaxChanged,
         UNCHANGED <<monocle, reservation, setting, layoutCache>>,
         DOMAIN trees' = DOMAIN trees,
         trees' = [x \in DOMAIN trees' |-> trees'[x]],
         \A x \in DOMAIN trees : \/ trees'[x] = trees[x]
                                 \/ /\ TreeOK(trees'[x]) /\ Kin(trees[x], trees'[x])
                                    /\ Managed(trees'[x]) = Managed(trees[x])
  PROVE  TwmInv' /\ TogetherStep
<1>1. Forest(trees) /\ Settled /\ Reserves(trees, reservation)
  BY DEF TwmInv
<1>2. \A x \in DOMAIN trees : TreeFine(trees'[x]) /\ Managed(trees'[x]) = Managed(trees[x])
  <2> TAKE x \in DOMAIN trees
  <2>1. CASE trees'[x] = trees[x]
    BY <1>1, <2>1 DEF Forest
  <2>2. CASE TreeOK(trees'[x]) /\ Managed(trees'[x]) = Managed(trees[x])
    BY <2>2 DEF TreeFine, TreeOK
  <2> QED BY <2>1, <2>2
<1>3. Forest(trees')
  BY <1>1, <1>2, SameManaged
<1>4. \A x \in DOMAIN trees : Kin(trees[x], trees'[x])
  <2> TAKE x \in DOMAIN trees
  <2>1. Kin(trees[x], trees[x])
    BY <1>1, NothingDone DEF Forest
  <2> QED BY <2>1
<1>5. Reserves(trees', reservation)
  <2>1. reservation # None =>
          reservation.workspace \in DOMAIN trees'
          /\ Kin(trees[reservation.workspace], trees'[reservation.workspace])
    BY <1>1, <1>4 DEF Reserves
  <2> QED BY <1>1, <1>3, <2>1, ReservesStays
<1>6. Reserves(trees', reservation') /\ setting' \in Layouts /\ monocle' \subseteq Workspace
      /\ layoutCache' \in Partial(Workspace, Layouts)
  BY <1>1, <1>5 DEF Settled
<1> QED BY <1>6, TreesReplaced

LEMMA ShowInStackStep ==
  ASSUME TwmInv, NEW w \in Window, ShowInStack(w)
  PROVE  TwmInv' /\ TogetherStep
<1> DEFINE stacks == {x \in TiledOn(w) : trees[x].nodes[trees[x].at[w]].kind = "Stack"}
<1>1. /\ Unlocked /\ UNCHANGED <<monocle, reservation, setting, layoutCache>>
      /\ trees' = [x \in DOMAIN trees |->
                     IF x \in stacks THEN SetActive(trees[x], w) ELSE trees[x]]
      /\ NotifyIf(stacks # {})
  BY DEF ShowInStack
<1> HIDE DEF stacks
<1>2. changed' \in 0..MaxChanged
  BY <1>1, NotifyCounts DEF TwmInv, Settled
<1>3. \A x \in DOMAIN trees : \/ trees'[x] = trees[x]
                              \/ /\ TreeOK(trees'[x]) /\ Kin(trees[x], trees'[x])
                                 /\ Managed(trees'[x]) = Managed(trees[x])
  <2> SUFFICES ASSUME NEW x \in DOMAIN trees, trees'[x] # trees[x]
               PROVE  /\ TreeOK(trees'[x]) /\ Kin(trees[x], trees'[x])
                      /\ Managed(trees'[x]) = Managed(trees[x])
    OBVIOUS
  <2>1. trees'[x] = SetActive(trees[x], w)
    BY <1>1
  <2>2. TreeOK(trees[x])
    BY <1>1, UnlockedEnds, ForestTree DEF TwmInv
  <2>3. /\ TreeOK(trees'[x]) /\ SameFrame(trees[x], trees'[x])
        /\ trees'[x].at = trees[x].at /\ trees'[x].floating = trees[x].floating
    BY <2>1, <2>2, SetActiveOK
  <2> QED BY <2>2, <2>3, FrameStays
<1>4. DOMAIN trees' = DOMAIN trees /\ trees' = [x \in DOMAIN trees' |-> trees'[x]]
  BY <1>1
<1> QED BY <1>1, <1>2, <1>3, <1>4, FramesKept

LEMMA OnUnminimizedByUserStep ==
  ASSUME TwmInv, NEW w \in Window, NEW place \in Workspace \cup {None}, NEW manageable,
         OnUnminimizedByUser(w, place, manageable)
  PROVE  TwmInv' /\ TogetherStep
<1>1. CASE IsManaged(w)
  BY <1>1, ShowInStackStep DEF OnUnminimizedByUser
<1>2. CASE ~IsManaged(w) /\ manageable /\ place # None
  <2>1. /\ AddToLayout(trees, w, place) /\ Notify /\ place \in Workspace /\ Unlocked
        /\ UNCHANGED <<monocle, setting, layoutCache>>
    BY <1>2 DEF OnUnminimizedByUser
  <2> QED BY <1>2, <2>1, AddingStep
<1>3. CASE ~IsManaged(w) /\ ~(manageable /\ place # None)
  <2>1. UNCHANGED <<trees, reservation, changed, monocle, setting, layoutCache>>
    BY <1>3 DEF OnUnminimizedByUser
  <2> QED BY <2>1, NothingMoves DEF TwmInv, Settled
<1> QED BY <1>1, <1>2, <1>3

LEMMA ReserveStep ==
  ASSUME TwmInv, NEW w \in Window, NEW side \in Sides, Reserve(w, side)
  PROVE  TwmInv' /\ TogetherStep
<1>1. PICK x \in TiledOn(w) :
        reservation' = [workspace |-> x, node |-> trees[x].at[w], side |-> side]
  BY DEF Reserve
<1> DEFINE t == trees[x]
           n == t.at[w]
<1>2. x \in DOMAIN trees /\ w \in DOMAIN t.at /\ Unlocked
  BY <1>1 DEF TiledOn, Reserve
<1>3. TreeOK(t) /\ x \in Workspace
  BY <1>2, UnlockedEnds, ForestTree DEF TwmInv
<1> HIDE DEF t
<1>4. n \in Nodes(t) /\ w \in ToSet(t.nodes[n].windows)
  BY <1>2, <1>3 DEF TreeOK, Mapped, Agreement
<1>5. n \in Nat /\ n < t.next
  <2>1. t.next \in Nat /\ n \in 1..(t.next - 1)
    BY <1>3, <1>4, TreeParts DEF TreeOK, IsTree
  <2> QED BY <2>1
<1>6. ~IsContainer(t.nodes[n])
  <2>1. t.nodes[n].windows # <<>>
    <3>1. ToSet(<<>>) = {}
      BY DEF ToSet
    <3> QED BY <1>4, <3>1
  <2> QED BY <1>3, <1>4, <2>1 DEF TreeOK, Shapes, NodeShape
<1>7. reservation' \in Reservation /\ reservation'.workspace = x /\ reservation'.node = n
  BY <1>1, <1>3, <1>5 DEF Reservation, t
<1>8. Reserves(trees, reservation')
  BY <1>2, <1>5, <1>6, <1>7 DEF Reserves, t
<1> QED BY <1>8, NothingMoves DEF Reserve, TwmInv, Settled

LEMMA CancelReservationStep ==
  TwmInv /\ CancelReservation => TwmInv' /\ TogetherStep
<1> SUFFICES ASSUME TwmInv, CancelReservation PROVE TwmInv' /\ TogetherStep
  OBVIOUS
<1>1. Reserves(trees, reservation')
  BY DEF CancelReservation, Reserves
<1> QED BY <1>1, NothingMoves DEF CancelReservation, TwmInv, Settled

LEMMA RenderTreeStep ==
  TwmInv /\ RenderTree => TwmInv' /\ TogetherStep
<1> SUFFICES ASSUME TwmInv, RenderTree PROVE TwmInv' /\ TogetherStep
  OBVIOUS
<1>1. changed' \in 0..MaxChanged
  BY ChangedAssumption DEF RenderTree, TwmInv, Settled
<1> QED BY <1>1, NothingMoves DEF RenderTree, TwmInv, Settled

LEMMA ToggleFloatStep ==
  ASSUME TwmInv, NEW w \in Window, NEW place \in Workspace, ToggleFloat(w, place)
  PROVE  TwmInv' /\ TogetherStep
<1>1. Unlocked /\ IsManaged(w) /\ UNCHANGED <<monocle, setting, layoutCache>>
  BY DEF ToggleFloat
<1>2. PICK ts \in Removals(trees, w) :
        IF ~EndsIn(ts) THEN Stuck(ts)
        ELSE /\ IF TiledOn(w) # {}
                THEN trees' = Floated(ts, w, place) /\ UNCHANGED reservation
                ELSE AddToLayout(ts, w, place)
             /\ Notify
  BY DEF ToggleFloat
<1>3. CASE ~EndsIn(ts)
  BY <1>1, <1>2, <1>3, RemovedStep DEF Stuck
<1>4. CASE EndsIn(ts)
  <2>1. /\ Forest(ts) /\ DOMAIN ts = DOMAIN trees /\ Reserves(ts, reservation)
        /\ \A y \in DOMAIN ts : w \notin Managed(ts[y])
        /\ AllManaged(ts) = AllManaged(trees) \ {w}
    BY <1>1, RemovingStep
  <2>2. setting \in Layouts
    BY DEF TwmInv, Settled
  <2>3. /\ Forest(trees') /\ Reserves(trees', reservation')
        /\ AllManaged(trees') = AllManaged(ts) \cup {w}
    <3>1. CASE TiledOn(w) = {}
      <4>1. AddToLayout(ts, w, place)
        BY <1>2, <1>4, <3>1
      <4> QED BY <1>4, <2>1, <2>2, <4>1, AddToLayoutOK
    <3>2. CASE TiledOn(w) # {}
      <4>1. trees' = Floated(ts, w, place) /\ reservation' = reservation
        BY <1>2, <1>4, <3>2
      <4>2. PICK u : Gains(TreeOf(ts, place), u, w) /\ Floated(ts, w, place) = Updated(ts, place, u)
        BY <1>4, <2>1, <2>2, FloatedGains
      <4>3. trees' = Updated(ts, place, u)
        BY <4>1, <4>2
      <4>4. Grown(ts, trees', place, w)
        BY <1>4, <2>1, <2>2, <4>2, <4>3, GainsForest
      <4>5. AllManaged(trees') = AllManaged(ts) \cup {w}
        BY <4>4 DEF Grown, AllManaged
      <4>6. reservation # None =>
              reservation.workspace \in DOMAIN trees'
              /\ Kin(ts[reservation.workspace], trees'[reservation.workspace])
        BY <2>1, <4>4 DEF Grown, Reserves
      <4>7. Forest(trees')
        BY <4>4 DEF Grown
      <4> QED BY <2>1, <4>1, <4>5, <4>6, <4>7, ReservesStays
    <3> QED BY <3>1, <3>2
  <2>4. w \in AllManaged(trees)
    BY <1>1, IsManagedIsThere DEF AllManaged
  <2>5. TogetherStep
    BY <2>1, <2>3, <2>4, ManagedIsAll DEF TogetherStep
  <2>6. Notify
    BY <1>2, <1>4
  <2>7. Settled'
    BY <1>1, <2>6, NotifyCounts DEF TwmInv, Settled
  <2> QED BY <2>3, <2>5, <2>7 DEF TwmInv
<1> QED BY <1>3, <1>4

LEMMA SwapStep ==
  ASSUME TwmInv, NEW a \in Window, NEW b \in Window, Swap(a, b)
  PROVE  TwmInv' /\ TogetherStep
<1>1. PICK x \in TiledOn(a) : trees' = [trees EXCEPT ![x] = SwapNodes(@, a, b)]
  BY DEF Swap
<1>2. x \in DOMAIN trees /\ Unlocked /\ Notify
      /\ UNCHANGED <<monocle, reservation, setting, layoutCache>>
  BY <1>1 DEF TiledOn, Swap
<1>3. /\ DOMAIN trees' = DOMAIN trees /\ trees' = [y \in DOMAIN trees' |-> trees'[y]]
      /\ trees'[x] = SwapNodes(trees[x], a, b)
      /\ \A y \in DOMAIN trees : y # x => trees'[y] = trees[y]
  BY <1>1, <1>2
<1>4. TreeOK(trees[x])
  BY <1>2, UnlockedEnds, ForestTree DEF TwmInv
<1>5. /\ TreeOK(trees'[x]) /\ Kin(trees[x], trees'[x])
      /\ Managed(trees'[x]) = Managed(trees[x])
  BY <1>3, <1>4, SwapNodesOK
<1>6. changed' \in 0..MaxChanged
  BY <1>2, NotifyCounts DEF TwmInv, Settled
<1> QED BY <1>2, <1>3, <1>5, <1>6, FramesKept

LEMMA CycleStep ==
  ASSUME TwmInv, NEW w \in Window, NEW way \in {1, -1}, Cycle(w, way)
  PROVE  TwmInv' /\ TogetherStep
<1>1. PICK x \in TiledOn(w) : trees' = [trees EXCEPT ![x] = CycleStack(@, w, way)]
  BY DEF Cycle
<1>2. x \in DOMAIN trees /\ Unlocked /\ Notify /\ way \in Int
      /\ UNCHANGED <<monocle, reservation, setting, layoutCache>>
  BY <1>1 DEF TiledOn, Cycle
<1>3. /\ DOMAIN trees' = DOMAIN trees /\ trees' = [y \in DOMAIN trees' |-> trees'[y]]
      /\ trees'[x] = CycleStack(trees[x], w, way)
      /\ \A y \in DOMAIN trees : y # x => trees'[y] = trees[y]
  BY <1>1, <1>2
<1>4. TreeOK(trees[x])
  BY <1>2, UnlockedEnds, ForestTree DEF TwmInv
<1>5. /\ TreeOK(trees'[x]) /\ SameFrame(trees[x], trees'[x])
      /\ trees'[x].at = trees[x].at /\ trees'[x].floating = trees[x].floating
  BY <1>2, <1>3, <1>4, CycleStackOK
<1>6. Kin(trees[x], trees'[x]) /\ Managed(trees'[x]) = Managed(trees[x])
  BY <1>4, <1>5, FrameStays
<1>7. changed' \in 0..MaxChanged
  BY <1>2, NotifyCounts DEF TwmInv, Settled
<1> QED BY <1>2, <1>3, <1>5, <1>6, <1>7, FramesKept

LEMMA ToggleMonocleStep ==
  ASSUME TwmInv, reservation = None, NEW x \in Workspace, ToggleMonocle(x)
  PROVE  TwmInv' /\ TogetherStep
<1> DEFINE layout == IF x \in monocle THEN setting ELSE Monocle
<1>1. /\ Unlocked /\ monocle' = SymDiff(monocle, {x}) /\ Notify
      /\ trees' = [y \in DOMAIN trees |->
                     IF y = x THEN ChangeLayout(trees[x], layout) ELSE trees[y]]
      /\ UNCHANGED <<reservation, setting, layoutCache>>
  BY DEF ToggleMonocle
<1>2. setting \in Layouts /\ layoutCache \in Partial(Workspace, Layouts) /\ monocle \subseteq Workspace
  BY DEF TwmInv, Settled
<1>3. IsLayout(layout)
  BY <1>2, LayoutAssumption
<1> HIDE DEF layout
<1>4. monocle' \subseteq Workspace
  BY <1>1, <1>2 DEF SymDiff
<1>5. /\ DOMAIN trees' = DOMAIN trees /\ trees' = [y \in DOMAIN trees' |-> trees'[y]]
      /\ \A y \in DOMAIN trees : trees'[y] = trees[y] \/ trees'[y] = ChangeLayout(trees[y], layout)
  BY <1>1
<1>6. \A y \in DOMAIN trees : \/ trees'[y] = trees[y]
                              \/ TreeOK(trees'[y]) /\ Managed(trees'[y]) = Managed(trees[y])
  <2> SUFFICES ASSUME NEW y \in DOMAIN trees, trees'[y] = ChangeLayout(trees[y], layout)
               PROVE  TreeOK(trees'[y]) /\ Managed(trees'[y]) = Managed(trees[y])
    BY <1>5
  <2>1. TreeOK(trees[y])
    BY <1>1, UnlockedEnds, ForestTree DEF TwmInv
  <2> QED BY <1>3, <2>1, ChangeLayoutOK
<1>7. changed' \in 0..MaxChanged
  BY <1>1, NotifyCounts DEF TwmInv, Settled
<1>8. Reserves(trees', reservation')
  BY <1>1 DEF Reserves
<1> QED BY <1>1, <1>2, <1>4, <1>5, <1>6, <1>7, <1>8, TreesReplaced

LEMMA ChangeSettingStep ==
  ASSUME TwmInv, reservation = None, NEW layout \in Layouts, ChangeSetting(layout)
  PROVE  TwmInv' /\ TogetherStep
<1> DEFINE stale == {x \in DOMAIN trees :
                       x \notin DOMAIN layoutCache \/ layoutCache[x] # layout}
           rebuilt == stale \ monocle
<1>1. /\ Unlocked /\ setting' = layout
      /\ layoutCache' = [x \in stale \cup DOMAIN layoutCache |->
                           IF x \in stale THEN layout ELSE layoutCache[x]]
      /\ trees' = [x \in DOMAIN trees |->
                     IF x \in rebuilt THEN ChangeLayout(trees[x], layout) ELSE trees[x]]
      /\ NotifyIf(rebuilt # {})
      /\ UNCHANGED <<monocle, reservation>>
  BY DEF ChangeSetting
<1>2. stale \subseteq DOMAIN trees
  OBVIOUS
<1> HIDE DEF stale, rebuilt
<1>3. IsLayout(layout)
  BY LayoutAssumption
<1>4. layoutCache' \in Partial(Workspace, Layouts)
  <2>1. /\ DOMAIN layoutCache \subseteq Workspace /\ DOMAIN trees \subseteq Workspace
        /\ layoutCache \in [DOMAIN layoutCache -> Layouts]
    BY PartialFunction DEF TwmInv, Settled, Forest
  <2>2. DOMAIN layoutCache' \subseteq Workspace
    BY <1>1, <1>2, <2>1
  <2>3. layoutCache' \in [DOMAIN layoutCache' -> Layouts]
    BY <1>1, <2>1
  <2> QED BY <2>2, <2>3, PartialFunction
<1>5. /\ DOMAIN trees' = DOMAIN trees /\ trees' = [y \in DOMAIN trees' |-> trees'[y]]
      /\ \A y \in DOMAIN trees : trees'[y] = trees[y] \/ trees'[y] = ChangeLayout(trees[y], layout)
  BY <1>1
<1>6. \A y \in DOMAIN trees : \/ trees'[y] = trees[y]
                              \/ TreeOK(trees'[y]) /\ Managed(trees'[y]) = Managed(trees[y])
  <2> SUFFICES ASSUME NEW y \in DOMAIN trees, trees'[y] = ChangeLayout(trees[y], layout)
               PROVE  TreeOK(trees'[y]) /\ Managed(trees'[y]) = Managed(trees[y])
    BY <1>5
  <2>1. TreeOK(trees[y])
    BY <1>1, UnlockedEnds, ForestTree DEF TwmInv
  <2> QED BY <1>3, <2>1, ChangeLayoutOK
<1>7. changed' \in 0..MaxChanged
  BY <1>1, NotifyCounts DEF TwmInv, Settled
<1>8. Reserves(trees', reservation') /\ monocle' \subseteq Workspace /\ setting' \in Layouts
  BY <1>1 DEF Reserves, TwmInv, Settled
<1> QED BY <1>1, <1>4, <1>5, <1>6, <1>7, <1>8, TreesReplaced

\* All the events
LEMMA EventsStep ==
  TwmInv /\ Events => TwmInv' /\ TogetherStep
<1> SUFFICES ASSUME TwmInv, Events PROVE TwmInv' /\ TogetherStep
  OBVIOUS
<1>1. CASE OnDesktopChanged
  BY <1>1, OnDesktopChangedStep
<1>2. ASSUME NEW w \in Window, NEW x \in Workspace, OnWindowAdded(w, x, TRUE)
      PROVE  TwmInv' /\ TogetherStep
  BY <1>2, OnWindowAddedStep
<1>3. ASSUME NEW w \in Window, NEW x \in Workspace, OnWindowMoved(w, x)
      PROVE  TwmInv' /\ TogetherStep
  BY <1>3, OnWindowMovedStep
<1>4. ASSUME NEW w \in Window, NEW x \in Workspace, OnUnminimizedByUser(w, x, TRUE)
      PROVE  TwmInv' /\ TogetherStep
  BY <1>4, OnUnminimizedByUserStep
<1>5. ASSUME NEW w \in Window, Forget(w) PROVE TwmInv' /\ TogetherStep
  BY <1>5, ForgetStep
<1>6. ASSUME NEW x \in Workspace, OnDesktopDestroyed(x) PROVE TwmInv' /\ TogetherStep
  BY <1>6, OnDesktopDestroyedStep
<1> QED BY <1>1, <1>2, <1>3, <1>4, <1>5, <1>6 DEF Events

\* The windows of a command are on any of the workspaces homes tells.
LEMMA CommandsStep ==
  ASSUME TwmInv, NEW homes \in [Window -> SUBSET Workspace], Commands(homes)
  PROVE  TwmInv' /\ TogetherStep
<1>1. ASSUME NEW w \in Window, NEW side \in Sides, Reserve(w, side)
      PROVE  TwmInv' /\ TogetherStep
  BY <1>1, ReserveStep
<1>2. CASE CancelReservation
  BY <1>2, CancelReservationStep
<1>3. ASSUME NEW w \in Window, NEW place \in homes[w], ToggleFloat(w, place)
      PROVE  TwmInv' /\ TogetherStep
  <2>1. place \in Workspace
    OBVIOUS
  <2> QED BY <1>3, <2>1, ToggleFloatStep
<1>4. ASSUME NEW a \in Window, NEW b \in Window, Swap(a, b) PROVE TwmInv' /\ TogetherStep
  BY <1>4, SwapStep
<1>5. ASSUME NEW w \in Window, NEW way \in {1, -1}, Cycle(w, way)
      PROVE  TwmInv' /\ TogetherStep
  BY <1>5, CycleStep
<1>6. ASSUME NEW w \in Window, ShowInStack(w) PROVE TwmInv' /\ TogetherStep
  BY <1>6, ShowInStackStep
<1>7. ASSUME reservation = None, NEW x \in Workspace, ToggleMonocle(x)
      PROVE  TwmInv' /\ TogetherStep
  BY <1>7, ToggleMonocleStep
<1>8. ASSUME reservation = None, NEW layout \in Layouts, ChangeSetting(layout)
      PROVE  TwmInv' /\ TogetherStep
  BY <1>8, ChangeSettingStep
<1>9. CASE TreeCommand(homes)
  BY <1>1, <1>2, <1>3, <1>4, <1>5, <1>6, <1>9 DEF TreeCommand
<1>10. CASE reservation = None /\ LayoutCommand
  BY <1>7, <1>8, <1>10 DEF LayoutCommand
<1> QED BY <1>9, <1>10 DEF Commands

\* All the steps
LEMMA TwmNextStep ==
  TwmInv /\ [TwmNext]_twmVars => TwmInv' /\ TogetherStep
<1> SUFFICES ASSUME TwmInv, [TwmNext]_twmVars PROVE TwmInv' /\ TogetherStep
  OBVIOUS
<1>1. CASE Events
  BY <1>1, EventsStep
<1>2. CASE Commands([w \in Window |-> Workspace])
  <2>1. [w \in Window |-> Workspace] \in [Window -> SUBSET Workspace]
    OBVIOUS
  <2> QED BY <1>2, <2>1, CommandsStep
<1>3. CASE RenderTree
  BY <1>3, RenderTreeStep
<1>4. CASE UNCHANGED twmVars
  <2>1. UNCHANGED <<trees, reservation, changed, monocle, setting, layoutCache>>
    BY <1>4 DEF twmVars
  <2> QED BY <2>1, NothingMoves DEF TwmInv, Settled
<1> QED BY <1>1, <1>2, <1>3, <1>4 DEF TwmNext

-----------------------------------------------------------------------------
(* What the run TilingTrees checks *)

\* The trees are sound as long as their loops end, no window is managed on two
\* workspaces, and what is reserved is not a container.
THEOREM TwmIsInvariant == TwmSpec => []TwmInv
<1>1. TwmInv /\ [TwmNext]_twmVars => TwmInv'
  BY TwmNextStep
<1> QED BY <1>1, TwmInitInv, PTL DEF TwmSpec

\* The trees the properties are about are sound.
LEMMA EndedTrees ==
  ASSUME TwmInv, NEW t \in Ended
  PROVE  TreeOK(t)
<1>1. PICK x \in DOMAIN trees : t = trees[x]
  BY DEF Ended, Range
<1>2. TreeFine(t) /\ ~t.endless
  BY <1>1 DEF TwmInv, Forest, Ended
<1> QED BY <1>2, NotEndless

\* The types follow from the invariant.
LEMMA TreesAreTyped == TwmInv => TwmTypeOK
<1> SUFFICES ASSUME TwmInv PROVE TwmTypeOK
  OBVIOUS
<1>1. /\ trees \in [DOMAIN trees -> TreeSet] /\ DOMAIN trees \subseteq Workspace
      /\ layoutCache \in [DOMAIN layoutCache -> Layouts]
  BY PartialFunction DEF TwmInv, Forest, Settled
<1>2. trees \in [DOMAIN trees -> Range(trees)] /\ Range(layoutCache) \subseteq Layouts
  BY <1>1 DEF Range
<1>3. ASSUME NEW t \in Range(trees)
      PROVE  /\ t.next \in Nat
             /\ Nodes(t) \subseteq 1..(t.next - 1)
             /\ DOMAIN t.at \subseteq Window /\ DOMAIN t.time = DOMAIN t.at
             /\ t.floating \subseteq Window
             /\ \A n \in Nodes(t) :
                  /\ t.nodes[n].kind \in {"Leaf", "Stack", "Split"}
                  /\ t.nodes[n].policy \in {"Manual", "Auto", "AutoWhenOverflow"}
                  /\ t.nodes[n].temporal \in BOOLEAN
  <2>1. IsTree(t)
    BY <1>3 DEF Range, TwmInv, Forest, TreeFine
  <2>2. \A n \in Nodes(t) : t.nodes[n] \in NodeSet
    BY <2>1, NodeParts
  <2> QED BY <2>1, <2>2, TreeParts DEF NodeSet
<1>4. reservation \in Reservation \cup {None}
  BY DEF TwmInv, Reserves
<1> QED BY <1>1, <1>2, <1>3, <1>4 DEF TwmTypeOK, TwmInv, Settled

\* The manager's types; above all the map and the times are about the same
\* windows and no node has an id that is yet to be given out.
THEOREM TypesHold == TwmSpec => []TwmTypeOK
BY TwmIsInvariant, TreesAreTyped, PTL

\* Whatever is added, reindexed, collapsed, swapped and split, the map leads to
\* the one node that lists the window, and no tiled window floats.
THEOREM MapAgrees == TwmSpec => []MapAgreesWithNodes
<1>1. TwmInv => MapAgreesWithNodes
  <2> SUFFICES ASSUME TwmInv, NEW t \in Ended
               PROVE  /\ \A n \in Nodes(t) :
                           /\ ToSet(t.nodes[n].windows) = {w \in DOMAIN t.at : t.at[w] = n}
                           /\ IsInjective(t.nodes[n].windows)
                      /\ Range(t.at) \subseteq Nodes(t)
                      /\ t.floating \cap DOMAIN t.at = {}
    BY DEF MapAgreesWithNodes
  <2>1. TreeOK(t)
    BY EndedTrees
  <2> QED BY <2>1 DEF TreeOK, Agreement, Mapped, Range
<1> QED BY <1>1, TwmIsInvariant, PTL

\* Every node of every tree is reached from the root once and knows its parent.
THEOREM TreesAreConnected == TwmSpec => []TreesConnected
<1>1. TwmInv => TreesConnected
  <2> SUFFICES ASSUME TwmInv, NEW t \in Ended
               PROVE  /\ IsInjective(Preorder(t)) /\ ToSet(Preorder(t)) = Nodes(t)
                      /\ \A n \in Nodes(t) :
                           LET node == t.nodes[n]
                           IN  /\ \A c \in ToSet(node.children) : t.nodes[c].parent = n
                               /\ IF IsContainer(node) THEN node.windows = <<>>
                                  ELSE node.children = <<>>
    BY DEF TreesConnected
  <2>1. TreeOK(t)
    BY EndedTrees
  <2>2. IsInjective(Preorder(t)) /\ ToSet(Preorder(t)) = Nodes(t)
    BY <2>1, PreorderVisitsEach DEF TreeOK
  <2>3. \A n \in Nodes(t) : \A c \in ToSet(t.nodes[n].children) : t.nodes[c].parent = n
    BY <2>1 DEF TreeOK, Skeleton, Closed, Links
  <2> QED BY <2>1, <2>2, <2>3 DEF TreeOK, Shapes, NodeShape
<1> QED BY <1>1, TwmIsInvariant, PTL

\* A leaf shows one window, and a node with windows has one of them active.
THEOREM TilesShowOne == TwmSpec => []TilesShowOneWindow
<1>1. TwmInv => TilesShowOneWindow
  <2> SUFFICES ASSUME TwmInv, NEW t \in Ended, NEW n \in Nodes(t)
               PROVE  NodeShape(t.nodes[n])
    BY DEF TilesShowOneWindow, NodeShape
  <2> QED BY EndedTrees DEF TreeOK, Shapes
<1> QED BY <1>1, TwmIsInvariant, PTL

\* Two windows of a stack the user has made share a node after every step that
\* adds a window or removes one and leaves both in the tree.
THEOREM StacksTogether == TwmSpec => StacksStayTogether
<1>1. TwmInv /\ [TwmNext]_twmVars =>
        [ManagedWindows' # ManagedWindows =>
          \A x \in DOMAIN trees \cap DOMAIN trees' :
            \A n \in {m \in Nodes(trees[x]) : IsKept(trees[x].nodes[m])} :
              \A a, b \in ToSet(trees[x].nodes[n].windows) :
                a # b => TogetherIn(trees', x, a, b)]_twmVars
  <2> SUFFICES ASSUME TwmInv, [TwmNext]_twmVars, ManagedWindows' # ManagedWindows,
                      NEW x \in DOMAIN trees \cap DOMAIN trees',
                      NEW n \in {m \in Nodes(trees[x]) : IsKept(trees[x].nodes[m])},
                      NEW a \in ToSet(trees[x].nodes[n].windows),
                      NEW b \in ToSet(trees[x].nodes[n].windows), a # b
               PROVE  TogetherIn(trees', x, a, b)
    OBVIOUS
  <2>1. Together(trees[x], trees'[x])
    BY TwmNextStep DEF TogetherStep
  <2> QED BY <2>1 DEF Together, TogetherIn, Manages, Managed
<1> QED BY <1>1, TwmIsInvariant, PTL DEF TwmSpec, StacksStayTogether

-----------------------------------------------------------------------------
(* Among the virtual desktops *)

\* What the channels may hold
VdEvents ==
  [kind : {"added", "moved"}, win : Window, ws : Workspace]
  \cup [kind : {"changed", "destroyed"}, win : {None}, ws : Workspace]
  \cup [kind : {"removed", "unminimizedByUser"}, win : Window, ws : {None}]

HookEvents == [kind : {"minimized", "unminimized", "destroyed"}, win : Window]

HookCalls ==
  {HookIdle} \cup [pc : {"forgetting"}, win : Window, ws : {None}]
  \cup [pc : {"switching"}, win : Window, ws : Workspace \cup {None}]

\* What waits and what is under way is well formed. Without that the manager
\* might be told of a window that is none.
DesktopsInv ==
  /\ home \in [Window -> Workspace \cup {None}]
  /\ open \subseteq Workspace /\ active \in open
  /\ marks \subseteq Window /\ stackMarks \subseteq Window
  /\ minimized \subseteq alive /\ leaving \subseteq Window /\ alive \subseteq Window
  /\ restored \in [Window -> Nat]
  /\ drawing \in Workspace \cup {None}
  /\ out \in [Thread -> Seq(VdEvents)] /\ vdQueue \in Seq(VdEvents)
  /\ hookQueue \in Seq(HookEvents) /\ hookCall \in HookCalls

\* There are finitely many hook events.
LEMMA HookEventsFinite == IsFiniteSet(HookEvents)
<1> DEFINE K == {"minimized", "unminimized", "destroyed"}
           f == [p \in K \X Window |-> [kind |-> p[1], win |-> p[2]]]
<1>1. IsFiniteSet(K)
  <2>1. IsFiniteSet({"minimized"} \cup {"unminimized"})
    BY FS_Singleton, FS_Union
  <2>2. IsFiniteSet({"destroyed"})
    BY FS_Singleton
  <2>3. K = ({"minimized"} \cup {"unminimized"}) \cup {"destroyed"}
    OBVIOUS
  <2> QED BY <2>1, <2>2, <2>3, FS_Union
<1>2. IsFiniteSet(K \X Window)
  BY <1>1, WindowAssumption, FS_Product
<1>3. f \in Surjection(K \X Window, HookEvents)
  <2>1. f \in [K \X Window -> HookEvents]
    BY DEF HookEvents
  <2>2. ASSUME NEW e \in HookEvents PROVE \E p \in K \X Window : f[p] = e
    <3>1. <<e.kind, e.win>> \in K \X Window /\ f[<<e.kind, e.win>>] = e
      BY DEF HookEvents
    <3> QED BY <3>1
  <2> QED BY <2>1, <2>2 DEF Surjection
<1> HIDE DEF f
<1> QED BY <1>2, <1>3, FS_Surjection

\* A finite set in any order
LEMMA SequencesOf ==
  ASSUME NEW T, NEW S \in SUBSET T, IsFiniteSet(S), NEW s \in SetToSeqs(S)
  PROVE  s \in Seq(T)
<1>1. Cardinality(S) \in Nat /\ s \in [1..Cardinality(S) -> S]
  BY FS_CardinalityType DEF SetToSeqs
<1>2. s \in Seq(S)
  BY <1>1, IsASeq
<1> QED BY <1>2, SeqMonotonic

\* Hook events in any order
LEMMA HookSequences ==
  ASSUME NEW S \in SUBSET HookEvents, NEW s \in SetToSeqs(S)
  PROVE  s \in Seq(HookEvents)
<1>1. IsFiniteSet(S)
  BY HookEventsFinite, FS_Subset
<1> QED BY <1>1, SequencesOf

\* hide and restore
LEMMA RestoreTyped ==
  ASSUME DesktopsInv, NEW ws \in SUBSET Window, NEW s, Restore(ws, s),
         s.marks \subseteq Window, s.minimized \subseteq alive,
         s.events \subseteq HookEvents
  PROVE  /\ marks' \subseteq Window /\ minimized' \subseteq alive
         /\ restored' \in [Window -> Nat] /\ hookQueue' \in Seq(HookEvents)
<1> DEFINE back == ws \cap s.minimized \cap s.marks
<1>1. /\ marks' = s.marks \ (back \cup (ws \ s.minimized))
      /\ minimized' = s.minimized \ back
      /\ restored' = [w \in Window |-> restored[w] + IF w \in back THEN 1 ELSE 0]
      /\ \E first \in SetToSeqs(s.events),
            then \in SetToSeqs({Hooked("unminimized", w) : w \in back}) :
           hookQueue' = hookQueue \o first \o then
  BY DEF Restore
<1>2. {Hooked("unminimized", w) : w \in back} \subseteq HookEvents
  BY DEF Hooked, HookEvents
<1> HIDE DEF back
<1>3. restored' \in [Window -> Nat]
  BY <1>1 DEF DesktopsInv
<1>4. PICK first \in SetToSeqs(s.events) :
        \E then \in SetToSeqs({Hooked("unminimized", w) : w \in back}) :
          hookQueue' = hookQueue \o first \o then
  BY <1>1
<1>5. PICK then \in SetToSeqs({Hooked("unminimized", w) : w \in back}) :
        hookQueue' = hookQueue \o first \o then
  BY <1>4
<1>6. first \in Seq(HookEvents)
  BY HookSequences
<1>7. then \in Seq(HookEvents)
  BY <1>2, HookSequences
<1>8. hookQueue' \in Seq(HookEvents)
  BY <1>5, <1>6, <1>7, ConcatProperties DEF DesktopsInv
<1> QED BY <1>1, <1>3, <1>8

\* SwitchTo as a whole
LEMMA SwitchToTyped ==
  ASSUME DesktopsInv, NEW x, SwitchTo(x)
  PROVE  /\ marks' \subseteq Window /\ minimized' \subseteq alive /\ active' \in open
         /\ restored' \in [Window -> Nat] /\ hookQueue' \in Seq(HookEvents)
         /\ vdQueue' \in Seq(VdEvents)
         /\ UNCHANGED <<twmVars, home, open, alive, leaving, stackMarks, drawing>>
<1> DEFINE h == Hide(On(active))
           hidden == (On(active) \cap alive) \ minimized
<1>1. /\ x \in open /\ Restore(On(x), h) /\ active' = x
      /\ vdQueue' = Append(vdQueue, Sent("changed", None, x))
      /\ UNCHANGED <<twmVars, home, open, alive, leaving, stackMarks, drawing>>
  BY DEF SwitchTo
<1>2. /\ h.marks = marks \cup hidden /\ h.minimized = minimized \cup hidden
      /\ h.events = {Hooked("minimized", w) : w \in hidden}
  BY DEF Hide
<1>3. /\ On(x) \subseteq Window /\ hidden \subseteq Window /\ hidden \subseteq alive
      /\ {Hooked("minimized", w) : w \in hidden} \subseteq HookEvents
  BY DEF On, Hooked, HookEvents, DesktopsInv
<1> HIDE DEF h, hidden
<1>4. h.marks \subseteq Window /\ h.minimized \subseteq alive /\ h.events \subseteq HookEvents
  BY <1>2, <1>3 DEF DesktopsInv
<1>5. Sent("changed", None, x) \in VdEvents
  BY <1>1 DEF Sent, VdEvents, DesktopsInv
<1>6. vdQueue' \in Seq(VdEvents)
  BY <1>1, <1>5, AppendProperties DEF DesktopsInv
<1>7. /\ marks' \subseteq Window /\ minimized' \subseteq alive
      /\ restored' \in [Window -> Nat] /\ hookQueue' \in Seq(HookEvents)
  BY <1>1, <1>3, <1>4, RestoreTyped
<1> QED BY <1>1, <1>6, <1>7

\* What the threads of VdManager do keeps the types, and the manager does not
\* notice.
LEMMA SendTyped ==
  ASSUME DesktopsInv, NEW t \in Thread, NEW w \in Window, NEW x \in Workspace, SendTo(t, w, x)
  PROVE  DesktopsInv' /\ UNCHANGED twmVars
<1>1. /\ x \in open
      /\ home' = [home EXCEPT ![w] = x]
      /\ out' = [out EXCEPT ![t] = <<Sent("moved", w, x)>>]
      /\ UNCHANGED <<twmVars, active, open, restored, vdQueue, hookCall, alive, leaving,
                     stackMarks, drawing>>
  BY DEF SendTo
<1>2. Sent("moved", w, x) \in VdEvents
  BY DEF Sent, VdEvents
<1>3. out' \in [Thread -> Seq(VdEvents)] /\ home' \in [Window -> Workspace \cup {None}]
  BY <1>1, <1>2 DEF DesktopsInv
<1>4. marks' \subseteq Window /\ minimized' \subseteq alive /\ hookQueue' \in Seq(HookEvents)
  <2>1. Hooked("minimized", w) \in HookEvents
    BY DEF Hooked, HookEvents
  <2>2. Append(hookQueue, Hooked("minimized", w)) \in Seq(HookEvents)
    BY <2>1, AppendProperties DEF DesktopsInv
  <2>3. hookQueue' \in {hookQueue, Append(hookQueue, Hooked("minimized", w))}
    BY DEF SendTo
  <2>4. /\ marks' \in {marks, marks \cup {w}}
        /\ minimized' \in {minimized, minimized \cup ({w} \cap alive)}
    BY DEF SendTo
  <2> QED BY <2>2, <2>3, <2>4 DEF DesktopsInv
<1> QED BY <1>1, <1>3, <1>4 DEF DesktopsInv

\* What is announced of a destruction
LEMMA DestructionTyped ==
  ASSUME NEW S \in SUBSET Window, NEW ws \in SetToSeqs(S), NEW x \in Workspace,
         NEW y \in Workspace, NEW now \in Workspace, NEW b \in BOOLEAN
  PROVE  [i \in DOMAIN ws |-> Sent("moved", ws[i], y)]
           \o <<Sent("destroyed", None, x)>>
           \o (IF b THEN <<Sent("changed", None, now)>> ELSE <<>>) \in Seq(VdEvents)
<1>1. IsFiniteSet(S)
  BY WindowAssumption, FS_Subset
<1>2. ws \in Seq(Window)
  BY <1>1, SequencesOf
<1> DEFINE moved == [i \in DOMAIN ws |-> Sent("moved", ws[i], y)]
<1>3. Len(ws) \in Nat /\ DOMAIN ws = 1..Len(ws) /\ \A i \in 1..Len(ws) : ws[i] \in Window
  BY <1>2, LenProperties, ElementOfSeq
<1>4. moved \in Seq(VdEvents)
  <2>1. moved \in [1..Len(ws) -> VdEvents]
    BY <1>3 DEF Sent, VdEvents
  <2> QED BY <1>3, <2>1, IsASeq
<1>5. /\ <<Sent("destroyed", None, x)>> \in Seq(VdEvents)
      /\ (IF b THEN <<Sent("changed", None, now)>> ELSE <<>>) \in Seq(VdEvents)
  <2>1. Sent("destroyed", None, x) \in VdEvents /\ Sent("changed", None, now) \in VdEvents
    BY DEF Sent, VdEvents
  <2> HIDE DEF VdEvents
  <2> QED BY <2>1
<1> HIDE DEF moved
<1>6. moved \o <<Sent("destroyed", None, x)>> \in Seq(VdEvents)
  BY <1>4, <1>5, ConcatProperties
<1> QED BY <1>5, <1>6, ConcatProperties DEF moved

LEMMA DestroyTyped ==
  ASSUME DesktopsInv, NEW t \in Thread, NEW x \in Workspace, Destroy(t, x)
  PROVE  DesktopsInv' /\ UNCHANGED twmVars
<1>1. PICK y \in open \ {x} :
        LET now == ActiveAfter(x, y)
            still == [marks |-> marks, minimized |-> minimized, events |-> {}]
        IN  /\ home' = [w \in Window |-> IF home[w] = x THEN y ELSE home[w]]
            /\ active' = now
            /\ IF active = x \/ (On(x) # {} /\ y = active)
               THEN Restore(On(now) \cup IF y = now THEN On(x) ELSE {}, still)
               ELSE UNCHANGED <<marks, minimized, restored, hookQueue>>
            /\ \E ws \in SetToSeqs(On(x)) :
                 out' = [out EXCEPT ![t] =
                   [i \in DOMAIN ws |-> Sent("moved", ws[i], y)]
                   \o <<Sent("destroyed", None, x)>>
                   \o IF now # active THEN <<Sent("changed", None, now)>> ELSE <<>>]
  BY DEF Destroy
<1>2. /\ x \in open /\ open' = open \ {x}
      /\ UNCHANGED <<twmVars, vdQueue, hookCall, alive, leaving, stackMarks, drawing>>
  BY DEF Destroy
<1> DEFINE now == ActiveAfter(x, y)
           still == [marks |-> marks, minimized |-> minimized, events |-> {}]
           back == On(now) \cup IF y = now THEN On(x) ELSE {}
<1>3. now \in open \ {x} /\ y \in Workspace /\ now \in Workspace /\ open' \subseteq Workspace
  BY <1>2 DEF ActiveAfter, DesktopsInv
<1>4. home' \in [Window -> Workspace \cup {None}] /\ active' \in open'
  BY <1>1, <1>2, <1>3 DEF DesktopsInv
<1>5. /\ marks' \subseteq Window /\ minimized' \subseteq alive
      /\ restored' \in [Window -> Nat] /\ hookQueue' \in Seq(HookEvents)
  <2>1. CASE active = x \/ (On(x) # {} /\ y = active)
    <3>1. Restore(back, still)
      BY <1>1, <2>1
    <3>2. back \subseteq Window
      BY DEF On
    <3>3. /\ still.marks \subseteq Window /\ still.minimized \subseteq alive
          /\ still.events \subseteq HookEvents
      BY DEF DesktopsInv
    <3> HIDE DEF back, still
    <3> QED BY <3>1, <3>2, <3>3, RestoreTyped
  <2>2. CASE ~(active = x \/ (On(x) # {} /\ y = active))
    BY <1>1, <2>2 DEF DesktopsInv
  <2> QED BY <2>1, <2>2
<1>6. out' \in [Thread -> Seq(VdEvents)]
  <2>1. PICK ws \in SetToSeqs(On(x)) :
          out' = [out EXCEPT ![t] =
            [i \in DOMAIN ws |-> Sent("moved", ws[i], y)]
            \o <<Sent("destroyed", None, x)>>
            \o IF now # active THEN <<Sent("changed", None, now)>> ELSE <<>>]
    BY <1>1
  <2> DEFINE b == now # active
             events == [i \in DOMAIN ws |-> Sent("moved", ws[i], y)]
                         \o <<Sent("destroyed", None, x)>>
                         \o (IF b THEN <<Sent("changed", None, now)>> ELSE <<>>)
  <2>2. On(x) \subseteq Window /\ b \in BOOLEAN
    BY DEF On
  <2>3. out' = [out EXCEPT ![t] = events]
    BY <2>1
  <2>4. events \in Seq(VdEvents)
    <3> HIDE DEF now, b
    <3> QED BY <1>3, <2>2, DestructionTyped
  <2> HIDE DEF events
  <2> QED BY <2>3, <2>4 DEF DesktopsInv
<1> QED BY <1>2, <1>3, <1>4, <1>5, <1>6 DEF DesktopsInv

LEMMA SwitchTyped ==
  ASSUME DesktopsInv, NEW t \in Thread, NEW x \in Workspace, Switch(t, x)
  PROVE  DesktopsInv' /\ UNCHANGED twmVars
<1>1. SwitchTo(x) /\ UNCHANGED <<out, hookCall>>
  BY DEF Switch
<1>2. /\ marks' \subseteq Window /\ minimized' \subseteq alive /\ active' \in open
      /\ restored' \in [Window -> Nat] /\ hookQueue' \in Seq(HookEvents)
      /\ vdQueue' \in Seq(VdEvents)
      /\ UNCHANGED <<twmVars, home, open, alive, leaving, stackMarks, drawing>>
  BY <1>1, SwitchToTyped
<1> QED BY <1>1, <1>2 DEF DesktopsInv

LEMMA AnnounceTyped ==
  ASSUME DesktopsInv, NEW t \in Thread, Announce(t)
  PROVE  DesktopsInv' /\ UNCHANGED twmVars
<1>1. out[t] \in Seq(VdEvents) /\ out[t] # <<>>
  BY DEF DesktopsInv, Announce
<1>2. Head(out[t]) \in VdEvents /\ Tail(out[t]) \in Seq(VdEvents)
  BY <1>1, HeadTailProperties
<1>3. vdQueue' \in Seq(VdEvents)
  BY <1>2, AppendProperties DEF DesktopsInv, Announce
<1>4. out' \in [Thread -> Seq(VdEvents)]
  BY <1>2 DEF DesktopsInv, Announce
<1> QED BY <1>3, <1>4 DEF DesktopsInv, Announce, hookVars

\* Nor does it notice what becomes of the windows.
LEMMA WindowsTyped ==
  ASSUME DesktopsInv, NEW w \in Window, WindowEvent(w) \/ Untrack(w)
  PROVE  DesktopsInv' /\ UNCHANGED twmVars
<1>1. \A kind \in {"minimized", "unminimized", "destroyed"} :
        Append(hookQueue, Hooked(kind, w)) \in Seq(HookEvents)
  <2> TAKE kind \in {"minimized", "unminimized", "destroyed"}
  <2>1. Hooked(kind, w) \in HookEvents
    BY DEF Hooked, HookEvents
  <2> QED BY <2>1, AppendProperties DEF DesktopsInv
<1>2. "apps" \in Thread
  BY DEF Thread
<1>3. CASE UserMinimize(w)
  BY <1>1, <1>3 DEF UserMinimize, DesktopsInv, vdVars
<1>4. CASE UserUnminimize(w)
  BY <1>1, <1>4 DEF UserUnminimize, DesktopsInv, vdVars
<1>5. CASE Close(w)
  BY <1>1, <1>5 DEF Close, DesktopsInv, vdVars
<1>6. CASE Track(w)
  <2>1. Sent("added", w, active) \in VdEvents /\ active \in Workspace
    BY DEF DesktopsInv, Sent, VdEvents
  <2> HIDE DEF VdEvents
  <2>2. <<Sent("added", w, active)>> \in Seq(VdEvents)
    BY <2>1
  <2>3. out' \in [Thread -> Seq(VdEvents)] /\ home' \in [Window -> Workspace \cup {None}]
    BY <1>2, <1>6, <2>1, <2>2 DEF Track, DesktopsInv
  <2> QED BY <1>6, <2>3 DEF Track, DesktopsInv
<1>7. CASE Untrack(w)
  <2>1. Sent("removed", w, None) \in VdEvents
    BY DEF DesktopsInv, Sent, VdEvents
  <2>2. <<Sent("removed", w, None)>> \in Seq(VdEvents)
    BY <2>1
  <2>3. out' \in [Thread -> Seq(VdEvents)] /\ home' \in [Window -> Workspace \cup {None}]
    BY <1>2, <1>7, <2>2 DEF Untrack, DesktopsInv
  <2> QED BY <1>7, <2>3 DEF Untrack, DesktopsInv
<1> QED BY <1>3, <1>4, <1>5, <1>6, <1>7 DEF WindowEvent

\* The hook dispatcher takes a hook event.
LEMMA TakesTyped ==
  ASSUME DesktopsInv, NEW kind, Takes(kind)
  PROVE  /\ Head(hookQueue) \in HookEvents /\ Head(hookQueue).win \in Window
         /\ hookQueue' \in Seq(HookEvents)
<1>1. hookQueue \in Seq(HookEvents) /\ hookQueue # <<>> /\ hookQueue' = Tail(hookQueue)
  BY DEF DesktopsInv, Takes
<1>2. Head(hookQueue) \in HookEvents /\ Tail(hookQueue) \in Seq(HookEvents)
  BY <1>1, HeadTailProperties
<1> QED BY <1>1, <1>2 DEF HookEvents

\* The steps of the hook dispatcher
LEMMA HookMinimizeStartTyped ==
  ASSUME DesktopsInv, HookMinimizeStart
  PROVE  DesktopsInv' /\ UNCHANGED twmVars
<1> DEFINE w == Head(hookQueue).win
<1>1. /\ Takes("minimized")
      /\ hookCall' \in {HookIdle, [pc |-> "forgetting", win |-> w, ws |-> None]}
      /\ UNCHANGED <<twmVars, vdVars, minimized, alive, leaving, stackMarks, drawing>>
  BY DEF HookMinimizeStart
<1>2. w \in Window /\ hookQueue' \in Seq(HookEvents)
  BY <1>1, TakesTyped
<1> HIDE DEF w
<1>3. hookCall' \in HookCalls
  BY <1>1, <1>2 DEF HookCalls
<1> QED BY <1>1, <1>2, <1>3 DEF DesktopsInv, vdVars

LEMMA HookMinimizeEndTyped ==
  ASSUME DesktopsInv, HookMinimizeEnd
  PROVE  DesktopsInv' /\ UNCHANGED twmVars
<1> DEFINE w == Head(hookQueue).win
<1>1. /\ Takes("unminimized")
      /\ IF restored[w] > 0
         THEN restored' = [restored EXCEPT ![w] = @ - 1] /\ hookCall' = hookCall
         ELSE /\ hookCall' = [pc |-> "switching", win |-> w, ws |-> home[w]]
              /\ restored' = restored
      /\ UNCHANGED <<twmVars, home, active, open, marks, out, vdQueue, minimized, alive,
                     leaving, stackMarks, drawing>>
  BY DEF HookMinimizeEnd
<1>2. w \in Window /\ hookQueue' \in Seq(HookEvents)
  BY <1>1, TakesTyped
<1> HIDE DEF w
<1>3. home[w] \in Workspace \cup {None} /\ restored[w] \in Nat
  BY <1>2 DEF DesktopsInv
<1>4. hookCall' \in HookCalls
  <2>1. [pc |-> "switching", win |-> w, ws |-> home[w]] \in HookCalls
    BY <1>2, <1>3 DEF HookCalls
  <2>2. hookCall \in HookCalls
    BY DEF DesktopsInv
  <2>3. hookCall' \in {hookCall, [pc |-> "switching", win |-> w, ws |-> home[w]]}
    BY <1>1
  <2> QED BY <2>1, <2>2, <2>3
<1>5. restored' \in [Window -> Nat]
  <2>1. restored \in [Window -> Nat]
    BY DEF DesktopsInv
  <2>2. CASE restored[w] > 0
    <3>1. restored[w] - 1 \in Nat
      BY <1>3, <2>2
    <3> QED BY <1>1, <2>1, <2>2, <3>1
  <2>3. CASE ~(restored[w] > 0)
    BY <1>1, <2>1, <2>3
  <2> QED BY <2>2, <2>3
<1> QED BY <1>1, <1>2, <1>4, <1>5 DEF DesktopsInv

LEMMA HookDestroyedTyped ==
  ASSUME DesktopsInv, HookDestroyed
  PROVE  DesktopsInv' /\ UNCHANGED twmVars
<1> DEFINE w == Head(hookQueue).win
<1>1. /\ Takes("destroyed")
      /\ restored' = [restored EXCEPT ![w] = 0]
      /\ marks' = marks \ {w}
      /\ leaving' = leaving \cup {w}
      /\ UNCHANGED <<twmVars, home, active, open, out, vdQueue, hookCall, minimized, alive,
                     stackMarks, drawing>>
  BY DEF HookDestroyed
<1>2. w \in Window /\ hookQueue' \in Seq(HookEvents)
  BY <1>1, TakesTyped
<1> HIDE DEF w
<1> QED BY <1>1, <1>2 DEF DesktopsInv

LEMMA HookSwitchTyped ==
  ASSUME DesktopsInv, HookSwitch
  PROVE  DesktopsInv' /\ UNCHANGED twmVars
<1>1. /\ hookCall.pc = "switching"
      /\ out' = [out EXCEPT !["hook"] = <<Sent("unminimizedByUser", hookCall.win, None)>>]
      /\ hookCall' = HookIdle
  BY DEF HookSwitch
<1>2. hookCall.win \in Window
  BY <1>1 DEF DesktopsInv, HookCalls, HookIdle
<1>3. out' \in [Thread -> Seq(VdEvents)]
  <2>1. Sent("unminimizedByUser", hookCall.win, None) \in VdEvents
    BY <1>2 DEF Sent, VdEvents
  <2>2. <<Sent("unminimizedByUser", hookCall.win, None)>> \in Seq(VdEvents)
    BY <2>1
  <2> QED BY <1>1, <2>2 DEF DesktopsInv, Thread
<1>4. hookCall' \in HookCalls
  BY <1>1 DEF HookCalls
<1>5. CASE SwitchTo(hookCall.ws)
  <2>1. /\ marks' \subseteq Window /\ minimized' \subseteq alive /\ active' \in open
        /\ restored' \in [Window -> Nat] /\ hookQueue' \in Seq(HookEvents)
        /\ vdQueue' \in Seq(VdEvents)
        /\ UNCHANGED <<twmVars, home, open, alive, leaving, stackMarks, drawing>>
    BY <1>5, SwitchToTyped
  <2> QED BY <1>3, <1>4, <2>1 DEF DesktopsInv
<1>6. CASE UNCHANGED <<twmVars, home, active, open, marks, restored, vdQueue, hookQueue,
                       minimized, alive, leaving, stackMarks, drawing>>
  BY <1>3, <1>4, <1>6 DEF DesktopsInv
<1> QED BY <1>5, <1>6 DEF HookSwitch

\* The only one of them the manager takes part in
LEMMA HookForgetTyped ==
  ASSUME DesktopsInv, HookForget
  PROVE  DesktopsInv' /\ TwmNext
<1>1. /\ hookCall.pc = "forgetting" /\ Forget(hookCall.win) /\ hookCall' = HookIdle
      /\ UNCHANGED <<vdVars, hookQueue, minimized, alive, leaving, stackMarks, drawing>>
  BY DEF HookForget
<1>2. hookCall.win \in Window
  BY <1>1 DEF DesktopsInv, HookCalls, HookIdle
<1>3. hookCall' \in HookCalls
  BY <1>1 DEF HookCalls
<1> QED BY <1>1, <1>2, <1>3 DEF DesktopsInv, vdVars, TwmNext, Events

\* What the manager is told it may be told in any order.
LEMMA EventHandled ==
  ASSUME DesktopsInv, NEW e \in VdEvents, OnEvent(e)
  PROVE  [TwmNext]_twmVars
<1>1. active \in Workspace /\ home \in [Window -> Workspace \cup {None}]
  BY DEF DesktopsInv
<1>2. CASE e.kind = "changed" /\ OnDesktopChanged
  BY <1>2 DEF TwmNext, Events
<1>3. CASE e.kind = "added" /\ OnWindowAdded(e.win, e.ws, Manageable(e.win))
  <2>1. e.win \in Window /\ e.ws \in Workspace
    BY <1>3 DEF VdEvents
  <2>2. CASE Manageable(e.win)
    <3>1. OnWindowAdded(e.win, e.ws, TRUE)
      BY <1>3, <2>2 DEF OnWindowAdded
    <3> QED BY <2>1, <3>1 DEF TwmNext, Events
  <2>3. CASE ~Manageable(e.win)
    BY <1>3, <2>3 DEF OnWindowAdded, twmVars
  <2> QED BY <2>2, <2>3
<1>4. CASE e.kind = "moved" /\ OnWindowMoved(e.win, e.ws)
  <2>1. e.win \in Window /\ e.ws \in Workspace
    BY <1>4 DEF VdEvents
  <2> QED BY <1>4, <2>1 DEF TwmNext, Events
<1>5. CASE e.kind = "destroyed" /\ OnDesktopDestroyed(e.ws)
  <2>1. e.ws \in Workspace
    BY <1>5 DEF VdEvents
  <2> QED BY <1>5, <2>1 DEF TwmNext, Events
<1>6. CASE e.kind = "removed" /\ Forget(e.win)
  <2>1. e.win \in Window
    BY <1>6 DEF VdEvents
  <2> QED BY <1>6, <2>1 DEF TwmNext, Events
<1>7. CASE e.kind = "unminimizedByUser"
           /\ OnUnminimizedByUser(e.win, home[e.win], Manageable(e.win))
  <2>1. e.win \in Window
    BY <1>7 DEF VdEvents
  <2>2. CASE IsManaged(e.win)
    <3>1. OnUnminimizedByUser(e.win, active, TRUE)
      BY <1>7, <2>2 DEF OnUnminimizedByUser
    <3> QED BY <1>1, <2>1, <3>1 DEF TwmNext, Events
  <2>3. CASE ~IsManaged(e.win) /\ Manageable(e.win) /\ home[e.win] # None
    <3>1. OnUnminimizedByUser(e.win, home[e.win], TRUE) /\ home[e.win] \in Workspace
      BY <1>1, <1>7, <2>1, <2>3 DEF OnUnminimizedByUser
    <3> QED BY <2>1, <3>1 DEF TwmNext, Events
  <2>4. CASE ~IsManaged(e.win) /\ ~(Manageable(e.win) /\ home[e.win] # None)
    BY <1>7, <2>4 DEF OnUnminimizedByUser, twmVars
  <2> QED BY <2>2, <2>3, <2>4
<1> QED BY <1>2, <1>3, <1>4, <1>5, <1>6, <1>7 DEF OnEvent

\* The steps of the manager itself
LEMMA DeliverTyped ==
  ASSUME DesktopsInv, Deliver
  PROVE  DesktopsInv' /\ [TwmNext]_twmVars
<1>1. /\ vdQueue # <<>> /\ vdQueue' = Tail(vdQueue) /\ OnEvent(Head(vdQueue))
      /\ UNCHANGED <<home, active, open, marks, restored, out, hookVars, stackMarks, drawing>>
  BY DEF Deliver
<1>2. Head(vdQueue) \in VdEvents /\ vdQueue' \in Seq(VdEvents)
  BY <1>1, HeadTailProperties DEF DesktopsInv
<1>3. [TwmNext]_twmVars
  <2> HIDE DEF VdEvents
  <2> QED BY <1>1, <1>2, EventHandled
<1>4. DesktopsInv'
  BY <1>1, <1>2 DEF DesktopsInv, hookVars
<1> QED BY <1>3, <1>4

\* A command is given for a window of a workspace there is.
LEMMA TileCommandTyped ==
  ASSUME DesktopsInv, TileCommand
  PROVE  DesktopsInv' /\ TwmNext
<1> DEFINE homes == [w \in Window |-> {home[w]} \ {None}]
           any == [w \in Window |-> Workspace]
<1>1. Commands(homes) /\ UNCHANGED <<vdVars, hookVars, stackMarks, drawing>>
  BY DEF TileCommand
<1>2. \A w \in Window : homes[w] \subseteq any[w]
  BY DEF DesktopsInv
<1>3. Commands(any)
  <2> HIDE DEF homes, any
  <2>1. CASE TreeCommand(homes)
    <3>1. TreeCommand(any)
      BY <1>2, <2>1 DEF TreeCommand
    <3> QED BY <3>1 DEF Commands
  <2>2. CASE reservation = None /\ LayoutCommand
    BY <2>2 DEF Commands
  <2> QED BY <1>1, <2>1, <2>2 DEF Commands
<1> QED BY <1>1, <1>3 DEF TwmNext, DesktopsInv, vdVars, hookVars

LEMMA BeginDrawTyped ==
  ASSUME DesktopsInv, BeginDraw
  PROVE  DesktopsInv' /\ TwmNext
<1>1. RenderTree
  BY DEF BeginDraw, RenderTree
<1>2. DesktopsInv'
  BY DEF BeginDraw, DesktopsInv, vdVars, hookVars
<1> QED BY <1>1, <1>2 DEF TwmNext

\* The windows of a tree, the ones it shows included
LEMMA TreeWindows ==
  ASSUME TwmInv, NEW x \in DOMAIN trees, NEW n \in Range(trees[x].nodes)
  PROVE  n.active \in Window \cup {None} /\ ToSet(n.windows) \subseteq Window
<1>1. IsTree(trees[x])
  BY DEF TwmInv, Forest, TreeFine
<1>2. PICK m \in DOMAIN trees[x].nodes : n = trees[x].nodes[m]
  BY DEF Range
<1>3. n \in NodeSet
  BY <1>1, <1>2, NodeParts DEF Nodes
<1>4. n.windows \in Seq(Window) /\ n.active \in Window \cup {None}
  BY <1>3 DEF NodeSet
<1>5. ToSet(n.windows) \subseteq Window
  BY <1>4, ElementOfSeq DEF ToSet
<1> QED BY <1>4, <1>5

\* restore_stacks goes through the windows of one tree.
LEMMA RestoreStacksTyped ==
  ASSUME DesktopsInv, TwmInv, RestoreStacks
  PROVE  DesktopsInv' /\ UNCHANGED twmVars
<1> DEFINE nodes == IF drawing \in DOMAIN trees
                    THEN {n \in Range(trees[drawing].nodes) : n.active # None} ELSE {}
           front == {n.active : n \in nodes}
           behind == UNION {ToSet(n.windows) : n \in nodes} \ front
           raised == front \cap minimized
           lowered == (behind \ minimized) \cap alive
           told == {Hooked("unminimized", w) : w \in raised}
                     \cup {Hooked("minimized", w) : w \in lowered}
<1>1. /\ stackMarks' = (stackMarks \ front) \cup behind
      /\ minimized' = (minimized \ raised) \cup lowered
      /\ \E events \in SetToSeqs(told) : hookQueue' = hookQueue \o events
      /\ drawing' = None
      /\ UNCHANGED <<twmVars, vdVars, hookCall, alive, leaving>>
  BY DEF RestoreStacks
<1>2. \A n \in nodes : n.active \in Window /\ ToSet(n.windows) \subseteq Window
  BY TreeWindows
<1> HIDE DEF nodes
<1>3. front \subseteq Window /\ behind \subseteq Window
  BY <1>2
<1> HIDE DEF front, behind
<1>4. told \subseteq HookEvents
  BY <1>3 DEF Hooked, HookEvents
<1> HIDE DEF told
<1>5. hookQueue' \in Seq(HookEvents)
  <2>1. PICK events \in SetToSeqs(told) : hookQueue' = hookQueue \o events
    BY <1>1
  <2>2. events \in Seq(HookEvents)
    BY <1>4, HookSequences
  <2> QED BY <2>1, <2>2, ConcatProperties DEF DesktopsInv
<1>6. stackMarks' \subseteq Window /\ minimized' \subseteq alive'
  BY <1>1, <1>3 DEF DesktopsInv
<1> QED BY <1>1, <1>5, <1>6 DEF DesktopsInv, vdVars

\* At the start nothing waits.
LEMMA DesktopsInit == Init => DesktopsInv
<1> SUFFICES ASSUME Init PROVE DesktopsInv
  OBVIOUS
<1>1. out \in [Thread -> Seq(VdEvents)] /\ vdQueue \in Seq(VdEvents)
      /\ hookQueue \in Seq(HookEvents) /\ hookCall \in HookCalls
  BY DEF Init, HookCalls
<1> QED BY <1>1 DEF Init, DesktopsInv

\* Whatever a thread does, the manager either does not notice or takes a step
\* of its own.
LEMMA DesktopsStep ==
  DesktopsInv /\ TwmInv /\ [Next]_vars => DesktopsInv' /\ [TwmNext]_twmVars
<1> SUFFICES ASSUME DesktopsInv, TwmInv, [Next]_vars
             PROVE  DesktopsInv' /\ [TwmNext]_twmVars
  OBVIOUS
<1>1. ASSUME NEW t \in Caller, DesktopCommand(t) PROVE DesktopsInv' /\ UNCHANGED twmVars
  <2>1. t \in Thread /\ On(active) \ minimized \subseteq Window
    BY DEF Thread, On
  <2>2. \/ \E x \in Workspace : Switch(t, x)
        \/ \E w \in Window, x \in Workspace : SendTo(t, w, x)
        \/ \E x \in Workspace : Destroy(t, x)
    BY <1>1, <2>1 DEF DesktopCommand
  <2> QED BY <2>1, <2>2, SwitchTyped, SendTyped, DestroyTyped
<1>2. ASSUME NEW t \in Thread, Announce(t) PROVE DesktopsInv' /\ UNCHANGED twmVars
  BY <1>2, AnnounceTyped
<1>3. ASSUME NEW w \in Window, WindowEvent(w) \/ Untrack(w)
      PROVE  DesktopsInv' /\ UNCHANGED twmVars
  BY <1>3, WindowsTyped
<1>4. CASE TileCommand
  BY <1>4, TileCommandTyped
<1>5. CASE HookStep
  BY <1>5, HookMinimizeStartTyped, HookForgetTyped, HookMinimizeEndTyped, HookSwitchTyped,
     HookDestroyedTyped DEF HookStep
<1>6. CASE TwmStep
  BY <1>6, DeliverTyped, BeginDrawTyped, RestoreStacksTyped DEF TwmStep
<1>7. CASE UNCHANGED vars
  BY <1>7 DEF vars, vdVars, hookVars, DesktopsInv
<1> QED BY <1>1, <1>2, <1>3, <1>4, <1>5, <1>6, <1>7 DEF Next

\* Both invariants hold together: what waits for the manager names windows, and
\* its trees hold none but windows.
LEMMA DesktopsHold == Spec => [](DesktopsInv /\ TwmInv)
<1>1. Init => DesktopsInv /\ TwmInv
  BY DesktopsInit, TwmInitInv DEF Init
<1>2. DesktopsInv /\ TwmInv /\ [Next]_vars => (DesktopsInv /\ TwmInv)'
  BY DesktopsStep, TwmNextStep
<1> QED BY <1>1, <1>2, PTL DEF Spec

\* Among the virtual desktops the manager does what it does when the events come
\* in any order, so that what is proved of its trees there holds here, too.
THEOREM DesktopsImplementManager == Spec => TwmSpec
<1>1. Init => TwmInit
  BY DEF Init
<1>2. DesktopsInv /\ TwmInv /\ [Next]_vars => [TwmNext]_twmVars
  BY DesktopsStep
<1> QED BY <1>1, <1>2, DesktopsHold, PTL DEF Spec, TwmSpec

\* The types of the desktops: a workspace that is there is active, only windows
\* that exist are iconic, no entry of the restored windows is taken twice.
THEOREM DesktopsTyped == Spec => []TypeOK
<1>1. DesktopsInv /\ TwmInv => TypeOK
  BY TreesAreTyped DEF DesktopsInv, TypeOK
<1> QED BY <1>1, DesktopsHold, PTL
=============================================================================
