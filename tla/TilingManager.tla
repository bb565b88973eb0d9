---------------------------- MODULE TilingManager ----------------------------
(***************************************************************************)
(* TwmState (src/background/widgets/window_manager/state_v2.rs): a tree    *)
(* for each workspace and a pending reservation, changed by the events of  *)
(* the virtual desktops (hook.rs), by commands (cli.rs) and by the         *)
(* settings. Each of these holds the WM_STATE lock from its first read to  *)
(* its last write, so it is one step.                                      *)
(*                                                                         *)
(* Here the events come in any order. TilingDesktops connects them with    *)
(* the virtual desktops that send them.                                    *)
(***************************************************************************)
EXTENDS TilingTree

CONSTANTS
  Window,
  Workspace,
  Layouts,    \* the layouts the settings may name; node sequences, see FromPlugin
  Monocle,    \* TwmPlugin::monocle
  Command,    \* the kinds of commands the instance allows
  MaxNode,    \* bound: nothing is reserved once the next node id reaches it
  MaxChanged  \* Changed events told apart while they wait

ASSUME NoneAssumption == None \notin Nat /\ None \notin Window
ASSUME WindowAssumption == IsFiniteSet(Window)
ASSUME LayoutAssumption == \A layout \in Layouts \cup {Monocle} : IsLayout(layout)
ASSUME ChangedAssumption == MaxChanged \in Nat

Sides == {"before", "after", "stack", "float"}

VARIABLES
  trees,        \* workspace -> tree, for the workspaces that have one
  monocle,      \* workspaces in monocle mode
  reservation,  \* where the next window goes, or None
  setting,      \* the layout the settings name
  layoutCache,  \* workspace -> the layout it was last built for
  changed       \* TwmStateEvent::Changed waiting for the subscriber

twmVars == <<trees, monocle, reservation, setting, layoutCache, changed>>

Reservation == [workspace : Workspace, node : Nat, side : Sides]

ManagedOn(ts, w) == {x \in DOMAIN ts : Manages(ts[x], w)}

IsManaged(w) == ManagedOn(trees, w) # {}

TiledOn(w) == {x \in DOMAIN trees : w \in DOMAIN trees[x].at}

\* A loop that does not end keeps the lock for ever.
Unlocked == \A x \in DOMAIN trees : ~trees[x].endless

Notify == changed' = Min({changed + 1, MaxChanged})

NotifyIf(condition) == IF condition THEN Notify ELSE UNCHANGED changed
-----------------------------------------------------------------------------
(* What the handlers are made of *)

\* get_or_insert_tree_mut
TreeOf(ts, x) == IF x \in DOMAIN ts THEN ts[x] ELSE FromPlugin(setting)

Updated(ts, x, t) == Inserted(ts, x, t)

Floated(ts, w, x) == Updated(ts, x, AddToFloating(TreeOf(ts, x), w))

\* apply_reservation: a node that is gone by now is no longer reserved.
Reserved(t, w, r) ==
  IF r.side = "float" THEN AddToFloating(t, w)
  ELSE IF r.node \notin DOMAIN t.nodes THEN AddToTiled(t, w)
  ELSE IF r.side = "stack" THEN PushStacked(t, w, r.node)
  ELSE SplitNode(t, r.node, r.side, w)

\* The part of add_to_layout that needs no reservation
PlacedByLayout(t, w) ==
  LET n == NodeOfCategory(t, w)
  IN  IF n # None THEN PushStacked(t, w, n) ELSE AddToTiled(t, w)

AddedTo(ts, w, x) ==
  LET t == TreeOf(ts, x)
  IN  Updated(ts, x, IF reservation # None /\ reservation.workspace = x
                     THEN Reserved(t, w, reservation)
                     ELSE PlacedByLayout(t, w))

\* add_to_layout takes the reservation, whether it uses it or not. ts is
\* the state of the trees so far in this step.
AddToLayout(ts, w, x) ==
  /\ trees' = AddedTo(ts, w, x)
  /\ reservation' = None

\* TwmState::remove: the results for the first tree that knows the window
Removals(ts, w) ==
  IF ManagedOn(ts, w) = {} THEN {ts}
  ELSE UNION {{Updated(ts, x, t) : t \in RemoveWindow(ts[x], w)} : x \in ManagedOn(ts, w)}

\* A removal whose loop does not end is the last thing its thread does.
EndsIn(ts) == \A x \in DOMAIN ts : ~ts[x].endless

Stuck(ts) == trees' = ts /\ UNCHANGED <<reservation, changed>>
-----------------------------------------------------------------------------
(* Events of the virtual desktops: process_vd_event *)

OnDesktopChanged ==
  /\ Unlocked
  /\ reservation' = None
  /\ Notify
  /\ UNCHANGED <<trees, monocle, setting, layoutCache>>

\* manageable is what should_be_managed says of the window at this moment.
OnWindowAdded(w, x, manageable) ==
  /\ Unlocked
  /\ IF ~IsManaged(w) /\ manageable
     THEN AddToLayout(trees, w, x) /\ Notify
     ELSE UNCHANGED <<trees, reservation, changed>>
  /\ UNCHANGED <<monocle, setting, layoutCache>>


OnWindowMoved(w, x) ==
  /\ Unlocked
  /\ IF IsManaged(w)
     THEN \E ts \in Removals(trees, w) :
            IF EndsIn(ts) THEN AddToLayout(ts, w, x) /\ Notify ELSE Stuck(ts)
     ELSE UNCHANGED <<trees, reservation, changed>>
  /\ UNCHANGED <<monocle, setting, layoutCache>>

OnDesktopDestroyed(x) ==
  /\ Unlocked
  /\ trees' = Restrict(trees, DOMAIN trees \ {x})
  /\ monocle' = monocle \ {x}
  /\ layoutCache' = Restrict(layoutCache, DOMAIN layoutCache \ {x})
  /\ reservation' = IF reservation # None /\ reservation.workspace = x
                    THEN None ELSE reservation
  /\ Notify
  /\ UNCHANGED setting


\* WindowRemoved, and SystemMinimizeStart of a window nobody has marked
Forget(w) ==
  /\ Unlocked
  /\ IF IsManaged(w)
     THEN \E ts \in Removals(trees, w) :
            IF EndsIn(ts) THEN trees' = ts /\ Notify /\ UNCHANGED reservation
            ELSE Stuck(ts)
     ELSE UNCHANGED <<trees, reservation, changed>>
  /\ UNCHANGED <<monocle, setting, layoutCache>>

\* A stack shows the window. The request of a tab of the stack's bar does
\* the same.
ShowInStack(w) ==
  /\ Unlocked
  /\ LET stacks == {x \in TiledOn(w) : trees[x].nodes[trees[x].at[w]].kind = "Stack"}
     IN  /\ trees' = [x \in DOMAIN trees |->
                        IF x \in stacks THEN SetActive(trees[x], w) ELSE trees[x]]
         /\ NotifyIf(stacks # {})
  /\ UNCHANGED <<monocle, reservation, setting, layoutCache>>


\* home is the workspace the window is on, or None: workspace_id() fails.
OnUnminimizedByUser(w, home, manageable) ==
  IF IsManaged(w) THEN ShowInStack(w)
  ELSE /\ Unlocked
       /\ IF manageable /\ home # None
          THEN AddToLayout(trees, w, home) /\ Notify
          ELSE UNCHANGED <<trees, reservation, changed>>
       /\ UNCHANGED <<monocle, setting, layoutCache>>
-----------------------------------------------------------------------------
(* Commands, on the foreground window *)

Reserve(w, side) ==
  /\ Unlocked
  /\ \A x \in DOMAIN trees : trees[x].next < MaxNode
  /\ \E x \in TiledOn(w) :
       reservation' = [workspace |-> x, node |-> trees[x].at[w], side |-> side]
  /\ UNCHANGED <<trees, monocle, setting, layoutCache, changed>>

\* CancelReservation, and the foreground event of another window
CancelReservation ==
  /\ Unlocked
  /\ reservation # None
  /\ reservation' = None
  /\ UNCHANGED <<trees, monocle, setting, layoutCache, changed>>

ToggleFloat(w, home) ==
  /\ Unlocked
  /\ IsManaged(w) /\ home # None
  /\ \E ts \in Removals(trees, w) :
       IF ~EndsIn(ts) THEN Stuck(ts)
       ELSE /\ IF TiledOn(w) # {}
               THEN trees' = Floated(ts, w, home) /\ UNCHANGED reservation
               ELSE AddToLayout(ts, w, home)
            /\ Notify
  /\ UNCHANGED <<monocle, setting, layoutCache>>

ToggleMonocle(x) ==
  /\ Unlocked
  /\ monocle' = SymDiff(monocle, {x})
  /\ trees' = [y \in DOMAIN trees |->
                 IF y = x THEN ChangeLayout(trees[x], IF x \in monocle THEN setting ELSE Monocle)
                 ELSE trees[y]]
  /\ Notify
  /\ UNCHANGED <<reservation, setting, layoutCache>>

\* The Move command, and a drag that swaps: the other window is the nearest
\* one on screen, any one here.
Swap(a, b) ==
  /\ Unlocked
  /\ \E x \in TiledOn(a) :
       /\ a # b /\ b \in DOMAIN trees[x].at
       /\ trees' = [trees EXCEPT ![x] = SwapNodes(@, a, b)]
  /\ Notify
  /\ UNCHANGED <<monocle, reservation, setting, layoutCache>>

Cycle(w, way) ==
  /\ Unlocked
  /\ \E x \in TiledOn(w) :
       /\ trees[x].nodes[trees[x].at[w]].kind = "Stack"
       /\ trees' = [trees EXCEPT ![x] = CycleStack(@, w, way)]
  /\ Notify
  /\ UNCHANGED <<monocle, reservation, setting, layoutCache>>

\* on_settings_changed: a workspace in monocle mode takes the new layout
\* when it leaves the mode.
ChangeSetting(layout) ==
  /\ Unlocked
  /\ layout # setting
  /\ setting' = layout
  /\ LET stale == {x \in DOMAIN trees :
                     x \notin DOMAIN layoutCache \/ layoutCache[x] # layout}
         rebuilt == stale \ monocle
     IN  /\ layoutCache' = [x \in stale \cup DOMAIN layoutCache |->
                             IF x \in stale THEN layout ELSE layoutCache[x]]
         /\ trees' = [x \in DOMAIN trees |->
                        IF x \in rebuilt THEN ChangeLayout(trees[x], layout) ELSE trees[x]]
         /\ NotifyIf(rebuilt # {})
  /\ UNCHANGED <<monocle, reservation>>

\* homes[w]: the workspaces the window may be on at this moment
TreeCommand(homes) ==
  \/ /\ "reserve" \in Command
     /\ \/ \E w \in Window, side \in Sides : Reserve(w, side)
        \/ CancelReservation
  \/ "float" \in Command /\ \E w \in Window : \E home \in homes[w] : ToggleFloat(w, home)
  \/ "swap" \in Command /\ \E a, b \in Window : Swap(a, b)
  \/ "cycle" \in Command /\ \E w \in Window, way \in {1, -1} : Cycle(w, way)
  \/ "tab" \in Command /\ \E w \in Window : ShowInStack(w)

LayoutCommand ==
  \/ "monocle" \in Command /\ \E x \in Workspace : ToggleMonocle(x)
  \/ "settings" \in Command /\ \E layout \in Layouts : ChangeSetting(layout)

\* Bound: no layout changes while a node is reserved, for the new layout uses
\* the ids of the old one.
Commands(homes) ==
  \/ TreeCommand(homes)
  \/ reservation = None /\ LayoutCommand
-----------------------------------------------------------------------------
(* The manager among events in any order *)

\* The subscriber that emits the tree to the webviews
RenderTree ==
  /\ Unlocked
  /\ changed > 0
  /\ changed' = changed - 1
  /\ UNCHANGED <<trees, monocle, reservation, setting, layoutCache>>

TwmInit ==
  /\ setting \in Layouts
  /\ trees = [x \in Workspace |-> FromPlugin(setting)]
  /\ layoutCache = [x \in Workspace |-> setting]
  /\ monocle = {} /\ reservation = None /\ changed = 0

Events ==
  \/ OnDesktopChanged
  \/ \E w \in Window, x \in Workspace :
       \/ OnWindowAdded(w, x, TRUE)
       \/ OnWindowMoved(w, x)
       \/ OnUnminimizedByUser(w, x, TRUE)
  \/ \E w \in Window : Forget(w)
  \/ \E x \in Workspace : OnDesktopDestroyed(x)

\* A floating window goes back to any workspace: its home may have changed.
TwmNext ==
  \/ Events
  \/ Commands([w \in Window |-> Workspace])
  \/ RenderTree

TwmSpec == TwmInit /\ [][TwmNext]_twmVars
=============================================================================
