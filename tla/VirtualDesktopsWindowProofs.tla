-------------------- MODULE VirtualDesktopsWindowProofs ---------------------
(*************************************************************************)
(* Where the windows are: one home for each, in the index and in the     *)
(* lists; indexed workspaces. Then what the steps may do: VdManager      *)
(* implements WindowAssignment (seen through the workspaces that are open,*)
(* those that were closed, the home of each window and the pinned ones,  *)
(* each step of a thread is one abstract step or none), no step drops a  *)
(* window or changes its monitor unasked, and no window is left behind   *)
(* that is gone.                                                         *)
(*                                                                       *)
(* Then hiding and bringing back. What VdManager minimized it has marked,*)
(* and a window of a hidden workspace is minimized or about to be dealt  *)
(* with. The second rests on counting: the unminimize events of a window *)
(* that wait for the hook dispatcher are never fewer than the entries of *)
(* RESTORED_EVENT_QUEUE, and while there are more one of them will be    *)
(* taken for the user's. From then on the call of the dispatcher holds the*)
(* workspace of the window, or one that was closed, until it has shown it,*)
(* moved the window, or given up.                                        *)
(*************************************************************************)
EXTENDS VirtualDesktopsTypeProofs

-----------------------------------------------------------------------------
(* One home *)

\* The index of disjoint lists is the only map that sends each window of a list to
\* the workspace of that list.
LEMMA IndexUnique ==
  ASSUME NEW lists \in [WorkspaceId -> SUBSET Window],
         \A x, y \in WorkspaceId : x # y => lists[x] \cap lists[y] = {},
         NEW f, f = [w \in DOMAIN f |-> f[w]],
         DOMAIN f = UNION {lists[x] : x \in WorkspaceId},
         \A w \in DOMAIN f : f[w] \in WorkspaceId /\ w \in lists[f[w]]
  PROVE  f = WindowsOf(lists)
<1> DEFINE g == WindowsOf(lists)
<1>1. /\ IsMap(g, Window, WorkspaceId) /\ DOMAIN g = DOMAIN f
      /\ \A w \in DOMAIN g : w \in lists[g[w]]
  BY WindowsOfTyped
<1> HIDE DEF g
<1>2. \A w \in DOMAIN f : f[w] = g[w]
  BY <1>1 DEF IsMap
<1>3. g = [w \in DOMAIN f |-> g[w]]
  BY <1>1 DEF IsMap
<1>4. f = g
  BY <1>2, <1>3
<1> QED BY <1>4 DEF g

\* What the index says under OneHome.
LEMMA HomeOf ==
  ASSUME TypeOK, OneHome
  PROVE  /\ DOMAIN windowIndex = UNION {windows[x] : x \in WorkspaceId}
         /\ \A w \in DOMAIN windowIndex :
              windowIndex[w] \in WorkspaceId /\ w \in windows[windowIndex[w]]
         /\ \A x \in WorkspaceId : \A w \in windows[x] :
              w \in DOMAIN windowIndex /\ windowIndex[w] = x
<1>1. /\ windows \in [WorkspaceId -> SUBSET Window] /\ windowIndex = WindowsOf(windows)
      /\ \A x, y \in WorkspaceId : x # y => windows[x] \cap windows[y] = {}
  BY DEF TypeOK, OneHome
<1>2. /\ IsMap(windowIndex, Window, WorkspaceId)
      /\ DOMAIN windowIndex = UNION {windows[x] : x \in WorkspaceId}
      /\ \A w \in DOMAIN windowIndex : w \in windows[windowIndex[w]]
  BY <1>1, WindowsOfTyped
<1>3. \A w \in DOMAIN windowIndex : windowIndex[w] \in WorkspaceId
  BY <1>2 DEF IsMap
<1>4. \A x \in WorkspaceId : \A w \in windows[x] :
        w \in DOMAIN windowIndex /\ windowIndex[w] = x
  BY <1>1, <1>2, <1>3
<1> QED BY <1>2, <1>3, <1>4

\* The grids may grow under the lists.
LEMMA HomesKept ==
  ASSUME TypeOK, OneHome, windows' = windows, windowIndex' = windowIndex, pinned' = pinned,
         AllCells(grid) \subseteq AllCells(grid')
  PROVE  OneHome'
BY DEF OneHome

\* A window that was nowhere is put on a workspace that exists.
LEMMA Pushed ==
  ASSUME TypeOK, OneHome, NEW w \in Window, NEW m, NEW x \in WorkspaceId,
         w \notin pinned, w \notin DOMAIN windowIndex, Push(w, m, x),
         AllCells(grid) \subseteq AllCells(grid'), x \in AllCells(grid')
  PROVE  OneHome'
<1>1. /\ windows' = [windows EXCEPT ![x] = @ \cup {w}] /\ pinned' = pinned
      /\ windowIndex' = With(windowIndex, w, x)
  BY DEF Push
<1>2. /\ windows \in [WorkspaceId -> SUBSET Window]
      /\ \A y \in WorkspaceId : w \notin windows[y]
      /\ \A y, z \in WorkspaceId : y # z => windows[y] \cap windows[z] = {}
      /\ \A y \in WorkspaceId : windows[y] # {} => y \in AllCells(grid)
      /\ \A y \in WorkspaceId : windows[y] \cap pinned = {}
  BY HomeOf DEF TypeOK, OneHome
<1>3. /\ windows' \in [WorkspaceId -> SUBSET Window]
      /\ \A y \in WorkspaceId :
           windows'[y] = IF y = x THEN windows[y] \cup {w} ELSE windows[y]
  BY <1>1, <1>2
<1>4. /\ \A y, z \in WorkspaceId : y # z => windows'[y] \cap windows'[z] = {}
      /\ \A y \in WorkspaceId : windows'[y] # {} => y \in AllCells(grid')
      /\ \A y \in WorkspaceId : windows'[y] \cap pinned' = {}
  BY <1>1, <1>2, <1>3
<1>5. windowIndex' = WindowsOf(windows')
  <2> DEFINE f == windowIndex'
  <2>1. /\ DOMAIN f = DOMAIN windowIndex \cup {w} /\ f[w] = x
        /\ \A v \in DOMAIN windowIndex : v # w /\ f[v] = windowIndex[v]
        /\ f = [v \in DOMAIN f |-> f[v]]
    BY <1>1 DEF With
  <2>2. DOMAIN f = UNION {windows'[y] : y \in WorkspaceId}
    <3>1. DOMAIN windowIndex = UNION {windows[y] : y \in WorkspaceId}
      BY HomeOf
    <3> QED BY <1>3, <2>1, <3>1
  <2>3. \A v \in DOMAIN f : f[v] \in WorkspaceId /\ v \in windows'[f[v]]
    BY <1>3, <2>1, HomeOf
  <2> HIDE DEF f
  <2>4. f = WindowsOf(windows')
    BY <1>3, <1>4, <2>1, <2>2, <2>3, IndexUnique
  <2> QED BY <2>4 DEF f
<1> QED BY <1>4, <1>5 DEF OneHome

\* remove() takes a window out of the index, the pinned ones and the lists.
LEMMA Untracked ==
  ASSUME TypeOK, OneHome, NEW w, Untrack(w), grid' = grid
  PROVE  OneHome'
<1>1. /\ windows' = [x \in WorkspaceId |-> windows[x] \ {w}] /\ pinned' = pinned \ {w}
      /\ windowIndex' = [v \in DOMAIN windowIndex \ {w} |-> windowIndex[v]]
  BY DEF Untrack, Restrict
<1>2. /\ windows' \in [WorkspaceId -> SUBSET Window]
      /\ \A y \in WorkspaceId : windows'[y] = windows[y] \ {w}
  BY <1>1 DEF TypeOK
<1>3. /\ \A y, z \in WorkspaceId : y # z => windows'[y] \cap windows'[z] = {}
      /\ \A y \in WorkspaceId : windows'[y] # {} => y \in AllCells(grid')
      /\ \A y \in WorkspaceId : windows'[y] \cap pinned' = {}
  BY <1>1, <1>2 DEF OneHome
<1>4. windowIndex' = WindowsOf(windows')
  <2> DEFINE f == windowIndex'
  <2>1. /\ DOMAIN f = DOMAIN windowIndex \ {w}
        /\ \A v \in DOMAIN f : f[v] = windowIndex[v]
        /\ f = [v \in DOMAIN f |-> f[v]]
    BY <1>1
  <2>2. DOMAIN f = UNION {windows'[y] : y \in WorkspaceId}
    <3>1. DOMAIN windowIndex = UNION {windows[y] : y \in WorkspaceId}
      BY HomeOf
    <3> QED BY <1>2, <2>1, <3>1
  <2>3. \A v \in DOMAIN f : f[v] \in WorkspaceId /\ v \in windows'[f[v]]
    BY <1>2, <2>1, HomeOf
  <2> HIDE DEF f
  <2>4. f = WindowsOf(windows')
    BY <1>2, <1>3, <2>1, <2>2, <2>3, IndexUnique
  <2> QED BY <2>4 DEF f
<1> QED BY <1>3, <1>4 DEF OneHome

\* send_to moves a window from its workspace to another one.
LEMMA Moved ==
  ASSUME TypeOK, OneHome, NEW w \in DOMAIN windowIndex, NEW x \in WorkspaceId,
         x \in AllCells(grid), windows' = MovedTo(w, x),
         windowIndex' = With(windowIndex, w, x), pinned' = pinned, grid' = grid
  PROVE  OneHome'
<1>1. /\ windows \in [WorkspaceId -> SUBSET Window] /\ w \in Window
      /\ w \notin pinned
      /\ \A y, z \in WorkspaceId : y # z => windows[y] \cap windows[z] = {}
      /\ \A y \in WorkspaceId : windows[y] # {} => y \in AllCells(grid)
      /\ \A y \in WorkspaceId : windows[y] \cap pinned = {}
  BY HomeOf DEF TypeOK, OneHome, IsMap
<1>2. /\ windows' \in [WorkspaceId -> SUBSET Window]
      /\ \A y \in WorkspaceId :
           windows'[y] = IF y = x THEN windows[y] \cup {w} ELSE windows[y] \ {w}
  BY <1>1 DEF MovedTo
<1>3. /\ \A y, z \in WorkspaceId : y # z => windows'[y] \cap windows'[z] = {}
      /\ \A y \in WorkspaceId : windows'[y] # {} => y \in AllCells(grid')
      /\ \A y \in WorkspaceId : windows'[y] \cap pinned' = {}
  BY <1>1, <1>2
<1>4. windowIndex' = WindowsOf(windows')
  <2> DEFINE f == windowIndex'
  <2>1. /\ DOMAIN f = DOMAIN windowIndex /\ f[w] = x
        /\ \A v \in DOMAIN f : v # w => f[v] = windowIndex[v]
        /\ f = [v \in DOMAIN f |-> f[v]]
    BY DEF With
  <2>2. DOMAIN f = UNION {windows'[y] : y \in WorkspaceId}
    <3>1. DOMAIN windowIndex = UNION {windows[y] : y \in WorkspaceId}
      BY HomeOf
    <3> QED BY <1>2, <2>1, <3>1
  <2>3. \A v \in DOMAIN f : f[v] \in WorkspaceId /\ v \in windows'[f[v]]
    BY <1>2, <2>1, HomeOf
  <2> HIDE DEF f
  <2>4. f = WindowsOf(windows')
    BY <1>2, <1>3, <2>1, <2>2, <2>3, IndexUnique
  <2> QED BY <2>4 DEF f
<1> QED BY <1>3, <1>4 DEF OneHome

\* A destroyed workspace leaves its windows to its heir, and no window is lost.
LEMMA InheritedHomes ==
  ASSUME TypeOK, OneHome, NEW heirs, DOMAIN heirs \subseteq WorkspaceId,
         \A x \in DOMAIN heirs : heirs[x] \in WorkspaceId \ DOMAIN heirs
  PROVE  LET new == Inherited(heirs)
         IN  /\ new \in [WorkspaceId -> SUBSET Window]
             /\ \A x, y \in WorkspaceId : x # y => new[x] \cap new[y] = {}
             /\ UNION {new[x] : x \in WorkspaceId} = UNION {windows[x] : x \in WorkspaceId}
             /\ \A x \in WorkspaceId : \A w \in new[x] :
                  /\ x \notin DOMAIN heirs
                  /\ \/ w \in windows[x]
                     \/ \E z \in DOMAIN heirs : heirs[z] = x /\ w \in windows[z]
<1> DEFINE new == Inherited(heirs)
<1>1. /\ windows \in [WorkspaceId -> SUBSET Window]
      /\ \A x, y \in WorkspaceId : x # y => windows[x] \cap windows[y] = {}
  BY DEF TypeOK, OneHome
<1>2. new = [x \in WorkspaceId |->
               IF x \in DOMAIN heirs THEN {}
               ELSE windows[x] \cup
                      UNION {windows[y] : y \in {z \in DOMAIN heirs : heirs[z] = x}}]
  BY DEF Inherited
<1> HIDE DEF new
<1>3. ASSUME NEW x \in WorkspaceId, NEW w
      PROVE  w \in new[x] <=>
               /\ x \notin DOMAIN heirs
               /\ \/ w \in windows[x]
                  \/ \E z \in DOMAIN heirs : heirs[z] = x /\ w \in windows[z]
  BY <1>2
<1>4. new \in [WorkspaceId -> SUBSET Window]
  <2>1. \A x \in WorkspaceId : new[x] \subseteq Window
    BY <1>1, <1>3
  <2> QED BY <1>2, <2>1
<1>5. ASSUME NEW x \in WorkspaceId, NEW y \in WorkspaceId, x # y,
             NEW w \in new[x], w \in new[y]
      PROVE  FALSE
  <2>1. PICK u \in WorkspaceId : w \in windows[u] /\ (u = x \/ (u \in DOMAIN heirs /\ heirs[u] = x))
    BY <1>3
  <2>2. PICK v \in WorkspaceId : w \in windows[v] /\ (v = y \/ (v \in DOMAIN heirs /\ heirs[v] = y))
    BY <1>3, <1>5
  <2>3. u = v
    BY <1>1, <2>1, <2>2
  <2>4. x \notin DOMAIN heirs /\ y \notin DOMAIN heirs
    BY <1>3, <1>5
  <2> QED BY <1>5, <2>1, <2>2, <2>3, <2>4
<1>6. ASSUME NEW x \in WorkspaceId, NEW w \in windows[x]
      PROVE  \E y \in WorkspaceId : w \in new[y]
  <2>1. CASE x \in DOMAIN heirs
    BY <1>3, <2>1
  <2>2. CASE x \notin DOMAIN heirs
    BY <1>3, <2>2
  <2> QED BY <2>1, <2>2
<1>7. ASSUME NEW x \in WorkspaceId, NEW w \in new[x]
      PROVE  \E y \in WorkspaceId : w \in windows[y]
  BY <1>3
<1>8. UNION {new[x] : x \in WorkspaceId} = UNION {windows[x] : x \in WorkspaceId}
  BY <1>6, <1>7
<1> QED BY <1>3, <1>4, <1>5, <1>8 DEF new

\* What destroy_desktop does to the lists, the indexes and the grids.
LEMMA DestroySteps ==
  ASSUME TypeOK, GridInv, OneHome, NEW t \in Thread, DestroyLocked(t)
  PROVE  \/ UNCHANGED <<gridVars, assignVars>>
         \/ /\ ReplaceIndexes(grid', windows') /\ pinned' = pinned
            /\ windows' \in [WorkspaceId -> SUBSET Window]
            /\ \A x, y \in WorkspaceId : x # y => windows'[x] \cap windows'[y] = {}
            /\ UNION {windows'[x] : x \in WorkspaceId} = UNION {windows[x] : x \in WorkspaceId}
            /\ \A x \in WorkspaceId : windows'[x] # {} => x \in AllCells(grid')
            /\ AllCells(grid') \subseteq AllCells(grid)
<1> DEFINE x     == call[t].ws
           m     == call[t].mon
           heirs == Heirs(grid[m], x)
           g     == Sanitize(Remaining(grid[m], x), Unused)
<1>1. \/ UNCHANGED <<gridVars, assignVars>>
      \/ /\ m \in DOMAIN grid /\ Removable(grid[m], x)
         /\ grid' = [grid EXCEPT ![m] = g]
         /\ windows' = Inherited(heirs)
         /\ ReplaceIndexes(grid', windows') /\ pinned' = pinned
  BY DEF DestroyLocked
<1>2. CASE /\ m \in DOMAIN grid /\ Removable(grid[m], x)
           /\ grid' = [grid EXCEPT ![m] = g]
           /\ windows' = Inherited(heirs)
           /\ ReplaceIndexes(grid', windows') /\ pinned' = pinned
  <2>1. /\ Cells(g) = Cells(grid[m]) \ DOMAIN heirs
        /\ DOMAIN heirs \subseteq Cells(grid[m])
        /\ heirs \in [DOMAIN heirs -> Cells(g)]
    BY <1>2, RemainingGrid
  <2>2. Cells(grid[m]) \subseteq WorkspaceId
    BY <1>2, CellsUsed DEF AllCells, GridInv
  <2> HIDE DEF x, m, heirs, g
  <2>3. /\ DOMAIN heirs \subseteq WorkspaceId
        /\ \A z \in DOMAIN heirs : heirs[z] \in WorkspaceId \ DOMAIN heirs
    BY <2>1, <2>2
  <2>4. /\ windows' \in [WorkspaceId -> SUBSET Window]
        /\ \A y, z \in WorkspaceId : y # z => windows'[y] \cap windows'[z] = {}
        /\ UNION {windows'[y] : y \in WorkspaceId} = UNION {windows[y] : y \in WorkspaceId}
        /\ \A y \in WorkspaceId : \A w \in windows'[y] :
             /\ y \notin DOMAIN heirs
             /\ \/ w \in windows[y]
                \/ \E z \in DOMAIN heirs : heirs[z] = y /\ w \in windows[z]
    BY <1>2, <2>3, InheritedHomes
  <2>5. /\ DOMAIN grid' = DOMAIN grid /\ grid'[m] = g
        /\ \A k \in DOMAIN grid : k # m => grid'[k] = grid[k]
    BY <1>2
  <2>6. /\ AllCells(grid') \subseteq AllCells(grid)
        /\ AllCells(grid) \ DOMAIN heirs \subseteq AllCells(grid')
    BY <1>2, <2>1, <2>5 DEF AllCells
  <2>7. ASSUME NEW y \in WorkspaceId, windows'[y] # {} PROVE y \in AllCells(grid')
    <3>1. PICK w : w \in windows'[y]
      BY <2>7
    <3>2. CASE w \in windows[y]
      BY <2>4, <2>6, <3>1, <3>2 DEF OneHome
    <3>3. CASE \E z \in DOMAIN heirs : heirs[z] = y
      <4>1. y \in Cells(g)
        BY <2>1, <3>3
      <4> QED BY <1>2, <2>5, <4>1 DEF AllCells
    <3> QED BY <2>4, <3>1, <3>2, <3>3
  <2> QED BY <1>2, <2>4, <2>6, <2>7
<1> QED BY <1>1, <1>2

-----------------------------------------------------------------------------
(* Which steps change the lists and the index of the windows *)

HomeVars == <<grid, usedIds, assignVars>>

\* Only additions, removals, sends and destructions do.
LEMMA HomeSteps ==
  ASSUME [Next]_vars
  PROVE  \/ UNCHANGED HomeVars
         \/ \E t \in Thread : AddLocked(t) \/ SendLocked(t) \/ DestroyLocked(t)
         \/ AppsRemoved
         \/ /\ \/ \E t \in Caller, m \in Monitor, asRow \in BOOLEAN : CreateDesktop(t, m, asRow)
               \/ \E m \in Monitor : ViewAdded(m)
            /\ UNCHANGED <<windows, windowIndex, pinned>>
<1>1. CASE UNCHANGED vars
  BY <1>1 DEF vars, managerVars, gridVars, assignVars, HomeVars
<1>2. CASE Next
  <2>1. ASSUME NEW t \in Caller, NEW x \in WorkspaceId, BeginSwitch(t, x) \/ BeginDestroy(t, x)
        PROVE  UNCHANGED HomeVars
    BY <2>1 DEF BeginSwitch, BeginDestroy, managerVars, gridVars, assignVars, HomeVars
  <2>2. ASSUME NEW t \in Caller, NEW w \in Window, NEW x \in WorkspaceId, BeginSendTo(t, w, x)
        PROVE  UNCHANGED HomeVars
    BY <2>2 DEF BeginSendTo, managerVars, gridVars, assignVars, HomeVars
  <2>3. ASSUME NEW t \in Thread, SwitchLocked(t) \/ SwitchSettled(t) \/ Announce(t)
        PROVE  UNCHANGED HomeVars
    BY <2>3 DEF SwitchLocked, SwitchSettled, Announce, managerVars, gridVars, assignVars, HomeVars
  <2>4. CASE AppsAdded
    BY <2>4 DEF AppsAdded, managerVars, gridVars, assignVars, HomeVars
  <2>5. CASE HookMinimizeEnd \/ ResolveUnminimized \/ HookRectChange \/ HookShow \/ HookGone
    BY <2>5 DEF HookMinimizeEnd, ResolveUnminimized, HookRectChange, HookShow, HookGone,
                managerVars, gridVars, assignVars, HomeVars
  <2>6. CASE BootSubscribe
    BY <2>6 DEF BootSubscribe, managerVars, gridVars, assignVars, HomeVars
  <2>7. ASSUME NEW m \in Monitor, NEW n \in Monitor, Connect(m) \/ Disconnect(m, n)
        PROVE  UNCHANGED HomeVars
    BY <2>7 DEF Connect, Disconnect, EnvUnchanged, managerVars, gridVars, assignVars, HomeVars
  <2>8. ASSUME NEW w \in Window, BootScan(w) \/ RevalidateDrop(w) \/ RevalidateAdd(w)
        PROVE  UNCHANGED HomeVars
    BY <2>8 DEF BootScan, RevalidateDrop, RevalidateAdd, managerVars, gridVars, assignVars,
                HomeVars
  <2>9. ASSUME NEW w \in Window,
               \/ UserMinimize(w) \/ UserUnminimize(w) \/ RectSettled(w)
               \/ WinShow(w) \/ WinHide(w) \/ WinClose(w)
        PROVE  UNCHANGED HomeVars
    BY <2>9 DEF UserMinimize, UserUnminimize, RectSettled, WinShow, WinHide, WinClose,
                EnvUnchanged, managerVars, gridVars, assignVars, HomeVars
  <2>10. ASSUME NEW w \in Window, NEW m \in Monitor, MoveWindow(w, m) PROVE UNCHANGED HomeVars
    BY <2>10 DEF MoveWindow, EnvUnchanged, managerVars, gridVars, assignVars, HomeVars
  <2>11. ASSUME NEW t \in Caller, NEW m \in Monitor, NEW asRow \in BOOLEAN,
                CreateDesktop(t, m, asRow)
         PROVE  UNCHANGED <<windows, windowIndex, pinned>>
    BY <2>11 DEF CreateDesktop
  <2>12. ASSUME NEW m \in Monitor, ViewAdded(m) PROVE UNCHANGED <<windows, windowIndex, pinned>>
    BY <2>12 DEF ViewAdded, assignVars
  <2> QED BY <1>2, <2>1, <2>2, <2>3, <2>4, <2>5, <2>6, <2>7, <2>8, <2>9, <2>10, <2>11, <2>12,
             StepCases
<1> QED BY <1>1, <1>2

\* What add_to_current_workspace does to them.
LEMMA AddSteps ==
  ASSUME TypeOK, GridInv, OneHome, NEW t \in Thread, AddLocked(t)
  PROVE  LET w == call[t].win
         IN  \/ UNCHANGED <<gridVars, assignVars>>
             \/ /\ w \in interactable \ (pinned \cup DOMAIN windowIndex)
                /\ pinned' = pinned \cup {w}
                /\ UNCHANGED <<gridVars, windows, workspaceIndex, windowIndex>>
             \/ \E x \in WorkspaceId, m \in DOMAIN grid' :
                  /\ w \in interactable \ (pinned \cup DOMAIN windowIndex)
                  /\ Push(w, m, x)
                  /\ x \in Cells(grid'[m]) /\ x \in AllCells(grid')
                  /\ AllCells(grid) \subseteq AllCells(grid')
                  /\ AllCells(grid') \subseteq AllCells(grid) \cup {x}
                  /\ \A k \in DOMAIN grid : k \in DOMAIN grid' /\ grid'[k] = grid[k]
<1> DEFINE w == call[t].win
           m == call[t].mon
<1>1. interactable \subseteq Window
  BY DEF TypeOK
<1>2. CASE UNCHANGED <<gridVars, assignVars>>
  BY <1>2
<1>3. CASE /\ ~Rejected(w) /\ pinned' = pinned \cup {w}
           /\ UNCHANGED <<gridVars, windows, workspaceIndex, windowIndex>>
  BY <1>3 DEF Rejected
<1>4. CASE ~Rejected(w) /\ m \in DOMAIN grid /\ Push(w, m, active[m]) /\ UNCHANGED gridVars
  <2>1. active[m] \in Cells(grid[m]) /\ active[m] \in WorkspaceId /\ grid' = grid
    BY <1>4 DEF GridInv, GridsWellFormed, gridVars
  <2>2. active[m] \in AllCells(grid)
    BY <1>4, <2>1 DEF AllCells
  <2> QED BY <1>4, <2>1, <2>2 DEF Rejected
<1>5. CASE /\ ~Rejected(w) /\ m # None /\ m \notin DOMAIN grid
           /\ \E x \in Unused : grid' = With(grid, m, << <<x>> >>) /\ Push(w, m, x)
  <2>1. PICK x \in WorkspaceId : grid' = With(grid, m, << <<x>> >>) /\ Push(w, m, x)
    BY <1>5 DEF Unused
  <2>2. Cells(<< <<x>> >>) = {x}
    BY NewGrid
  <2> DEFINE one == << <<x>> >>
  <2> HIDE DEF one
  <2>3. /\ DOMAIN grid' = DOMAIN grid \cup {m} /\ grid'[m] = one /\ Cells(one) = {x}
        /\ \A k \in DOMAIN grid : k # m /\ grid'[k] = grid[k]
    BY <1>5, <2>1, <2>2 DEF With, one
  <2>4. /\ AllCells(grid) \subseteq AllCells(grid') /\ x \in AllCells(grid')
        /\ AllCells(grid') \subseteq AllCells(grid) \cup {x}
    BY <2>3 DEF AllCells
  <2> QED BY <1>5, <2>1, <2>3, <2>4 DEF Rejected
<1> QED BY <1>2, <1>3, <1>4, <1>5 DEF AddLocked

\* What create_desktop and ViewAdded do to the grids: more cells, none fewer.
LEMMA GrowthSteps ==
  ASSUME TypeOK, GridInv, GridInv',
         \/ \E t \in Caller, m \in Monitor, asRow \in BOOLEAN : CreateDesktop(t, m, asRow)
         \/ \E m \in Monitor : ViewAdded(m)
  PROVE  /\ AllCells(grid) \subseteq AllCells(grid')
         /\ \A k \in DOMAIN grid : k \in DOMAIN grid' /\ Cells(grid[k]) \subseteq Cells(grid'[k])
<1>1. ASSUME NEW t \in Caller, NEW m \in Monitor, NEW asRow \in BOOLEAN,
             CreateDesktop(t, m, asRow)
      PROVE  \A k \in DOMAIN grid : k \in DOMAIN grid' /\ Cells(grid[k]) \subseteq Cells(grid'[k])
  <2> DEFINE n == IF asRow THEN ColumnCount(grid[m]) ELSE RowCount(grid[m])
  <2>1. PICK new \in Injection(1..n, Unused) :
          /\ m \in DOMAIN grid
          /\ grid' = [grid EXCEPT ![m] =
                        IF asRow THEN AddRow(grid[m], new) ELSE AddColumn(grid[m], new)]
    BY <1>1 DEF CreateDesktop
  <2>2. IsGrid(grid[m], usedIds) /\ usedIds \subseteq WorkspaceId
    BY <2>1 DEF GridInv, GridsWellFormed
  <2>3. IsGrid(grid[m], WorkspaceId) /\ Unused \in SUBSET WorkspaceId
        /\ Unused \cap Cells(grid[m]) = {}
    BY <2>1, <2>2, CellsTyped, GridRetyped DEF Unused
  <2>4. CASE asRow
    <3>1. new \in Injection(1..ColumnCount(grid[m]), Unused)
      BY <2>4
    <3>2. Cells(AddRow(grid[m], new)) = Cells(grid[m]) \cup Range(new)
      BY ONLY <2>3, <3>1, RowAdded
    <3> QED BY <2>1, <2>4, <3>2
  <2>5. CASE ~asRow
    <3>1. new \in Injection(1..RowCount(grid[m]), Unused)
      BY <2>5
    <3>2. Cells(AddColumn(grid[m], new)) = Cells(grid[m]) \cup Range(new)
      BY ONLY <2>3, <3>1, ColumnAdded
    <3> QED BY <2>1, <2>5, <3>2
  <2> QED BY <2>4, <2>5
<1>2. ASSUME NEW m \in Monitor, ViewAdded(m)
      PROVE  \A k \in DOMAIN grid : k \in DOMAIN grid' /\ Cells(grid[k]) \subseteq Cells(grid'[k])
  <2>1. \/ grid' = grid
        \/ \E x \in Unused : m \notin DOMAIN grid /\ grid' = With(grid, m, << <<x>> >>)
    BY <1>2 DEF ViewAdded, gridVars
  <2> QED BY <2>1 DEF With
<1>3. \A k \in DOMAIN grid : k \in DOMAIN grid' /\ Cells(grid[k]) \subseteq Cells(grid'[k])
  BY <1>1, <1>2
<1> QED BY <1>3 DEF AllCells

-----------------------------------------------------------------------------
(* OneHome *)

LEMMA HomesInitially ==
  ASSUME Init
  PROVE  OneHome
<1>1. PICK s \in Stored :
        /\ \E new \in Injection(connected \ DOMAIN s.grid, WorkspaceId \ AllCells(s.grid)) :
             grid = [m \in DOMAIN s.grid \cup (connected \ DOMAIN s.grid) |->
                       IF m \in connected \ DOMAIN s.grid THEN << <<new[m]>> >> ELSE s.grid[m]]
        /\ windows = [x \in WorkspaceId |-> (s.windows[x] \ s.pinned) \cap shown]
        /\ pinned = s.pinned \cap shown
        /\ windowIndex = WindowsOf(windows)
  BY DEF Init
<1>2. /\ \A x, y \in WorkspaceId : x # y => s.windows[x] \cap s.windows[y] = {}
      /\ \A x \in WorkspaceId :
           s.windows[x] # {} => \E m \in DOMAIN s.grid : x \in Cells(s.grid[m])
  <2>1. IsSaved(s)
    BY StoredAssumption
  <2> QED BY <2>1, Zenon DEF IsSaved
<1>3. \A m \in DOMAIN s.grid : m \in DOMAIN grid /\ grid[m] = s.grid[m]
  BY <1>1
<1>4. ASSUME NEW x \in WorkspaceId, windows[x] # {} PROVE x \in AllCells(grid)
  <2>1. s.windows[x] # {}
    BY <1>1, <1>4
  <2> QED BY <1>2, <1>3, <2>1 DEF AllCells
<1> QED BY <1>1, <1>2, <1>4 DEF OneHome

LEMMA HomesPreserved ==
  ASSUME TypeOK, GridInv, GridInv', OneHome, [Next]_vars
  PROVE  OneHome'
<1>1. CASE UNCHANGED HomeVars
  BY <1>1, HomesKept DEF HomeVars, assignVars
<1>2. ASSUME NEW t \in Thread, AddLocked(t) PROVE OneHome'
  <2> DEFINE w == call[t].win
  <2>1. CASE UNCHANGED <<gridVars, assignVars>>
    BY <2>1, HomesKept DEF gridVars, assignVars
  <2>2. CASE /\ w \in interactable \ (pinned \cup DOMAIN windowIndex)
             /\ pinned' = pinned \cup {w}
             /\ UNCHANGED <<gridVars, windows, workspaceIndex, windowIndex>>
    <3>1. \A x \in WorkspaceId : w \notin windows[x]
      BY <2>2, HomeOf
    <3> QED BY <2>2, <3>1 DEF OneHome, gridVars
  <2>3. CASE \E x \in WorkspaceId, m \in DOMAIN grid' :
               /\ w \in interactable \ (pinned \cup DOMAIN windowIndex)
               /\ Push(w, m, x) /\ x \in AllCells(grid')
               /\ AllCells(grid) \subseteq AllCells(grid')
    <3>1. interactable \subseteq Window
      BY DEF TypeOK
    <3> QED BY <2>3, <3>1, Pushed
  <2> QED BY <1>2, <2>1, <2>2, <2>3, AddSteps
<1>3. ASSUME NEW t \in Thread, SendLocked(t) PROVE OneHome'
  <2> DEFINE w == call[t].win
             x == call[t].ws
             m == call[t].mon
  <2>1. /\ grid' = grid /\ pinned' = pinned
        /\ \/ windows' = windows /\ windowIndex' = windowIndex
           \/ CanSend(w, m, x) /\ windows' = MovedTo(w, x) /\ windowIndex' = With(windowIndex, w, x)
    BY <1>3 DEF SendLocked, gridVars
  <2> HIDE DEF w, x, m
  <2>2. CASE windows' = windows /\ windowIndex' = windowIndex
    BY <2>1, <2>2, HomesKept
  <2>3. CASE CanSend(w, m, x) /\ windows' = MovedTo(w, x) /\ windowIndex' = With(windowIndex, w, x)
    <3>1. w \in DOMAIN windowIndex /\ x \in AllCells(grid)
      BY <2>3 DEF CanSend, IsOn, AllCells
    <3>2. x \in WorkspaceId
      BY <3>1, CellsUsed DEF GridInv
    <3> QED BY <2>1, <2>3, <3>1, <3>2, Moved
  <2> QED BY <2>1, <2>2, <2>3
<1>4. ASSUME NEW t \in Thread, DestroyLocked(t) PROVE OneHome'
  <2>1. CASE UNCHANGED <<gridVars, assignVars>>
    BY <2>1, HomesKept DEF gridVars, assignVars
  <2>2. CASE /\ ReplaceIndexes(grid', windows') /\ pinned' = pinned
             /\ windows' \in [WorkspaceId -> SUBSET Window]
             /\ \A x, y \in WorkspaceId : x # y => windows'[x] \cap windows'[y] = {}
             /\ UNION {windows'[x] : x \in WorkspaceId} = UNION {windows[x] : x \in WorkspaceId}
             /\ \A x \in WorkspaceId : windows'[x] # {} => x \in AllCells(grid')
    <3>1. \A x \in WorkspaceId : windows'[x] \cap pinned' = {}
      BY <2>2 DEF OneHome
    <3> QED BY <2>2, <3>1 DEF OneHome, ReplaceIndexes
  <2> QED BY <1>4, <2>1, <2>2, DestroySteps
<1>5. CASE AppsRemoved
  <2>1. grid' = grid /\ (Untrack(Head(appsQueue).win) \/ UNCHANGED assignVars)
    BY <1>5 DEF AppsRemoved, gridVars
  <2> QED BY <2>1, Untracked, HomesKept DEF assignVars
<1>6. CASE /\ \/ \E t \in Caller, m \in Monitor, asRow \in BOOLEAN : CreateDesktop(t, m, asRow)
              \/ \E m \in Monitor : ViewAdded(m)
           /\ UNCHANGED <<windows, windowIndex, pinned>>
  <2>1. AllCells(grid) \subseteq AllCells(grid')
    BY <1>6, GrowthSteps
  <2> QED BY <1>6, <2>1, HomesKept
<1> QED BY <1>1, <1>2, <1>3, <1>4, <1>5, <1>6, HomeSteps

HomeInv == TypeInv /\ GridInv /\ OneHome

LEMMA HomeInvHolds == Spec => []HomeInv
<1>1. Init => HomeInv
  BY TypesInitially, GridsInitially, HomesInitially DEF HomeInv
<1>2. HomeInv /\ [Next]_vars => HomeInv'
  BY TypesPreserved, GridsPreserved, HomesPreserved DEF HomeInv, TypeInv
<1> QED BY <1>1, <1>2, PTL DEF Spec

\* However adds, removals, sends, destructions and switches of any number of threads
\* interleave, a window is on one workspace, which exists, or pinned, or untracked,
\* and window_index says what the lists say.
THEOREM WindowsKeepOneHome == Spec => []OneHome
<1>1. HomeInv => OneHome
  BY DEF HomeInv
<1> QED BY <1>1, HomeInvHolds, PTL

-----------------------------------------------------------------------------
(* The index of the workspaces *)

\* The target of a send under way is indexed, unless it was destroyed meanwhile; and
\* its id is never given to another workspace.
TargetsIndexed ==
  \A t \in Thread : At(t, "sending") =>
    /\ call[t].ws \in usedIds
    /\ call[t].ws \in AllCells(grid) => call[t].ws \in DOMAIN workspaceIndex

IndexInv == WorkspaceIndexSound /\ HomesIndexed /\ TargetsIndexed

\* A send begins with a look at the index, and carries its target to the end.
SendingKept ==
  \A t \in Thread : At(t, "sending")' =>
    (\/ call'[t] = call[t]
     \/ call'[t].ws \in DOMAIN workspaceIndex /\ UNCHANGED HomeVars)

LEMMA SendingSteps ==
  ASSUME TypeOK, [Next]_vars
  PROVE  SendingKept
<1>1. call \in [Thread -> Call] /\ "hook" \in Thread /\ "apps" \in Thread
      /\ "boot" \in Thread /\ "reval" \in Thread /\ Caller \subseteq Thread
  BY DEF TypeOK, Thread
<1>2. ASSUME call' = call PROVE SendingKept
  BY <1>2 DEF SendingKept
<1>3. ASSUME NEW t \in Thread, NEW c, c.pc # "sending", call' = [call EXCEPT ![t] = c]
      PROVE  SendingKept
  BY <1>1, <1>3 DEF SendingKept, At
<1>4. ASSUME NEW t \in Thread, NEW pc, NEW w, NEW x, NEW m, Goto(t, pc, w, x, m), pc # "sending"
      PROVE  SendingKept
  BY <1>3, <1>4 DEF Goto
<1>5. ASSUME NEW t \in Thread, Return(t) PROVE SendingKept
  BY <1>3, <1>5, IdleIsCall DEF Return
<1>6. ASSUME NEW t \in Thread, NEW w, NEW x \in DOMAIN workspaceIndex, NEW m,
             Goto(t, "sending", w, x, m), UNCHANGED HomeVars
      PROVE  SendingKept
  BY <1>1, <1>6 DEF SendingKept, Goto, At
<1>7. ASSUME NEW t \in Thread, NEW w, BeginAdd(t, w) PROVE SendingKept
  BY <1>4, <1>7 DEF BeginAdd
<1>8. CASE UNCHANGED vars
  BY <1>2, <1>8 DEF vars
<1>9. CASE Next
  <2>1. ASSUME NEW t \in Caller, NEW x \in WorkspaceId, BeginSwitch(t, x) \/ BeginDestroy(t, x)
        PROVE  SendingKept
    BY <1>1, <1>4, <2>1 DEF BeginSwitch, BeginDestroy
  <2>2. ASSUME NEW t \in Caller, NEW w \in Window, NEW x \in WorkspaceId, BeginSendTo(t, w, x)
        PROVE  SendingKept
    BY <1>1, <1>6, <2>2 DEF BeginSendTo, managerVars, gridVars, assignVars, HomeVars
  <2>3. ASSUME NEW t \in Thread, SwitchLocked(t) PROVE SendingKept
    BY <1>4, <1>5, <2>3 DEF SwitchLocked, Stay
  <2>4. ASSUME NEW t \in Thread,
               \/ AddLocked(t) \/ SwitchSettled(t) \/ SendLocked(t) \/ DestroyLocked(t)
               \/ Announce(t)
        PROVE  SendingKept
    BY <1>5, <2>4 DEF AddLocked, SwitchSettled, SendLocked, DestroyLocked, Announce
  <2>5. CASE AppsAdded \/ AppsRemoved \/ BootSubscribe
    BY <1>1, <1>2, <1>7, <2>5 DEF AppsAdded, AppsRemoved, BootSubscribe
  <2>6. CASE HookMinimizeEnd
    BY <1>1, <1>2, <1>4, <1>7, <2>6 DEF HookMinimizeEnd
  <2>7. CASE ResolveUnminimized
    <3>1. /\ UNCHANGED HomeVars
          /\ \/ Return("hook")
             \/ \E w, x, m : Goto("hook", "switching", w, x, m)
             \/ \E w, m : \E x \in DOMAIN workspaceIndex : Goto("hook", "sending", w, x, m)
      BY <2>7 DEF ResolveUnminimized, gridVars, assignVars, HomeVars
    <3> QED BY <1>1, <1>4, <1>5, <1>6, <3>1
  <2>8. CASE HookRectChange
    <3>1. /\ UNCHANGED HomeVars
          /\ \/ call' = call
             \/ \E w, m : \E x \in DOMAIN workspaceIndex : Goto("hook", "sending", w, x, m)
      BY <2>8 DEF HookRectChange, managerVars, gridVars, assignVars, HomeVars
    <3> QED BY <1>1, <1>2, <1>6, <3>1
  <2>9. CASE HookShow \/ HookGone
    BY <1>1, <1>2, <1>4, <2>9 DEF HookShow, HookGone
  <2>10. ASSUME NEW m \in Monitor, NEW n \in Monitor, ViewAdded(m) \/ Connect(m) \/ Disconnect(m, n)
         PROVE  SendingKept
    BY <1>2, <2>10 DEF ViewAdded, Connect, Disconnect, EnvUnchanged
  <2>11. ASSUME NEW w \in Window, BootScan(w) \/ RevalidateDrop(w) \/ RevalidateAdd(w)
         PROVE  SendingKept
    BY <1>1, <1>2, <1>4, <1>7, <2>11 DEF BootScan, RevalidateDrop, RevalidateAdd
  <2>12. ASSUME NEW w \in Window,
               \/ UserMinimize(w) \/ UserUnminimize(w) \/ RectSettled(w)
               \/ WinShow(w) \/ WinHide(w) \/ WinClose(w)
         PROVE  SendingKept
    BY <1>2, <2>12 DEF UserMinimize, UserUnminimize, RectSettled, WinShow, WinHide, WinClose,
                       EnvUnchanged
  <2>13. ASSUME NEW w \in Window, NEW m \in Monitor, MoveWindow(w, m) PROVE SendingKept
    BY <1>2, <2>13 DEF MoveWindow, EnvUnchanged
  <2>14. ASSUME NEW t \in Caller, NEW m \in Monitor, NEW asRow \in BOOLEAN,
                CreateDesktop(t, m, asRow)
         PROVE  SendingKept
    BY <1>2, <2>14 DEF CreateDesktop
  <2> QED BY <1>9, <2>1, <2>2, <2>3, <2>4, <2>5, <2>6, <2>7, <2>8, <2>9, <2>10, <2>11, <2>12,
             <2>13, <2>14, StepCases
<1> QED BY <1>8, <1>9

\* No id is ever given back.
LEMMA UsedIdsKept ==
  ASSUME [Next]_vars
  PROVE  usedIds \subseteq usedIds'
<1>1. CASE UNCHANGED HomeVars
  BY <1>1 DEF HomeVars
<1>2. ASSUME NEW t \in Thread, AddLocked(t) \/ SendLocked(t) \/ DestroyLocked(t)
      PROVE  usedIds \subseteq usedIds'
  BY <1>2 DEF AddLocked, SendLocked, DestroyLocked, gridVars
<1>3. CASE AppsRemoved
  BY <1>3 DEF AppsRemoved, gridVars
<1>4. ASSUME NEW t \in Caller, NEW m \in Monitor, NEW asRow \in BOOLEAN,
             CreateDesktop(t, m, asRow)
      PROVE  usedIds \subseteq usedIds'
  BY <1>4 DEF CreateDesktop
<1>5. ASSUME NEW m \in Monitor, ViewAdded(m) PROVE usedIds \subseteq usedIds'
  BY <1>5 DEF ViewAdded, gridVars
<1> QED BY <1>1, <1>2, <1>3, <1>4, <1>5, HomeSteps

\* A new cell of the grids is indexed at once, or it has an id nobody has seen.
LEMMA NewCells ==
  ASSUME TypeOK, GridInv, GridInv', OneHome, [Next]_vars
  PROVE  \A x \in AllCells(grid') \ DOMAIN workspaceIndex' :
           x \in (AllCells(grid) \ DOMAIN workspaceIndex) \cup Unused
<1> DEFINE New == \A x \in AllCells(grid') \ DOMAIN workspaceIndex' :
                    x \in (AllCells(grid) \ DOMAIN workspaceIndex) \cup Unused
<1>1. CASE UNCHANGED HomeVars
  BY <1>1 DEF HomeVars, assignVars, AllCells
<1>2. ASSUME NEW t \in Thread, AddLocked(t) PROVE New
  <2>1. CASE UNCHANGED <<gridVars, assignVars>>
    BY <2>1 DEF gridVars, assignVars, AllCells
  <2>2. CASE UNCHANGED <<gridVars, windows, workspaceIndex, windowIndex>>
    BY <2>2 DEF gridVars, AllCells
  <2>3. CASE \E x \in WorkspaceId, m \in DOMAIN grid' :
               /\ Push(call[t].win, m, x)
               /\ AllCells(grid') \subseteq AllCells(grid) \cup {x}
    BY <2>3 DEF Push, With
  <2> QED BY <1>2, <2>1, <2>2, <2>3, AddSteps
<1>3. ASSUME NEW t \in Thread, SendLocked(t) PROVE New
  BY <1>3 DEF SendLocked, gridVars, AllCells
<1>4. ASSUME NEW t \in Thread, DestroyLocked(t) PROVE New
  <2>1. CASE UNCHANGED <<gridVars, assignVars>>
    BY <2>1 DEF gridVars, assignVars, AllCells
  <2>2. CASE ReplaceIndexes(grid', windows')
    BY <2>2, WorkspacesOfTyped DEF ReplaceIndexes
  <2> QED BY <1>4, <2>1, <2>2, DestroySteps
<1>5. CASE AppsRemoved
  BY <1>5 DEF AppsRemoved, Untrack, gridVars, assignVars, AllCells
<1>6. ASSUME NEW t \in Caller, NEW m \in Monitor, NEW asRow \in BOOLEAN,
             CreateDesktop(t, m, asRow)
      PROVE  New
  <2>1. PICK g : /\ m \in DOMAIN grid /\ grid' = [grid EXCEPT ![m] = g]
                 /\ workspaceIndex' = [x \in DOMAIN workspaceIndex \cup Cells(g) |->
                                         IF x \in Cells(g) THEN m ELSE workspaceIndex[x]]
    BY <1>6 DEF CreateDesktop
  <2>2. /\ DOMAIN workspaceIndex' = DOMAIN workspaceIndex \cup Cells(g)
        /\ \A k \in DOMAIN grid' : k \in DOMAIN grid /\ (grid'[k] = g \/ grid'[k] = grid[k])
    BY <2>1
  <2>3. AllCells(grid') \subseteq AllCells(grid) \cup Cells(g)
    BY <2>2 DEF AllCells
  <2> QED BY <2>2, <2>3
<1>7. ASSUME NEW m \in Monitor, ViewAdded(m) PROVE New
  <2>1. CASE UNCHANGED gridVars
    BY <1>7, <2>1 DEF ViewAdded, gridVars, assignVars, AllCells
  <2>2. CASE m \notin DOMAIN grid /\ \E x \in Unused : grid' = With(grid, m, << <<x>> >>)
    <3>1. PICK x \in Unused : grid' = With(grid, m, << <<x>> >>)
      BY <2>2
    <3>2. Cells(<< <<x>> >>) = {x}
      BY NewGrid
    <3>3. /\ workspaceIndex' = workspaceIndex
          /\ \A k \in DOMAIN grid' :
               \/ grid'[k] = << <<x>> >>
               \/ k \in DOMAIN grid /\ grid'[k] = grid[k]
      BY <1>7, <3>1 DEF ViewAdded, assignVars, With
    <3> QED BY <3>1, <3>2, <3>3 DEF AllCells
  <2> QED BY <1>7, <2>1, <2>2 DEF ViewAdded
<1> QED BY <1>1, <1>2, <1>3, <1>4, <1>5, <1>6, <1>7, HomeSteps

LEMMA TargetsPreserved ==
  ASSUME TypeOK, GridInv, GridInv', OneHome, WorkspaceIndexSound, TargetsIndexed, [Next]_vars
  PROVE  TargetsIndexed'
<1>1. DOMAIN workspaceIndex \subseteq AllCells(grid) /\ AllCells(grid) \subseteq usedIds
  BY CellsUsed DEF WorkspaceIndexSound, AllCells
<1>2. ASSUME NEW t \in Thread, At(t, "sending")'
      PROVE  /\ call'[t].ws \in usedIds'
             /\ call'[t].ws \in AllCells(grid') => call'[t].ws \in DOMAIN workspaceIndex'
  <2>1. CASE call'[t] = call[t]
    <3>1. /\ call[t].ws \in usedIds
          /\ call[t].ws \in AllCells(grid) => call[t].ws \in DOMAIN workspaceIndex
      BY <1>2, <2>1 DEF TargetsIndexed, At
    <3>2. call[t].ws \notin Unused
      BY <3>1 DEF Unused
    <3> QED BY <2>1, <3>1, <3>2, UsedIdsKept, NewCells
  <2>2. CASE call'[t].ws \in DOMAIN workspaceIndex /\ UNCHANGED HomeVars
    BY <1>1, <2>2 DEF HomeVars, assignVars
  <2> QED BY <1>2, <2>1, <2>2, SendingSteps DEF SendingKept
<1> QED BY <1>2 DEF TargetsIndexed

LEMMA SoundPreserved ==
  ASSUME TypeOK, GridInv, GridInv', OneHome, WorkspaceIndexSound, [Next]_vars
  PROVE  WorkspaceIndexSound'
<1>1. ASSUME workspaceIndex' = workspaceIndex,
             \A k \in DOMAIN grid : k \in DOMAIN grid' /\ Cells(grid[k]) \subseteq Cells(grid'[k])
      PROVE  WorkspaceIndexSound'
  BY <1>1 DEF WorkspaceIndexSound
<1>2. ASSUME UNCHANGED <<grid, workspaceIndex>> PROVE WorkspaceIndexSound'
  BY <1>1, <1>2
<1>3. CASE UNCHANGED HomeVars
  BY <1>2, <1>3 DEF HomeVars, assignVars
<1>4. ASSUME NEW t \in Thread, AddLocked(t) PROVE WorkspaceIndexSound'
  <2>1. CASE \/ UNCHANGED <<gridVars, assignVars>>
             \/ UNCHANGED <<gridVars, windows, workspaceIndex, windowIndex>>
    BY <1>2, <2>1 DEF gridVars, assignVars
  <2>2. CASE \E x \in WorkspaceId, m \in DOMAIN grid' :
               /\ Push(call[t].win, m, x) /\ x \in Cells(grid'[m])
               /\ \A k \in DOMAIN grid : k \in DOMAIN grid' /\ grid'[k] = grid[k]
    BY <2>2 DEF WorkspaceIndexSound, Push, With
  <2> QED BY <1>4, <2>1, <2>2, AddSteps
<1>5. ASSUME NEW t \in Thread, SendLocked(t) PROVE WorkspaceIndexSound'
  BY <1>2, <1>5 DEF SendLocked, gridVars
<1>6. ASSUME NEW t \in Thread, DestroyLocked(t) PROVE WorkspaceIndexSound'
  <2>1. CASE UNCHANGED <<gridVars, assignVars>>
    BY <1>2, <2>1 DEF gridVars, assignVars
  <2>2. CASE ReplaceIndexes(grid', windows')
    BY <2>2, WorkspacesOfTyped DEF ReplaceIndexes, WorkspaceIndexSound
  <2> QED BY <1>6, <2>1, <2>2, DestroySteps
<1>7. CASE AppsRemoved
  BY <1>2, <1>7 DEF AppsRemoved, Untrack, gridVars, assignVars
<1>8. ASSUME NEW t \in Caller, NEW m \in Monitor, NEW asRow \in BOOLEAN,
             CreateDesktop(t, m, asRow)
      PROVE  WorkspaceIndexSound'
  <2>1. PICK g : /\ m \in DOMAIN grid /\ grid' = [grid EXCEPT ![m] = g]
                 /\ workspaceIndex' = [x \in DOMAIN workspaceIndex \cup Cells(g) |->
                                         IF x \in Cells(g) THEN m ELSE workspaceIndex[x]]
    BY <1>8 DEF CreateDesktop
  <2>2. \A k \in DOMAIN grid : k \in DOMAIN grid' /\ Cells(grid[k]) \subseteq Cells(grid'[k])
    BY <1>8, GrowthSteps
  <2>3. ASSUME NEW x \in DOMAIN workspaceIndex'
        PROVE  workspaceIndex'[x] \in DOMAIN grid' /\ x \in Cells(grid'[workspaceIndex'[x]])
    <3>1. CASE x \in Cells(g)
      BY <2>1, <3>1
    <3>2. CASE x \notin Cells(g)
      <4>1. x \in DOMAIN workspaceIndex /\ workspaceIndex'[x] = workspaceIndex[x]
        BY <2>1, <3>2
      <4> QED BY <2>2, <4>1 DEF WorkspaceIndexSound
    <3> QED BY <3>1, <3>2
  <2> QED BY <2>3 DEF WorkspaceIndexSound
<1>9. ASSUME NEW m \in Monitor, ViewAdded(m) PROVE WorkspaceIndexSound'
  BY <1>1, <1>9, GrowthSteps DEF ViewAdded, assignVars
<1> QED BY <1>3, <1>4, <1>5, <1>6, <1>7, <1>8, <1>9, HomeSteps

LEMMA HomesIndexedPreserved ==
  ASSUME TypeOK, GridInv, GridInv', OneHome, OneHome', HomesIndexed, TargetsIndexed, [Next]_vars
  PROVE  HomesIndexed'
<1>1. ASSUME UNCHANGED <<windowIndex, workspaceIndex>> PROVE HomesIndexed'
  BY <1>1 DEF HomesIndexed
<1>2. ASSUME windowIndex' = windowIndex, DOMAIN workspaceIndex \subseteq DOMAIN workspaceIndex'
      PROVE  HomesIndexed'
  BY <1>2 DEF HomesIndexed
<1>3. CASE UNCHANGED HomeVars
  BY <1>1, <1>3 DEF HomeVars, assignVars
<1>4. ASSUME NEW t \in Thread, AddLocked(t) PROVE HomesIndexed'
  <2>1. CASE \/ UNCHANGED <<gridVars, assignVars>>
             \/ UNCHANGED <<gridVars, windows, workspaceIndex, windowIndex>>
    BY <1>1, <2>1 DEF assignVars
  <2>2. CASE \E x \in WorkspaceId, m \in DOMAIN grid' : Push(call[t].win, m, x)
    BY <2>2 DEF HomesIndexed, Push, With, Range
  <2> QED BY <1>4, <2>1, <2>2, AddSteps
<1>5. ASSUME NEW t \in Thread, SendLocked(t) PROVE HomesIndexed'
  <2> DEFINE w == call[t].win
             x == call[t].ws
  <2>1. /\ workspaceIndex' = workspaceIndex
        /\ \/ windowIndex' = windowIndex
           \/ CanSend(w, call[t].mon, x) /\ windowIndex' = With(windowIndex, w, x)
    BY <1>5 DEF SendLocked
  <2>2. CASE CanSend(w, call[t].mon, x) /\ windowIndex' = With(windowIndex, w, x)
    <3>1. x \in DOMAIN workspaceIndex
      BY <1>5, <2>2 DEF SendLocked, TargetsIndexed, CanSend, IsOn, AllCells
    <3> QED BY <2>1, <2>2, <3>1 DEF HomesIndexed, With, Range
  <2> QED BY <1>1, <2>1, <2>2
<1>6. ASSUME NEW t \in Thread, DestroyLocked(t) PROVE HomesIndexed'
  <2>1. CASE UNCHANGED <<gridVars, assignVars>>
    BY <1>1, <2>1 DEF assignVars
  <2>2. CASE /\ ReplaceIndexes(grid', windows')
             /\ windows' \in [WorkspaceId -> SUBSET Window]
             /\ \A y \in WorkspaceId : windows'[y] # {} => y \in AllCells(grid')
    <3>1. DOMAIN workspaceIndex' = AllCells(grid')
      BY <2>2, WorkspacesOfTyped DEF ReplaceIndexes
    <3>2. /\ IsMap(windowIndex', Window, WorkspaceId)
          /\ \A v \in DOMAIN windowIndex' : v \in windows'[windowIndex'[v]]
      BY <2>2, WindowsOfTyped DEF ReplaceIndexes
    <3>3. \A v \in DOMAIN windowIndex' : windowIndex'[v] \in AllCells(grid')
      BY <2>2, <3>2 DEF IsMap
    <3> QED BY <3>1, <3>3 DEF HomesIndexed, Range
  <2> QED BY <1>6, <2>1, <2>2, DestroySteps
<1>7. CASE AppsRemoved
  BY <1>7 DEF AppsRemoved, Untrack, Restrict, assignVars, HomesIndexed, Range
<1>8. ASSUME NEW t \in Caller, NEW m \in Monitor, NEW asRow \in BOOLEAN,
             CreateDesktop(t, m, asRow)
      PROVE  HomesIndexed'
  BY <1>2, <1>8 DEF CreateDesktop
<1>9. ASSUME NEW m \in Monitor, ViewAdded(m) PROVE HomesIndexed'
  BY <1>1, <1>9 DEF ViewAdded, assignVars
<1> QED BY <1>3, <1>4, <1>5, <1>6, <1>7, <1>8, <1>9, HomeSteps

LEMMA IndexInitially ==
  ASSUME Init
  PROVE  IndexInv
<1>1. TypeOK /\ OneHome
  BY TypesInitially, HomesInitially DEF TypeInv
<1>2. PICK s \in Stored :
        /\ \A m \in DOMAIN s.grid : m \in DOMAIN grid /\ grid[m] = s.grid[m]
        /\ windows = [x \in WorkspaceId |-> (s.windows[x] \ s.pinned) \cap shown]
        /\ workspaceIndex = WorkspacesOf(s.grid)
        /\ call = [t \in Thread |-> Idle]
  <2>1. PICK s \in Stored :
          /\ \E new : grid = [m \in DOMAIN s.grid \cup (connected \ DOMAIN s.grid) |->
                       IF m \in connected \ DOMAIN s.grid THEN << <<new[m]>> >> ELSE s.grid[m]]
          /\ windows = [x \in WorkspaceId |-> (s.windows[x] \ s.pinned) \cap shown]
          /\ workspaceIndex = WorkspacesOf(s.grid)
          /\ call = [t \in Thread |-> Idle]
    BY DEF Init
  <2>2. \A m \in DOMAIN s.grid : m \in DOMAIN grid /\ grid[m] = s.grid[m]
    BY <2>1
  <2> QED BY <2>1, <2>2
<1>3. \A x \in WorkspaceId :
        s.windows[x] # {} => \E m \in DOMAIN s.grid : x \in Cells(s.grid[m])
  <2>1. IsSaved(s)
    BY StoredAssumption
  <2> QED BY <2>1, Zenon DEF IsSaved
<1>4. DOMAIN workspaceIndex = AllCells(s.grid)
  BY <1>2, WorkspacesOfTyped
<1>5. WorkspaceIndexSound
  BY <1>2, <1>4, WorkspacesOfTyped DEF WorkspaceIndexSound
<1>6. ASSUME NEW w \in DOMAIN windowIndex PROVE windowIndex[w] \in DOMAIN workspaceIndex
  <2>1. windowIndex[w] \in WorkspaceId /\ w \in windows[windowIndex[w]]
    BY <1>1, HomeOf
  <2>2. s.windows[windowIndex[w]] # {}
    BY <1>2, <2>1
  <2> QED BY <1>3, <1>4, <2>1, <2>2 DEF AllCells
<1>7. TargetsIndexed
  BY <1>2, IdleIsCall DEF TargetsIndexed, At
<1> QED BY <1>5, <1>6, <1>7 DEF IndexInv, HomesIndexed, Range

LEMMA IndexInvHolds == Spec => []IndexInv
<1>1. Init => IndexInv
  BY IndexInitially
<1>2. HomeInv /\ HomeInv' /\ IndexInv /\ [Next]_vars => IndexInv'
  BY TargetsPreserved, SoundPreserved, HomesIndexedPreserved DEF HomeInv, TypeInv, IndexInv
<1> QED BY <1>1, <1>2, HomeInvHolds, PTL DEF Spec

\* The index of the workspaces, which additions and creations extend and destructions
\* replace, never names a workspace that is gone or on another monitor.
THEOREM WorkspaceIndexStaysSound == Spec => []WorkspaceIndexSound
<1>1. IndexInv => WorkspaceIndexSound
  BY DEF IndexInv
<1> QED BY <1>1, IndexInvHolds, PTL

\* The workspace of a tracked window is always indexed, although the index as a whole
\* is not complete: a send reads the index before it takes the lock, and a workspace
\* that is created without being indexed is not one that anybody can be sent to.
THEOREM HomesStayIndexed == Spec => []HomesIndexed
<1>1. IndexInv => HomesIndexed
  BY DEF IndexInv
<1> QED BY <1>1, IndexInvHolds, PTL


-----------------------------------------------------------------------------
(* The mapped state of WindowAssignment *)

LEMMA MappedConsistently ==
  ASSUME HomeInv
  PROVE  Assignment!Consistent
<1>1. AllCells(grid) \subseteq WorkspaceId /\ usedIds \subseteq WorkspaceId
  BY CellsUsed DEF HomeInv, GridInv
<1>2. /\ windowIndex = [w \in DOMAIN windowIndex |-> windowIndex[w]]
      /\ DOMAIN windowIndex \subseteq Window /\ pinned \subseteq Window
  BY DEF HomeInv, TypeInv, TypeOK, IsMap
<1>3. ASSUME NEW w \in DOMAIN windowIndex
      PROVE  windowIndex[w] \in AllCells(grid) /\ w \notin pinned
  BY HomeOf DEF HomeInv, TypeInv, OneHome
<1>4. windowIndex \in [DOMAIN windowIndex -> AllCells(grid)]
  BY <1>2, <1>3
<1> QED BY <1>1, <1>2, <1>3, <1>4 DEF Assignment!Consistent

\* At start-up every id in use is on a grid.
LEMMA AssignmentInitially ==
  ASSUME Init
  PROVE  Assignment!Init
<1>1. HomeInv
  BY TypesInitially, GridsInitially, HomesInitially DEF HomeInv
<1>2. PICK s, new :
        /\ new \in Injection(connected \ DOMAIN s.grid, WorkspaceId \ AllCells(s.grid))
        /\ grid = [m \in DOMAIN s.grid \cup (connected \ DOMAIN s.grid) |->
                     IF m \in connected \ DOMAIN s.grid THEN << <<new[m]>> >> ELSE s.grid[m]]
        /\ usedIds = AllCells(s.grid) \cup Range(new)
  BY DEF Init
<1>3. AllCells(s.grid) \subseteq AllCells(grid)
  BY <1>2 DEF AllCells
<1>4. ASSUME NEW x \in Range(new) PROVE x \in AllCells(grid)
  <2>1. PICK m \in connected \ DOMAIN s.grid : x = new[m]
    BY <1>2 DEF Injection, Range
  <2>2. Cells(<< <<x>> >>) = {x}
    BY NewGrid
  <2>3. m \in DOMAIN grid /\ grid[m] = << <<x>> >>
    BY <1>2, <2>1
  <2> QED BY <2>2, <2>3 DEF AllCells
<1>5. usedIds \ AllCells(grid) = {}
  BY <1>2, <1>3, <1>4
<1> QED BY <1>1, <1>5, MappedConsistently DEF Assignment!Init

-----------------------------------------------------------------------------
(* The steps of WindowAssignment *)

\* New workspaces, of ids nobody had.
LEMMA Opened ==
  ASSUME HomeInv, NEW S, S \subseteq Unused,
         AllCells(grid') = AllCells(grid) \cup S, usedIds' = usedIds \cup S,
         UNCHANGED <<windowIndex, pinned>>
  PROVE  Assignment!Open
<1>1. /\ S \in SUBSET (WorkspaceId \ (AllCells(grid) \cup (usedIds \ AllCells(grid))))
      /\ usedIds' \ AllCells(grid') = usedIds \ AllCells(grid)
  BY CellsUsed DEF Unused, HomeInv
<1> QED BY <1>1 DEF Assignment!Open

\* An entry for a monitor that has none adds one cell.
LEMMA CellEntered ==
  ASSUME NEW m, m \notin DOMAIN grid, NEW x, grid' = With(grid, m, << <<x>> >>)
  PROVE  AllCells(grid') = AllCells(grid) \cup {x}
<1>1. Cells(<< <<x>> >>) = {x}
  BY NewGrid
<1> DEFINE one == << <<x>> >>
<1> HIDE DEF one
<1>2. /\ DOMAIN grid' = DOMAIN grid \cup {m} /\ grid'[m] = one /\ Cells(one) = {x}
      /\ \A k \in DOMAIN grid : k # m /\ grid'[k] = grid[k]
  BY <1>1 DEF With, one
<1> QED BY <1>2 DEF AllCells

\* A window without a home gets one, on a workspace that was open or is new.
LEMMA Placed ==
  ASSUME HomeInv, NEW w, NEW m, NEW x \in WorkspaceId,
         w \notin pinned \cup DOMAIN windowIndex, Push(w, m, x),
         \/ x \in AllCells(grid) /\ UNCHANGED gridVars
         \/ /\ x \in Unused /\ usedIds' = usedIds \cup {x}
            /\ AllCells(grid') = AllCells(grid) \cup {x}
  PROVE  Assignment!Place(w)
<1>1. /\ AllCells(grid') = AllCells(grid) \cup {x}
      /\ usedIds' \ AllCells(grid') = usedIds \ AllCells(grid)
      /\ x \in WorkspaceId \ (usedIds \ AllCells(grid))
  BY DEF gridVars, Unused
<1>2. /\ windowIndex' = [v \in DOMAIN windowIndex \cup {w} |->
                           IF v = w THEN x ELSE windowIndex[v]]
      /\ pinned' = pinned
  BY DEF Push, With
<1> QED BY <1>1, <1>2 DEF Assignment!Place, Assignment!Free

\* add_to_current_workspace: nothing, a placement, or a window pinned.
LEMMA AddImplements ==
  ASSUME HomeInv, NEW t \in Thread, AddLocked(t)
  PROVE  [Assignment!Next]_(Assignment!vars)
<1> DEFINE w == call[t].win
           m == call[t].mon
<1>1. interactable \subseteq Window
  BY DEF HomeInv, TypeInv, TypeOK
<1>2. CASE UNCHANGED <<gridVars, assignVars>>
  BY <1>2 DEF Assignment!vars, gridVars, assignVars
<1>3. CASE /\ ~Rejected(w) /\ pinned' = pinned \cup {w}
           /\ UNCHANGED <<gridVars, windows, workspaceIndex, windowIndex>>
  BY <1>1, <1>3 DEF Rejected, gridVars, Assignment!Next, Assignment!Pin, Assignment!Free
<1>4. CASE ~Rejected(w) /\ m \in DOMAIN grid /\ Push(w, m, active[m]) /\ UNCHANGED gridVars
  <2>1. active[m] \in AllCells(grid) /\ active[m] \in WorkspaceId
    BY <1>4 DEF HomeInv, GridInv, GridsWellFormed, AllCells
  <2>2. Assignment!Place(w)
    BY <1>4, <2>1, Placed DEF Rejected
  <2> QED BY <1>1, <1>4, <2>2 DEF Rejected, Assignment!Next
<1>5. CASE /\ ~Rejected(w) /\ m \notin DOMAIN grid
           /\ \E x \in Unused : /\ grid' = With(grid, m, << <<x>> >>)
                                /\ usedIds' = usedIds \cup {x}
                                /\ Push(w, m, x)
  <2>1. PICK x \in Unused : /\ grid' = With(grid, m, << <<x>> >>)
                            /\ usedIds' = usedIds \cup {x}
                            /\ Push(w, m, x)
    BY <1>5
  <2>2. AllCells(grid') = AllCells(grid) \cup {x}
    BY <1>5, <2>1, CellEntered
  <2>3. Assignment!Place(w)
    BY <1>5, <2>1, <2>2, Placed DEF Rejected, Unused
  <2> QED BY <1>1, <1>5, <2>3 DEF Rejected, Assignment!Next
<1> QED BY <1>2, <1>3, <1>4, <1>5 DEF AddLocked

\* send_to: nothing, or a move to an open workspace.
LEMMA SendImplements ==
  ASSUME HomeInv, NEW t \in Thread, SendLocked(t)
  PROVE  [Assignment!Next]_(Assignment!vars)
<1> DEFINE w == call[t].win
           x == call[t].ws
           m == call[t].mon
<1>1. /\ UNCHANGED <<grid, usedIds, pinned>>
      /\ \/ windowIndex' = windowIndex
         \/ CanSend(w, m, x) /\ windowIndex' = With(windowIndex, w, x)
  BY DEF SendLocked, gridVars
<1> HIDE DEF w, x, m
<1>2. CASE windowIndex' = windowIndex
  BY <1>1, <1>2 DEF Assignment!vars, AllCells
<1>3. CASE CanSend(w, m, x) /\ windowIndex' = With(windowIndex, w, x)
  <2>1. /\ w \in DOMAIN windowIndex /\ w \in Window /\ x \in AllCells(grid)
        /\ windowIndex = [v \in DOMAIN windowIndex |-> windowIndex[v]]
    BY <1>3 DEF CanSend, IsOn, AllCells, HomeInv, TypeInv, TypeOK, IsMap
  <2>2. windowIndex' = [windowIndex EXCEPT ![w] = x]
    BY <1>3, <2>1 DEF With
  <2>3. AllCells(grid') = AllCells(grid)
    BY <1>1
  <2>4. Assignment!Move(w)
    BY <1>1, <2>1, <2>2, <2>3 DEF Assignment!Move
  <2> QED BY <2>1, <2>4 DEF Assignment!Next
<1> QED BY <1>1, <1>2, <1>3

\* remove(): the window is on none, and every other one stays where it is.
LEMMA RemovalImplements ==
  ASSUME HomeInv, AppsRemoved
  PROVE  [Assignment!Next]_(Assignment!vars)
<1> DEFINE w == Head(appsQueue).win
<1>1. w \in Window
  <2>1. appsQueue \in Seq(AppsEvent) /\ appsQueue # <<>>
    BY DEF AppsRemoved, HomeInv, TypeInv, TypeOK
  <2>2. Head(appsQueue) \in AppsEvent
    BY <2>1
  <2> QED BY <2>2 DEF AppsEvent
<1>2. UNCHANGED <<grid, usedIds>> /\ (Untrack(w) \/ UNCHANGED assignVars)
  BY DEF AppsRemoved, gridVars
<1> HIDE DEF w
<1>3. CASE Untrack(w)
  <2>1. Assignment!Forget(w)
    BY <1>2, <1>3 DEF Untrack, Restrict, Assignment!Forget, AllCells
  <2> QED BY <1>1, <2>1 DEF Assignment!Next
<1>4. CASE UNCHANGED assignVars
  BY <1>2, <1>4 DEF assignVars, Assignment!vars, AllCells
<1> QED BY <1>2, <1>3, <1>4

\* create_desktop and ViewAdded open workspaces.
LEMMA CreationImplements ==
  ASSUME HomeInv, NEW t \in Caller, NEW m \in Monitor, NEW asRow \in BOOLEAN,
         CreateDesktop(t, m, asRow)
  PROVE  Assignment!Open
<1> DEFINE n == IF asRow THEN ColumnCount(grid[m]) ELSE RowCount(grid[m])
<1>1. PICK new \in Injection(1..n, Unused) :
        /\ m \in DOMAIN grid
        /\ grid' = [grid EXCEPT ![m] =
                      IF asRow THEN AddRow(grid[m], new) ELSE AddColumn(grid[m], new)]
        /\ usedIds' = usedIds \cup Range(new)
        /\ UNCHANGED <<windowIndex, pinned>>
  BY DEF CreateDesktop
<1> DEFINE g == IF asRow THEN AddRow(grid[m], new) ELSE AddColumn(grid[m], new)
<1>2. Range(new) \subseteq Unused
  BY DEF Injection, Range
<1>3. Cells(g) = Cells(grid[m]) \cup Range(new)
  <2>1. IsGrid(grid[m], usedIds) /\ usedIds \subseteq WorkspaceId
    BY <1>1 DEF HomeInv, GridInv, GridsWellFormed
  <2>2. IsGrid(grid[m], WorkspaceId) /\ Unused \in SUBSET WorkspaceId
        /\ Unused \cap Cells(grid[m]) = {}
    BY <2>1, CellsTyped, GridRetyped DEF Unused
  <2>3. CASE asRow
    <3>1. new \in Injection(1..ColumnCount(grid[m]), Unused)
      BY <2>3
    <3>2. Cells(AddRow(grid[m], new)) = Cells(grid[m]) \cup Range(new)
      BY ONLY <2>2, <3>1, RowAdded
    <3> QED BY <2>3, <3>2
  <2>4. CASE ~asRow
    <3>1. new \in Injection(1..RowCount(grid[m]), Unused)
      BY <2>4
    <3>2. Cells(AddColumn(grid[m], new)) = Cells(grid[m]) \cup Range(new)
      BY ONLY <2>2, <3>1, ColumnAdded
    <3> QED BY <2>4, <3>2
  <2> QED BY <2>3, <2>4
<1>4. /\ DOMAIN grid' = DOMAIN grid /\ grid'[m] = g
      /\ \A k \in DOMAIN grid : k # m => grid'[k] = grid[k]
  BY <1>1
<1> HIDE DEF g
<1>5. AllCells(grid') = AllCells(grid) \cup Range(new)
  BY <1>1, <1>3, <1>4 DEF AllCells
<1> QED BY <1>1, <1>2, <1>5, Opened

LEMMA EntryImplements ==
  ASSUME HomeInv, NEW m \in Monitor, ViewAdded(m)
  PROVE  [Assignment!Next]_(Assignment!vars)
<1>1. UNCHANGED <<windowIndex, pinned>>
  BY DEF ViewAdded, assignVars
<1>2. CASE UNCHANGED gridVars
  BY <1>1, <1>2 DEF gridVars, Assignment!vars, AllCells
<1>3. CASE m \notin DOMAIN grid /\ \E x \in Unused : /\ grid' = With(grid, m, << <<x>> >>)
                                                     /\ usedIds' = usedIds \cup {x}
  <2>1. PICK x \in Unused : /\ grid' = With(grid, m, << <<x>> >>)
                            /\ usedIds' = usedIds \cup {x}
    BY <1>3
  <2>2. AllCells(grid') = AllCells(grid) \cup {x}
    BY <1>3, <2>1, CellEntered
  <2>3. {x} \subseteq Unused
    OBVIOUS
  <2>4. Assignment!Open
    BY <1>1, <2>1, <2>2, <2>3, Opened
  <2> QED BY <2>4 DEF Assignment!Next
<1> QED BY <1>2, <1>3 DEF ViewAdded


\* The index that Inherited leads to.
LEMMA HomesInherited ==
  ASSUME HomeInv, HomeInv', NEW heirs, DOMAIN heirs \subseteq WorkspaceId,
         heirs \in [DOMAIN heirs -> WorkspaceId \ DOMAIN heirs],
         windows' = Inherited(heirs)
  PROVE  windowIndex' = [w \in DOMAIN windowIndex |->
                           IF windowIndex[w] \in DOMAIN heirs THEN heirs[windowIndex[w]]
                                                              ELSE windowIndex[w]]
<1> DEFINE f == [w \in DOMAIN windowIndex |->
                   IF windowIndex[w] \in DOMAIN heirs THEN heirs[windowIndex[w]]
                                                      ELSE windowIndex[w]]
<1>1. TypeOK /\ OneHome /\ OneHome'
  BY DEF HomeInv, TypeInv
<1>2. /\ DOMAIN windowIndex = UNION {windows[x] : x \in WorkspaceId}
      /\ \A w \in DOMAIN windowIndex :
           windowIndex[w] \in WorkspaceId /\ w \in windows[windowIndex[w]]
  BY <1>1, HomeOf
<1>3. /\ windows' \in [WorkspaceId -> SUBSET Window]
      /\ UNION {windows'[x] : x \in WorkspaceId} = UNION {windows[x] : x \in WorkspaceId}
  BY <1>1, InheritedHomes
<1>4. ASSUME NEW w \in DOMAIN windowIndex
      PROVE  f[w] \in WorkspaceId /\ w \in windows'[f[w]]
  <2>1. CASE windowIndex[w] \in DOMAIN heirs
    <3>1. f[w] = heirs[windowIndex[w]] /\ f[w] \in WorkspaceId \ DOMAIN heirs
      BY <2>1
    <3> QED BY <1>2, <2>1, <3>1 DEF Inherited
  <2>2. CASE windowIndex[w] \notin DOMAIN heirs
    BY <1>2, <2>2 DEF Inherited
  <2> QED BY <2>1, <2>2
<1>5. DOMAIN f = DOMAIN windowIndex /\ f = [w \in DOMAIN f |-> f[w]]
  OBVIOUS
<1> HIDE DEF f
<1>6. \A x, y \in WorkspaceId : x # y => windows'[x] \cap windows'[y] = {}
  BY <1>1 DEF OneHome
<1>7. f = WindowsOf(windows')
  BY <1>2, <1>3, <1>4, <1>5, <1>6, IndexUnique
<1>8. windowIndex' = WindowsOf(windows')
  BY <1>1 DEF OneHome
<1> QED BY <1>7, <1>8 DEF f

\* destroy_desktop closes the workspaces of a column or a row; each window of theirs is
\* then on the heir of its workspace, which the rebuilt index says as well.
LEMMA DestructionImplements ==
  ASSUME HomeInv, HomeInv', NEW t \in Thread, DestroyLocked(t)
  PROVE  [Assignment!Next]_(Assignment!vars)
<1> DEFINE x     == call[t].ws
           m     == call[t].mon
           heirs == Heirs(grid[m], x)
           g     == Sanitize(Remaining(grid[m], x), Unused)
<1>1. \/ UNCHANGED <<gridVars, assignVars>>
      \/ /\ m \in DOMAIN grid /\ Removable(grid[m], x)
         /\ grid' = [grid EXCEPT ![m] = g]
         /\ usedIds' = usedIds \cup Cells(g)
         /\ windows' = Inherited(heirs) /\ pinned' = pinned
  BY DEF DestroyLocked
<1>2. CASE UNCHANGED <<gridVars, assignVars>>
  BY <1>2 DEF gridVars, assignVars, Assignment!vars
<1>3. CASE /\ m \in DOMAIN grid /\ Removable(grid[m], x)
           /\ grid' = [grid EXCEPT ![m] = g]
           /\ usedIds' = usedIds \cup Cells(g)
           /\ windows' = Inherited(heirs) /\ pinned' = pinned
  <2>1. /\ Cells(g) = Cells(grid[m]) \ DOMAIN heirs
        /\ DOMAIN heirs \subseteq Cells(grid[m])
        /\ heirs \in [DOMAIN heirs -> Cells(g)]
    BY <1>3, RemainingGrid DEF HomeInv
  <2> HIDE DEF x, m, heirs, g
  <2>2. /\ DOMAIN grid' = DOMAIN grid /\ grid'[m] = g
        /\ \A k \in DOMAIN grid : k # m => grid'[k] = grid[k]
    BY <1>3
  <2>3. \A k \in DOMAIN grid : k # m => Cells(grid[k]) \cap Cells(grid[m]) = {}
    BY <1>3 DEF HomeInv, GridInv, GridsWellFormed
  <2>4. AllCells(grid') = AllCells(grid) \ DOMAIN heirs
    BY <1>3, <2>1, <2>2, <2>3 DEF AllCells
  <2>5. /\ DOMAIN heirs \subseteq AllCells(grid) /\ Cells(g) \subseteq AllCells(grid')
        /\ AllCells(grid) \subseteq usedIds /\ usedIds \subseteq WorkspaceId
    BY <1>3, <2>1, <2>2, CellsUsed DEF AllCells, HomeInv, GridInv
  <2>6. /\ heirs \in [DOMAIN heirs -> AllCells(grid) \ DOMAIN heirs]
        /\ DOMAIN heirs \in SUBSET AllCells(grid)
    BY <2>1, <2>4, <2>5
  <2>7. /\ usedIds' = usedIds
        /\ usedIds' \ AllCells(grid') = (usedIds \ AllCells(grid)) \cup DOMAIN heirs
    BY <1>3, <2>1, <2>4, <2>5
  <2>8. windowIndex' = [w \in DOMAIN windowIndex |->
                          IF windowIndex[w] \in DOMAIN heirs THEN heirs[windowIndex[w]]
                                                             ELSE windowIndex[w]]
    BY <1>3, <2>5, <2>6, HomesInherited
  <2>9. Assignment!Close
    BY <1>3, <2>4, <2>6, <2>7, <2>8 DEF Assignment!Close
  <2> QED BY <2>9 DEF Assignment!Next
<1> QED BY <1>1, <1>2, <1>3

\* Every step implements an abstract one.
LEMMA StepsImplement ==
  ASSUME HomeInv, HomeInv', [Next]_vars
  PROVE  [Assignment!Next]_(Assignment!vars)
<1>1. CASE UNCHANGED HomeVars
  BY <1>1 DEF HomeVars, assignVars, Assignment!vars, AllCells
<1>2. ASSUME NEW t \in Thread, AddLocked(t) \/ SendLocked(t) \/ DestroyLocked(t)
      PROVE  [Assignment!Next]_(Assignment!vars)
  BY <1>2, AddImplements, SendImplements, DestructionImplements
<1>3. ASSUME NEW t \in Caller, NEW m \in Monitor, NEW asRow \in BOOLEAN,
             CreateDesktop(t, m, asRow)
      PROVE  [Assignment!Next]_(Assignment!vars)
  BY <1>3, CreationImplements DEF Assignment!Next
<1> QED BY <1>1, <1>2, <1>3, RemovalImplements, EntryImplements, HomeSteps

\* However the threads interleave between reading the indexes and taking the lock, what
\* get_workspace_of_window and is_pinned answer changes only by whole placements, moves,
\* removals, openings and closings; a workspace that was closed is never opened again,
\* and no window is lost with it.
THEOREM VdManagerImplementsAssignment == Spec => ImplementsAssignment
<1>1. Init => Assignment!Init
  BY AssignmentInitially
<1>2. HomeInv /\ HomeInv' /\ [Next]_vars => [Assignment!Next]_(Assignment!vars)
  BY StepsImplement
<1> QED BY <1>1, <1>2, HomeInvHolds, PTL DEF Spec, ImplementsAssignment, Assignment!Spec

-----------------------------------------------------------------------------
(* Dropping a window *)

\* Only its Removed event takes a window out of the index and the pinned ones, whatever
\* switches, sends, destructions and displays do.
THEOREM DropsAreRemovals == Spec => UntrackedOnlyByRemoval
<1> DEFINE Dropped ==
      \A w \in Tracked \ Tracked' :
        /\ appsQueue # <<>> /\ appsQueue' = Tail(appsQueue)
        /\ Head(appsQueue) = [kind |-> "removed", win |-> w]
<1>1. HomeInv /\ HomeInv' /\ [Next]_vars => Dropped
  <2> SUFFICES ASSUME HomeInv, HomeInv', [Next]_vars
               PROVE  Dropped
    OBVIOUS
  <2>1. ASSUME DOMAIN windowIndex \subseteq DOMAIN windowIndex', pinned \subseteq pinned'
        PROVE  Dropped
    BY <2>1 DEF Tracked
  <2>2. CASE UNCHANGED HomeVars
    BY <2>1, <2>2 DEF HomeVars, assignVars
  <2>3. ASSUME NEW t \in Thread, AddLocked(t) PROVE Dropped
    BY <2>1, <2>3 DEF AddLocked, Push, With, assignVars
  <2>4. ASSUME NEW t \in Thread, SendLocked(t) PROVE Dropped
    BY <2>1, <2>4 DEF SendLocked, With
  <2>5. ASSUME NEW t \in Thread, DestroyLocked(t) PROVE Dropped
    <3>1. CASE UNCHANGED <<gridVars, assignVars>>
      BY <2>1, <3>1 DEF assignVars
    <3>2. CASE /\ pinned' = pinned
               /\ UNION {windows'[x] : x \in WorkspaceId} = UNION {windows[x] : x \in WorkspaceId}
      <4>1. windowIndex = WindowsOf(windows) /\ windowIndex' = WindowsOf(windows')
        BY DEF HomeInv, OneHome
      <4>2. DOMAIN windowIndex = DOMAIN windowIndex'
        BY <3>2, <4>1 DEF WindowsOf
      <4> QED BY <2>1, <3>2, <4>2
    <3> QED BY <2>5, <3>1, <3>2, DestroySteps DEF HomeInv, TypeInv
  <2>6. CASE AppsRemoved
    <3>1. appsQueue \in Seq(AppsEvent)
      BY DEF HomeInv, TypeInv, TypeOK
    <3>2. /\ appsQueue # <<>> /\ appsQueue' = Tail(appsQueue)
          /\ Head(appsQueue).kind = "removed"
          /\ Untrack(Head(appsQueue).win) \/ UNCHANGED assignVars
      BY <2>6 DEF AppsRemoved
    <3>3. Head(appsQueue) \in AppsEvent
      BY ONLY <3>1, <3>2, QueueTyped
    <3>4. \A w : Head(appsQueue).win = w => Head(appsQueue) = [kind |-> "removed", win |-> w]
      BY <3>2, <3>3 DEF AppsEvent
    <3>5. CASE Untrack(Head(appsQueue).win)
      <4>1. \A w \in Tracked \ Tracked' : w = Head(appsQueue).win
        BY <3>5 DEF Untrack, Restrict, Tracked
      <4> QED BY <3>2, <3>4, <4>1
    <3>6. CASE UNCHANGED assignVars
      BY <2>1, <3>6 DEF assignVars
    <3> QED BY <3>2, <3>5, <3>6
  <2>7. CASE UNCHANGED <<windows, windowIndex, pinned>>
    BY <2>1, <2>7
  <2> QED BY <2>2, <2>3, <2>4, <2>5, <2>6, <2>7, HomeSteps
<1> QED BY <1>1, HomeInvHolds, PTL DEF Spec, UntrackedOnlyByRemoval

-----------------------------------------------------------------------------
(* The monitor of a window *)

\* The indexes name the one monitor whose grid has the workspace of the window.
MonitorsFound ==
  \A w \in DOMAIN windowIndex :
    /\ HomeMonitor(w) \in DOMAIN grid /\ windowIndex[w] \in Cells(grid[HomeMonitor(w)])
    /\ \A m \in DOMAIN grid : windowIndex[w] \in Cells(grid[m]) => HomeMonitor(w) = m

LEMMA MonitorsAreFound == HomeInv /\ IndexInv => MonitorsFound
<1> SUFFICES ASSUME HomeInv, IndexInv PROVE MonitorsFound
  OBVIOUS
<1>1. ASSUME NEW w \in DOMAIN windowIndex
      PROVE  HomeMonitor(w) \in DOMAIN grid /\ windowIndex[w] \in Cells(grid[HomeMonitor(w)])
  <2>1. windowIndex[w] \in DOMAIN workspaceIndex
    BY DEF IndexInv, HomesIndexed, Range
  <2> QED BY <2>1 DEF IndexInv, WorkspaceIndexSound, HomeMonitor
<1>2. \A m, n \in DOMAIN grid : m # n => Cells(grid[m]) \cap Cells(grid[n]) = {}
  BY DEF HomeInv, GridInv, GridsWellFormed
<1> QED BY <1>1, <1>2 DEF MonitorsFound

\* What a step must do so that w stays on its monitor.
StaysThere(w) ==
  /\ HomeMonitor(w) \in DOMAIN grid'
  /\ windowIndex'[w] \in Cells(grid'[HomeMonitor(w)])

LEMMA DestructionStays ==
  ASSUME HomeInv, HomeInv', MonitorsFound, NEW t \in Thread, DestroyLocked(t),
         NEW w \in DOMAIN windowIndex
  PROVE  StaysThere(w)
<1> DEFINE x     == call[t].ws
           m     == call[t].mon
           heirs == Heirs(grid[m], x)
           g     == Sanitize(Remaining(grid[m], x), Unused)
           n     == HomeMonitor(w)
<1>1. \/ UNCHANGED <<gridVars, assignVars>>
      \/ /\ m \in DOMAIN grid /\ Removable(grid[m], x)
         /\ grid' = [grid EXCEPT ![m] = g]
         /\ windows' = Inherited(heirs)
  BY DEF DestroyLocked
<1>2. n \in DOMAIN grid /\ windowIndex[w] \in Cells(grid[n])
  BY DEF MonitorsFound
<1>3. CASE UNCHANGED <<gridVars, assignVars>>
  BY <1>2, <1>3 DEF gridVars, assignVars, StaysThere
<1>4. CASE /\ m \in DOMAIN grid /\ Removable(grid[m], x)
           /\ grid' = [grid EXCEPT ![m] = g]
           /\ windows' = Inherited(heirs)
  <2>1. /\ Cells(g) = Cells(grid[m]) \ DOMAIN heirs
        /\ DOMAIN heirs \subseteq Cells(grid[m])
        /\ heirs \in [DOMAIN heirs -> Cells(g)]
    BY <1>4, RemainingGrid DEF HomeInv
  <2> HIDE DEF x, m, heirs, g, n
  <2>2. Cells(grid[m]) \subseteq WorkspaceId
    BY <1>4, CellsUsed DEF AllCells, HomeInv, GridInv
  <2>3. windowIndex'[w] = IF windowIndex[w] \in DOMAIN heirs THEN heirs[windowIndex[w]]
                                                             ELSE windowIndex[w]
    <3>1. DOMAIN heirs \subseteq WorkspaceId /\ heirs \in [DOMAIN heirs -> WorkspaceId \ DOMAIN heirs]
      BY <2>1, <2>2
    <3> QED BY <1>4, <3>1, HomesInherited
  <2>4. /\ grid'[m] = g /\ DOMAIN grid' = DOMAIN grid
        /\ \A k \in DOMAIN grid : k # m => grid'[k] = grid[k]
    BY <1>4
  <2>5. \A k \in DOMAIN grid : windowIndex[w] \in Cells(grid[k]) => k = n
    BY DEF MonitorsFound, n
  <2>6. CASE n = m
    BY <1>2, <2>1, <2>3, <2>4, <2>6 DEF StaysThere, n
  <2>7. CASE n # m
    <3>1. windowIndex'[w] = windowIndex[w]
      BY <1>4, <2>1, <2>3, <2>5, <2>7
    <3> QED BY <1>2, <2>4, <2>7, <3>1 DEF StaysThere, n
  <2> QED BY <2>6, <2>7
<1> QED BY <1>1, <1>3, <1>4

\* Only a send of w changes the monitor of w.
LEMMA MonitorsKept ==
  ASSUME HomeInv, HomeInv', MonitorsFound, MonitorsFound', [Next]_vars,
         NEW w \in DOMAIN windowIndex, w \in DOMAIN windowIndex',
         ~\E t \in Thread : SendLocked(t) /\ call[t].win = w
  PROVE  HomeMonitor(w)' = HomeMonitor(w)
<1> SUFFICES StaysThere(w)
  BY DEF MonitorsFound, StaysThere
<1>1. HomeMonitor(w) \in DOMAIN grid /\ windowIndex[w] \in Cells(grid[HomeMonitor(w)])
  BY DEF MonitorsFound
<1>2. ASSUME windowIndex'[w] = windowIndex[w],
             \A k \in DOMAIN grid : k \in DOMAIN grid' /\ Cells(grid[k]) \subseteq Cells(grid'[k])
      PROVE  StaysThere(w)
  BY <1>1, <1>2 DEF StaysThere
<1>3. CASE UNCHANGED HomeVars
  BY <1>2, <1>3 DEF HomeVars, assignVars
<1>4. ASSUME NEW t \in Thread, AddLocked(t) PROVE StaysThere(w)
  <2>1. CASE UNCHANGED <<gridVars, assignVars>>
    BY <1>2, <2>1 DEF gridVars, assignVars
  <2>2. CASE UNCHANGED <<gridVars, windows, workspaceIndex, windowIndex>>
    BY <1>2, <2>2 DEF gridVars
  <2>3. CASE \E x \in WorkspaceId, m \in DOMAIN grid' :
               /\ call[t].win \notin DOMAIN windowIndex
               /\ Push(call[t].win, m, x)
               /\ \A k \in DOMAIN grid : k \in DOMAIN grid' /\ grid'[k] = grid[k]
    BY <1>2, <2>3 DEF Push, With
  <2> QED BY <1>4, <2>1, <2>2, <2>3, AddSteps DEF HomeInv, TypeInv
<1>5. ASSUME NEW t \in Thread, SendLocked(t) PROVE StaysThere(w)
  <2>1. /\ grid' = grid /\ call[t].win # w
        /\ \/ windowIndex' = windowIndex
           \/ windowIndex' = With(windowIndex, call[t].win, call[t].ws)
    BY <1>5 DEF SendLocked, gridVars
  <2> QED BY <1>2, <2>1 DEF With
<1>6. CASE AppsRemoved
  BY <1>2, <1>6 DEF AppsRemoved, Untrack, Restrict, gridVars, assignVars
<1>7. CASE /\ \/ \E t \in Caller, m \in Monitor, asRow \in BOOLEAN : CreateDesktop(t, m, asRow)
              \/ \E m \in Monitor : ViewAdded(m)
           /\ UNCHANGED <<windows, windowIndex, pinned>>
  BY <1>2, <1>7, GrowthSteps DEF HomeInv, TypeInv
<1> QED BY <1>3, <1>4, <1>5, <1>6, <1>7, DestructionStays, HomeSteps

\* A tracked window goes to another monitor by a send of that window only: destructions
\* move windows within a grid, and neither the additions of other windows nor a rebuilt
\* index change the monitor its workspace is looked up on.
THEOREM MonitorsChangeOnlyBySending == Spec => MonitorChangedOnlyBySending
<1>1. Spec => [](HomeInv /\ MonitorsFound)
  BY HomeInvHolds, IndexInvHolds, MonitorsAreFound, PTL
<1>2. HomeInv /\ HomeInv' /\ MonitorsFound /\ MonitorsFound' /\ [Next]_vars =>
        \A w \in DOMAIN windowIndex \cap DOMAIN windowIndex' :
          HomeMonitor(w) # HomeMonitor(w)' =>
            \E t \in Thread : At(t, "sending") /\ call[t].win = w
  BY MonitorsKept DEF SendLocked
<1> QED BY <1>1, <1>2, PTL DEF Spec, MonitorChangedOnlyBySending

-----------------------------------------------------------------------------
(* Ghosts *)

\* What is waiting in a queue stays there when something else is taken out of it, and
\* when something is added.
LEMMA StillQueued ==
  ASSUME NEW S, NEW q \in Seq(S), NEW e, NEW i \in DOMAIN q, q[i] = e
  PROVE  /\ Head(q) # e => \E j \in DOMAIN Tail(q) : Tail(q)[j] = e
         /\ \A f : \E j \in DOMAIN Append(q, f) : Append(q, f)[j] = e
<1>1. Len(q) \in Nat /\ i \in 1..Len(q) /\ DOMAIN q = 1..Len(q)
  OBVIOUS
<1>2. ASSUME Head(q) # e PROVE \E j \in DOMAIN Tail(q) : Tail(q)[j] = e
  <2>1. i # 1 /\ q # <<>>
    BY <1>1, <1>2
  <2>2. Len(Tail(q)) = Len(q) - 1 /\ DOMAIN Tail(q) = 1..Len(Tail(q)) /\ Tail(q)[i - 1] = q[i]
    BY <1>1, <2>1
  <2>3. i - 1 \in DOMAIN Tail(q)
    BY <1>1, <2>1, <2>2
  <2> QED BY <2>2, <2>3
<1>3. ASSUME NEW f PROVE \E j \in DOMAIN Append(q, f) : Append(q, f)[j] = e
  <2>1. i \in DOMAIN Append(q, f) /\ Append(q, f)[i] = q[i]
    BY <1>1
  <2> QED BY <2>1
<1> QED BY <1>2, <1>3

\* Only interactable windows begin to be tracked: add_to_current_workspace looks again
\* under the lock.
LEMMA TrackedSteps ==
  ASSUME HomeInv, HomeInv', [Next]_vars
  PROVE  Tracked' \subseteq Tracked \cup interactable
<1>1. CASE UNCHANGED HomeVars
  BY <1>1 DEF HomeVars, assignVars, Tracked
<1>2. ASSUME NEW t \in Thread, AddLocked(t) PROVE Tracked' \subseteq Tracked \cup interactable
  BY <1>2 DEF AddLocked, Rejected, Push, With, assignVars, Tracked
<1>3. ASSUME NEW t \in Thread, SendLocked(t) PROVE Tracked' \subseteq Tracked \cup interactable
  BY <1>3 DEF SendLocked, CanSend, With, Tracked
<1>4. ASSUME NEW t \in Thread, DestroyLocked(t) PROVE Tracked' \subseteq Tracked \cup interactable
  <2>1. CASE UNCHANGED <<gridVars, assignVars>>
    BY <2>1 DEF assignVars, Tracked
  <2>2. CASE /\ pinned' = pinned
             /\ UNION {windows'[x] : x \in WorkspaceId} = UNION {windows[x] : x \in WorkspaceId}
    <3>1. windowIndex = WindowsOf(windows) /\ windowIndex' = WindowsOf(windows')
      BY DEF HomeInv, OneHome
    <3>2. DOMAIN windowIndex = DOMAIN windowIndex'
      BY <2>2, <3>1 DEF WindowsOf
    <3> QED BY <2>2, <3>2 DEF Tracked
  <2> QED BY <1>4, <2>1, <2>2, DestroySteps DEF HomeInv, TypeInv
<1>5. CASE AppsRemoved
  BY <1>5 DEF AppsRemoved, Untrack, Restrict, assignVars, Tracked
<1>6. CASE UNCHANGED <<windows, windowIndex, pinned>>
  BY <1>6 DEF Tracked
<1> QED BY <1>1, <1>2, <1>3, <1>4, <1>5, <1>6, HomeSteps

\* No removal that is pending is forgotten, no window stops being interactable.
Quiet ==
  /\ \A w : RemovalPending(w) => RemovalPending(w)'
  /\ interactable \subseteq interactable' /\ removalMissed \subseteq removalMissed'

\* All steps are quiet but those that drop a window or deliver a removal.
LEMMA QuietSteps ==
  ASSUME TypeOK, [Next]_vars
  PROVE  Quiet \/ AppsRemoved \/ HookGone \/ \E w \in Window : RevalidateDrop(w)
<1>1. /\ call \in [Thread -> Call] /\ "hook" \in Thread /\ "apps" \in Thread
      /\ "boot" \in Thread /\ "reval" \in Thread /\ Caller \subseteq Thread
      /\ appsQueue \in Seq(AppsEvent)
  BY DEF TypeOK, Thread
<1>2. ASSUME NEW t \in Thread, NEW c, call' = [call EXCEPT ![t] = c], ~At(t, "announceRemoved"),
             appsQueue' = appsQueue, interactable \subseteq interactable',
             removalMissed' = removalMissed
      PROVE  Quiet
  BY <1>1, <1>2 DEF Quiet, RemovalPending, At
<1>3. ASSUME call' = call, appsQueue' = appsQueue, interactable' = interactable,
             removalMissed' = removalMissed
      PROVE  Quiet
  BY <1>3 DEF Quiet, RemovalPending, At
<1>4. ASSUME NEW t \in Thread, ~At(t, "announceRemoved"), UNCHANGED appsVars,
             removalMissed' = removalMissed,
             \/ call' = call \/ Return(t)
             \/ \E pc, w, x, m : Goto(t, pc, w, x, m)
             \/ \E w : BeginAdd(t, w)
      PROVE  Quiet
  BY <1>2, <1>3, <1>4 DEF Return, Goto, BeginAdd, appsVars
<1>5. CASE UNCHANGED vars
  BY <1>3, <1>5 DEF vars, bootVars, appsVars
<1>6. CASE Next
  <2>1. ASSUME NEW t \in Caller, NEW x \in WorkspaceId, BeginSwitch(t, x) \/ BeginDestroy(t, x)
        PROVE  Quiet
    BY <1>1, <1>4, <2>1 DEF BeginSwitch, BeginDestroy, bootVars, At
  <2>2. ASSUME NEW t \in Caller, NEW w \in Window, NEW x \in WorkspaceId, BeginSendTo(t, w, x)
        PROVE  Quiet
    BY <1>1, <1>4, <2>2 DEF BeginSendTo, bootVars, At
  <2>3. ASSUME NEW t \in Thread, SwitchLocked(t) PROVE Quiet
    BY <1>4, <2>3 DEF SwitchLocked, Stay, At
  <2>4. ASSUME NEW t \in Thread, AddLocked(t) \/ SwitchSettled(t) \/ SendLocked(t) \/ DestroyLocked(t)
        PROVE  Quiet
    BY <1>4, <2>4 DEF AddLocked, SwitchSettled, SendLocked, DestroyLocked, bootVars, At
  <2>5. ASSUME NEW t \in Thread, Announce(t) PROVE Quiet
    <3> DEFINE e == [kind |-> IF At(t, "announceAdded") THEN "added" ELSE "removed",
                     win  |-> call[t].win]
    <3>1. /\ appsQueue' = Append(appsQueue, e) /\ call' = [call EXCEPT ![t] = Idle]
          /\ interactable' = interactable /\ removalMissed' = removalMissed
      BY <2>5 DEF Announce, Return, bootVars
    <3>2. ASSUME NEW w, RemovalPending(w) PROVE RemovalPending(w)'
      <4>1. CASE \E i \in DOMAIN appsQueue : appsQueue[i] = [kind |-> "removed", win |-> w]
        <5> HIDE DEF e
        <5>1. \E j \in DOMAIN Append(appsQueue, e) :
                Append(appsQueue, e)[j] = [kind |-> "removed", win |-> w]
          BY <1>1, <4>1, StillQueued
        <5> QED BY <3>1, <5>1 DEF RemovalPending
      <4>2. CASE \E u \in Thread : u # t /\ At(u, "announceRemoved") /\ call[u].win = w
        <5>1. \E u \in Thread : call'[u].pc = "announceRemoved" /\ call'[u].win = w
          BY <1>1, <3>1, <4>2 DEF At
        <5> QED BY <5>1 DEF RemovalPending, At
      <4>3. CASE At(t, "announceRemoved") /\ call[t].win = w
        <5>1. e = [kind |-> "removed", win |-> w]
          BY <4>3 DEF At
        <5> HIDE DEF e
        <5>2. /\ Len(appsQueue) + 1 \in DOMAIN Append(appsQueue, e)
              /\ Append(appsQueue, e)[Len(appsQueue) + 1] = e
          BY <1>1
        <5> QED BY <3>1, <5>1, <5>2 DEF RemovalPending
      <4> QED BY <3>2, <4>1, <4>2, <4>3 DEF RemovalPending
    <3> QED BY <3>1, <3>2 DEF Quiet
  <2>6. CASE AppsAdded
    <3>1. /\ appsQueue' = Tail(appsQueue) /\ appsQueue # <<>> /\ Head(appsQueue).kind = "added"
          /\ At("apps", "idle") /\ UNCHANGED <<interactable, removalMissed>>
          /\ call' = call \/ \E m : call' = [call EXCEPT !["apps"] =
                               [pc |-> "adding", win |-> Head(appsQueue).win, ws |-> None, mon |-> m]]
      BY <2>6 DEF AppsAdded, BeginAdd, Goto, bootVars
    <3>2. ASSUME NEW w, RemovalPending(w) PROVE RemovalPending(w)'
      <4>1. CASE \E i \in DOMAIN appsQueue : appsQueue[i] = [kind |-> "removed", win |-> w]
        <5>1. Head(appsQueue) # [kind |-> "removed", win |-> w]
          BY <3>1
        <5>2. \E j \in DOMAIN Tail(appsQueue) :
                Tail(appsQueue)[j] = [kind |-> "removed", win |-> w]
          BY <1>1, <4>1, <5>1, StillQueued
        <5> QED BY <3>1, <5>2 DEF RemovalPending
      <4>2. CASE \E u \in Thread : At(u, "announceRemoved") /\ call[u].win = w
        <5>1. \E u \in Thread : call'[u].pc = "announceRemoved" /\ call'[u].win = w
          BY <1>1, <3>1, <4>2 DEF At
        <5> QED BY <5>1 DEF RemovalPending, At
      <4> QED BY <3>2, <4>1, <4>2 DEF RemovalPending
    <3> QED BY <3>1, <3>2 DEF Quiet
  <2>7. CASE HookMinimizeEnd
    BY <1>1, <1>4, <2>7 DEF HookMinimizeEnd, NextHookEvent, At
  <2>8. CASE ResolveUnminimized
    BY <1>1, <1>4, <2>8 DEF ResolveUnminimized, At
  <2>9. CASE HookRectChange
    BY <1>1, <1>4, <2>9 DEF HookRectChange, NextHookEvent, bootVars, At
  <2>10. CASE HookShow
    <3>1. /\ At("hook", "idle") /\ interactable \subseteq interactable'
          /\ UNCHANGED <<appsQueue, removalMissed>>
          /\ \/ call' = call /\ interactable' = interactable
             \/ \E c : call' = [call EXCEPT !["hook"] = c]
      BY <2>10 DEF HookShow, NextHookEvent, Goto, bootVars
    <3>2. ~At("hook", "announceRemoved")
      BY <3>1 DEF At
    <3> QED BY <1>1, <1>2, <1>3, <3>1, <3>2
  <2>11. ASSUME NEW m \in Monitor, NEW n \in Monitor, ViewAdded(m) \/ Connect(m) \/ Disconnect(m, n)
         PROVE  Quiet
    BY <1>3, <2>11 DEF ViewAdded, Connect, Disconnect, EnvUnchanged, bootVars, appsVars
  <2>12. ASSUME NEW w \in Window, BootScan(w) PROVE Quiet
    BY <1>1, <1>4, <2>12 DEF BootScan, At
  <2>13. ASSUME NEW w \in Window, RevalidateAdd(w) PROVE Quiet
    <3>1. /\ At("reval", "idle") /\ interactable \subseteq interactable'
          /\ UNCHANGED <<appsQueue, removalMissed>>
          /\ \E c : call' = [call EXCEPT !["reval"] = c]
      BY <2>13 DEF RevalidateAdd, Goto, bootVars
    <3>2. ~At("reval", "announceRemoved")
      BY <3>1 DEF At
    <3> QED BY <1>1, <1>2, <3>1, <3>2
  <2>14. ASSUME NEW w \in Window,
                \/ UserMinimize(w) \/ UserUnminimize(w) \/ RectSettled(w)
                \/ WinShow(w) \/ WinHide(w) \/ WinClose(w)
         PROVE  Quiet
    BY <1>3, <2>14 DEF UserMinimize, UserUnminimize, RectSettled, WinShow, WinHide, WinClose,
                       EnvUnchanged, bootVars, appsVars
  <2>15. ASSUME NEW w \in Window, NEW m \in Monitor, MoveWindow(w, m) PROVE Quiet
    BY <1>3, <2>15 DEF MoveWindow, EnvUnchanged, bootVars, appsVars
  <2>16. ASSUME NEW t \in Caller, NEW m \in Monitor, NEW asRow \in BOOLEAN,
                CreateDesktop(t, m, asRow)
         PROVE  Quiet
    BY <1>3, <2>16 DEF CreateDesktop, bootVars, appsVars
  <2>17. CASE BootSubscribe
    BY <1>1, <1>3, <2>17 DEF BootSubscribe, appsVars
  <2> QED BY <1>6, <2>1, <2>2, <2>3, <2>4, <2>5, <2>6, <2>7, <2>8, <2>9, <2>10, <2>11, <2>12,
             <2>13, <2>14, <2>15, <2>16, <2>17, StepCases
<1> QED BY <1>5, <1>6

\* A pending removal stays pending until it is delivered.
LEMMA RemovalsKept ==
  ASSUME TypeOK, [Next]_vars, NEW w, RemovalPending(w),
         ~(AppsRemoved /\ Head(appsQueue).win = w)
  PROVE  RemovalPending(w)'
<1>1. call \in [Thread -> Call] /\ "hook" \in Thread /\ appsQueue \in Seq(AppsEvent)
  BY DEF TypeOK, Thread
<1>2. CASE Quiet
  BY <1>2 DEF Quiet
<1>3. CASE HookGone
  <2>1. /\ At("hook", "idle") /\ appsQueue' = appsQueue
        /\ call' = call \/ \E c : call' = [call EXCEPT !["hook"] = c]
    BY <1>3 DEF HookGone, NextHookEvent, Goto
  <2> QED BY <1>1, <2>1 DEF RemovalPending, At
<1>4. ASSUME NEW v \in Window, RevalidateDrop(v) PROVE RemovalPending(w)'
  <2> DEFINE e == [kind |-> "removed", win |-> v]
  <2>1. appsQueue' = Append(appsQueue, e) /\ call' = call
    BY <1>4 DEF RevalidateDrop
  <2> HIDE DEF e
  <2>2. CASE \E i \in DOMAIN appsQueue : appsQueue[i] = [kind |-> "removed", win |-> w]
    <3>1. \E j \in DOMAIN Append(appsQueue, e) :
            Append(appsQueue, e)[j] = [kind |-> "removed", win |-> w]
      BY <1>1, <2>2, StillQueued
    <3> QED BY <2>1, <3>1 DEF RemovalPending
  <2>3. CASE \E u \in Thread : At(u, "announceRemoved") /\ call[u].win = w
    BY <2>1, <2>3 DEF RemovalPending, At
  <2> QED BY <2>2, <2>3 DEF RemovalPending
<1>5. CASE AppsRemoved /\ Head(appsQueue).win # w
  <2>1. appsQueue' = Tail(appsQueue) /\ call' = call
    BY <1>5 DEF AppsRemoved
  <2>2. CASE \E i \in DOMAIN appsQueue : appsQueue[i] = [kind |-> "removed", win |-> w]
    <3>1. Head(appsQueue) # [kind |-> "removed", win |-> w]
      BY <1>5
    <3>2. \E j \in DOMAIN Tail(appsQueue) :
            Tail(appsQueue)[j] = [kind |-> "removed", win |-> w]
      BY <1>1, <2>2, <3>1, StillQueued
    <3> QED BY <2>1, <3>2 DEF RemovalPending
  <2>3. CASE \E u \in Thread : At(u, "announceRemoved") /\ call[u].win = w
    BY <2>1, <2>3 DEF RemovalPending, At
  <2> QED BY <2>2, <2>3 DEF RemovalPending
<1> QED BY <1>2, <1>3, <1>4, <1>5, QuietSteps

LEMMA GhostsPreserved ==
  ASSUME HomeInv, HomeInv', NoGhostWindows, [Next]_vars
  PROVE  NoGhostWindows'
<1>1. /\ call \in [Thread -> Call] /\ "hook" \in Thread /\ appsQueue \in Seq(AppsEvent)
      /\ Tracked' \subseteq Tracked \cup interactable /\ TypeOK
  BY TrackedSteps DEF HomeInv, TypeInv, TypeOK, Thread
<1>2. CASE AppsRemoved
  <2> PICK v : v = Head(appsQueue).win
    OBVIOUS
  <2>1. /\ interactable' = interactable
        /\ \/ Untrack(v) /\ removalMissed' = removalMissed \ {v}
           \/ UNCHANGED assignVars /\ removalMissed' = removalMissed \cup {v}
    BY <1>2 DEF AppsRemoved
  <2>2. \A w : w # v /\ RemovalPending(w) => RemovalPending(w)'
    BY <1>1, RemovalsKept
  <2>3. v \in Tracked' => v \in removalMissed'
    BY <2>1 DEF Untrack, Restrict, Tracked
  <2>4. Tracked' \subseteq Tracked /\ removalMissed \ {v} \subseteq removalMissed'
    BY <2>1 DEF Untrack, Restrict, assignVars, Tracked
  <2> QED BY <2>1, <2>2, <2>3, <2>4 DEF NoGhostWindows
<1>3. CASE ~AppsRemoved
  <2>1. \A w : RemovalPending(w) => RemovalPending(w)'
    BY <1>1, <1>3, RemovalsKept
  <2>2. CASE Quiet
    BY <1>1, <2>2 DEF NoGhostWindows, Quiet
  <2>3. CASE HookGone
    <3> PICK v : v = Head(hookQueue).win
      OBVIOUS
    <3>1. /\ removalMissed' = removalMissed /\ Tracked' = Tracked
          /\ \/ interactable' = interactable
             \/ /\ interactable' = interactable \ {v}
                /\ call' = [call EXCEPT !["hook"] =
                              [pc |-> "announceRemoved", win |-> v, ws |-> None, mon |-> None]]
      BY <2>3 DEF HookGone, Goto, bootVars, assignVars, Tracked
    <3>2. interactable' = interactable \/ RemovalPending(v)'
      BY <1>1, <3>1 DEF RemovalPending, At
    <3> QED BY <2>1, <3>1, <3>2 DEF NoGhostWindows
  <2>4. ASSUME NEW v \in Window, RevalidateDrop(v) PROVE NoGhostWindows'
    <3> DEFINE e == [kind |-> "removed", win |-> v]
    <3>1. /\ interactable' = interactable \ {v} /\ appsQueue' = Append(appsQueue, e)
          /\ removalMissed' = removalMissed /\ Tracked' = Tracked
      BY <2>4 DEF RevalidateDrop, bootVars, managerVars, assignVars, Tracked
    <3> HIDE DEF e
    <3>2. RemovalPending(v)'
      <4>1. /\ Len(appsQueue) + 1 \in DOMAIN Append(appsQueue, e)
            /\ Append(appsQueue, e)[Len(appsQueue) + 1] = e
        BY <1>1
      <4> QED BY <3>1, <4>1 DEF RemovalPending, e
    <3> QED BY <2>1, <3>1, <3>2 DEF NoGhostWindows
  <2> QED BY <1>1, <1>3, <2>2, <2>3, <2>4, QuietSteps
<1> QED BY <1>2, <1>3

LEMMA GhostsInitially ==
  ASSUME Init
  PROVE  NoGhostWindows
<1>1. /\ pinned \subseteq shown /\ interactable = shown
      /\ \A x \in WorkspaceId : windows[x] \subseteq shown
  BY DEF Init
<1>2. DOMAIN windowIndex = UNION {windows[x] : x \in WorkspaceId}
  BY TypesInitially, HomesInitially, HomeOf DEF TypeInv
<1> QED BY <1>1, <1>2 DEF NoGhostWindows, Tracked

\* A tracked window that is not interactable any more has its removal on its way, unless
\* that was announced before VdManager subscribed: no order of the hook dispatcher, the
\* revalidator, the start-up scan and the additions leaves a ghost behind.
THEOREM NoGhostsAreLeft == Spec => []NoGhostWindows
<1>1. Init => NoGhostWindows
  BY GhostsInitially
<1>2. HomeInv /\ HomeInv' /\ NoGhostWindows /\ [Next]_vars => NoGhostWindows'
  BY GhostsPreserved
<1> QED BY <1>1, <1>2, HomeInvHolds, PTL DEF Spec

-----------------------------------------------------------------------------
(* The unminimize events of a window *)

Unminimized == {"unminimizedByUser", "unminimizedByRestore"}

Reports(q, w) == {i \in DOMAIN q : q[i].win = w /\ q[i].kind \in Unminimized}

\* How many of them wait in q.
Reported(q, w) == Cardinality(Reports(q, w))

LEMMA ReportsFinite ==
  ASSUME NEW S, NEW q \in Seq(S), NEW w
  PROVE  IsFiniteSet(Reports(q, w)) /\ Reported(q, w) \in Nat
<1>1. DOMAIN q = 1..Len(q) /\ Len(q) \in Nat
  OBVIOUS
<1>2. IsFiniteSet(DOMAIN q)
  BY <1>1, FS_Interval
<1>3. IsFiniteSet(Reports(q, w))
  BY <1>2, FS_Subset DEF Reports
<1> QED BY <1>3, FS_CardinalityType DEF Reported

\* An event more, or a finished one less.
LEMMA ReportsAppended ==
  ASSUME NEW S, NEW q \in Seq(S), NEW e, NEW w
  PROVE  /\ e.win = w /\ e.kind \in Unminimized =>
              Reported(Append(q, e), w) = Reported(q, w) + 1
         /\ ~(e.win = w /\ e.kind \in Unminimized) =>
              Reported(Append(q, e), w) = Reported(q, w)
<1>1. /\ Len(q) \in Nat /\ DOMAIN q = 1..Len(q)
      /\ DOMAIN Append(q, e) = 1..(Len(q) + 1)
      /\ Append(q, e)[Len(q) + 1] = e
      /\ \A i \in 1..Len(q) : Append(q, e)[i] = q[i]
  OBVIOUS
<1>2. CASE e.win = w /\ e.kind \in Unminimized
  <2>1. /\ Reports(Append(q, e), w) = Reports(q, w) \cup {Len(q) + 1}
        /\ Len(q) + 1 \notin Reports(q, w)
    BY <1>1, <1>2 DEF Reports
  <2> QED BY <1>2, <2>1, ReportsFinite, FS_AddElement DEF Reported
<1>3. CASE ~(e.win = w /\ e.kind \in Unminimized)
  <2>1. Reports(Append(q, e), w) = Reports(q, w)
    BY <1>1, <1>3 DEF Reports
  <2> QED BY <1>3, <2>1 DEF Reported
<1> QED BY <1>2, <1>3

LEMMA ReportsTaken ==
  ASSUME NEW S, NEW q \in Seq(S), q # <<>>, NEW w
  PROVE  /\ Head(q).win = w /\ Head(q).kind \in Unminimized =>
              Reported(q, w) = Reported(Tail(q), w) + 1
         /\ ~(Head(q).win = w /\ Head(q).kind \in Unminimized) =>
              Reported(Tail(q), w) = Reported(q, w)
<1>1. /\ Len(q) \in Nat \ {0} /\ DOMAIN q = 1..Len(q) /\ Head(q) = q[1]
      /\ Tail(q) \in Seq(S) /\ DOMAIN Tail(q) = 1..(Len(q) - 1)
      /\ \A i \in 1..(Len(q) - 1) : Tail(q)[i] = q[i + 1]
  OBVIOUS
<1> DEFINE later == Reports(q, w) \ {1}
           f     == [i \in Reports(Tail(q), w) |-> i + 1]
<1>2. f \in Bijection(Reports(Tail(q), w), later)
  <2>1. ASSUME NEW i \in Reports(Tail(q), w) PROVE i \in Int /\ i + 1 \in later
    BY <1>1, <2>1 DEF Reports
  <2>2. f \in [Reports(Tail(q), w) -> later]
    BY <2>1
  <2>3. \A i, j \in Reports(Tail(q), w) : f[i] = f[j] => i = j
    BY <2>1
  <2>4. ASSUME NEW j \in later PROVE \E i \in Reports(Tail(q), w) : f[i] = j
    <3>1. j \in 2..Len(q) /\ j - 1 \in 1..(Len(q) - 1) /\ Tail(q)[j - 1] = q[j]
      BY <1>1, <2>4 DEF Reports
    <3>2. j - 1 \in Reports(Tail(q), w)
      BY <1>1, <2>4, <3>1 DEF Reports
    <3> QED BY <3>1, <3>2
  <2> HIDE DEF f, later
  <2>5. f \in Injection(Reports(Tail(q), w), later)
    BY <2>2, <2>3 DEF Injection, IsInjective
  <2>6. f \in Surjection(Reports(Tail(q), w), later)
    BY <2>2, <2>4 DEF Surjection
  <2> QED BY <2>5, <2>6 DEF Bijection
<1> HIDE DEF f, later
<1>3. Cardinality(later) = Reported(Tail(q), w)
  BY <1>1, <1>2, ReportsFinite, FS_Bijection DEF ExistsBijection, Reported
<1>4. CASE Head(q).win = w /\ Head(q).kind \in Unminimized
  <2>1. 1 \in Reports(q, w)
    BY <1>1, <1>4 DEF Reports
  <2>2. Cardinality(later) = Reported(q, w) - 1
    BY <2>1, ReportsFinite, FS_RemoveElement DEF later, Reported
  <2> QED BY <1>3, <1>4, <2>2, ReportsFinite
<1>5. CASE ~(Head(q).win = w /\ Head(q).kind \in Unminimized)
  <2>1. later = Reports(q, w)
    BY <1>1, <1>5 DEF Reports, later
  <2> QED BY <1>3, <1>5, <2>1 DEF Reported
<1> QED BY <1>4, <1>5

\* Events added at the end: those before stay, and those of w are more if it is there.
LEMMA ReportsJoined ==
  ASSUME NEW S, NEW q \in Seq(S), NEW p \in Seq(S), NEW w
  PROVE  /\ Reported(q, w) <= Reported(q \o p, w)
         /\ Reports(p, w) # {} => Reported(q, w) + 1 <= Reported(q \o p, w)
<1>1. /\ Len(q) \in Nat /\ Len(p) \in Nat /\ DOMAIN q = 1..Len(q) /\ DOMAIN p = 1..Len(p)
      /\ q \o p \in Seq(S) /\ DOMAIN (q \o p) = 1..(Len(q) + Len(p))
      /\ \A i \in 1..Len(q) : (q \o p)[i] = q[i]
      /\ \A i \in 1..Len(p) : (q \o p)[Len(q) + i] = p[i]
  OBVIOUS
<1>2. Reports(q, w) \subseteq Reports(q \o p, w)
  BY <1>1 DEF Reports
<1>3. /\ IsFiniteSet(Reports(q, w)) /\ Reported(q, w) \in Nat
      /\ IsFiniteSet(Reports(q \o p, w)) /\ Reported(q \o p, w) \in Nat
  BY <1>1, ReportsFinite
<1>4. Reported(q, w) <= Reported(q \o p, w)
  BY <1>2, <1>3, FS_Subset DEF Reported
<1>5. ASSUME NEW i \in Reports(p, w) PROVE Reported(q, w) + 1 <= Reported(q \o p, w)
  <2>1. i \in 1..Len(p) /\ Len(q) + i \in 1..(Len(q) + Len(p))
    BY <1>1, <1>5 DEF Reports
  <2>2. Len(q) + i \in Reports(q \o p, w) /\ Len(q) + i \notin Reports(q, w)
    BY <1>1, <1>5, <2>1 DEF Reports
  <2>3. Reports(q, w) \cup {Len(q) + i} \subseteq Reports(q \o p, w)
    BY <1>2, <2>2
  <2>4. Cardinality(Reports(q, w) \cup {Len(q) + i}) = Reported(q, w) + 1
    BY <1>3, <2>2, FS_AddElement DEF Reported
  <2> QED BY <1>3, <2>3, <2>4, FS_Subset DEF Reported
<1> QED BY <1>4, <1>5

\* restore() announces each window in RESTORED_EVENT_QUEUE, and each then reports.
LEMMA RestoresReported ==
  ASSUME TypeOK, NEW p, NEW n, HideThenRestore(p, n), NEW w \in Window
  PROVE  \E k \in {0, 1} : /\ restored'[w] = restored[w] + k
                           /\ Reported(hookQueue, w) + k <= Reported(hookQueue', w)
<1> DEFINE hidden == {v \in p : v \in alive \ minimized}
           back   == {v \in n : v \in (minimized \cup hidden) \cap (marks \cup hidden)}
<1>1. /\ restored' = [v \in Window |-> restored[v] + IF v \in back THEN 1 ELSE 0]
      /\ \E order \in SetToSeqs(back) :
           hookQueue' = hookQueue \o
             [i \in DOMAIN order |-> [kind |-> "unminimizedByRestore", win |-> order[i]]]
  BY DEF HideThenRestore
<1>2. back \subseteq Window
  BY DEF TypeOK
<1> HIDE DEF hidden, back
<1>3. PICK order \in SetToSeqs(back) :
        hookQueue' = hookQueue \o
          [i \in DOMAIN order |-> [kind |-> "unminimizedByRestore", win |-> order[i]]]
  BY <1>1
<1> DEFINE size == Cardinality(back)
           echo == [i \in DOMAIN order |-> [kind |-> "unminimizedByRestore", win |-> order[i]]]
<1>4. IsFiniteSet(back) /\ size \in Nat
  BY <1>2, ConstantsAssumption, FS_Subset, FS_CardinalityType
<1>5. order \in [1..size -> back] /\ \A i, j \in 1..size : i # j => order[i] # order[j]
  BY DEF SetToSeqs
<1>6. \A v \in back : \E i \in 1..size : order[i] = v
  <2>1. order \in Injection(1..size, back)
    BY <1>5 DEF Injection, IsInjective
  <2>2. Cardinality(1..size) = size
    BY <1>4, FS_Interval
  <2>3. order \in Surjection(1..size, back)
    BY <1>4, <2>1, <2>2, FS_Injection
  <2> QED BY <2>3 DEF Surjection
<1> HIDE DEF size
<1>7. hookQueue \in Seq(HookEvent) /\ echo \in Seq(HookEvent)
  <2>1. echo \in [1..size -> HookEvent]
    BY <1>2, <1>5 DEF HookEvent
  <2> HIDE DEF echo
  <2> QED BY <1>4, <2>1, SeqDef DEF TypeOK
<1>8. w \in back => Reports(echo, w) # {}
  <2>1. ASSUME NEW i \in 1..size, order[i] = w PROVE i \in Reports(echo, w)
    BY <1>5, <2>1 DEF Reports, Unminimized
  <2> HIDE DEF echo
  <2> QED BY <1>6, <2>1
<1>9. hookQueue' = hookQueue \o echo
  BY <1>3
<1> HIDE DEF echo
<1>10. /\ Reported(hookQueue, w) <= Reported(hookQueue', w)
       /\ w \in back => Reported(hookQueue, w) + 1 <= Reported(hookQueue', w)
  BY <1>7, <1>8, <1>9, ReportsJoined
<1>11. Reported(hookQueue, w) \in Nat /\ restored[w] \in Nat
  BY <1>7, ReportsFinite DEF TypeOK
<1>12. CASE w \in back
  BY <1>1, <1>10, <1>11, <1>12
<1>13. CASE w \notin back
  BY <1>1, <1>10, <1>11, <1>13
<1> QED BY <1>12, <1>13

-----------------------------------------------------------------------------
(* Before VdManager subscribes *)

\* Until create has subscribed nothing is restored, and no thread switches or sends.
BeforeBoot ==
  \/ booted
  \/ /\ \A w \in Window : restored[w] = 0
     /\ \A t \in Thread :
          call[t].pc \in {"idle", "adding", "announceAdded", "announceRemoved"}

LEMMA BeforeBootPreserved ==
  ASSUME TypeOK, BeforeBoot, [Next]_vars
  PROVE  BeforeBoot'
<1> DEFINE Early == {"idle", "adding", "announceAdded", "announceRemoved"}
<1>1. /\ call \in [Thread -> Call] /\ "hook" \in Thread /\ "apps" \in Thread
      /\ "boot" \in Thread /\ "reval" \in Thread /\ Caller \subseteq Thread
  BY DEF TypeOK, Thread
<1>2. ASSUME booted' = booted, restored' = restored,
             \/ call' = call
             \/ \E t \in Thread : Return(t)
             \/ \E t \in Thread, pc \in Early : \E w, x, m : Goto(t, pc, w, x, m)
             \/ \E t \in Thread : \E w : BeginAdd(t, w)
      PROVE  BeforeBoot'
  <2>1. ASSUME NEW t \in Thread, NEW c, call' = [call EXCEPT ![t] = c], c.pc \in Early
        PROVE  BeforeBoot'
    BY <1>1, <1>2, <2>1 DEF BeforeBoot
  <2>2. CASE call' = call
    BY <1>2, <2>2 DEF BeforeBoot
  <2>3. ASSUME NEW t \in Thread, Return(t) PROVE BeforeBoot'
    BY <2>1, <2>3 DEF Return, Idle
  <2>4. ASSUME NEW t \in Thread, NEW pc \in Early, NEW w, NEW x, NEW m, Goto(t, pc, w, x, m)
        PROVE  BeforeBoot'
    BY <2>1, <2>4 DEF Goto
  <2>5. ASSUME NEW t \in Thread, NEW w, BeginAdd(t, w) PROVE BeforeBoot'
    BY <2>4, <2>5 DEF BeginAdd
  <2> QED BY <1>2, <2>2, <2>3, <2>4, <2>5
<1>3. ASSUME booted, booted' = booted PROVE BeforeBoot'
  BY <1>3 DEF BeforeBoot
<1>4. ASSUME NEW t \in Thread, ~booted
      PROVE  /\ ~At(t, "switching") /\ ~At(t, "settling") /\ ~At(t, "sending")
             /\ ~At(t, "destroying") /\ ~At(t, "resolving")
  BY <1>4 DEF BeforeBoot, At
<1>5. CASE UNCHANGED vars
  BY <1>5 DEF vars, managerVars, hideVars, bootVars, BeforeBoot
<1>6. CASE Next
  <2>1. ASSUME NEW t \in Caller, NEW x \in WorkspaceId, BeginSwitch(t, x) \/ BeginDestroy(t, x)
        PROVE  BeforeBoot'
    BY <1>3, <2>1 DEF BeginSwitch, BeginDestroy, bootVars
  <2>2. ASSUME NEW t \in Caller, NEW w \in Window, NEW x \in WorkspaceId, BeginSendTo(t, w, x)
        PROVE  BeforeBoot'
    BY <1>3, <2>2 DEF BeginSendTo, bootVars
  <2>3. ASSUME NEW t \in Thread,
               SwitchLocked(t) \/ SwitchSettled(t) \/ SendLocked(t) \/ DestroyLocked(t)
        PROVE  BeforeBoot'
    <3>1. booted
      BY <1>4, <2>3 DEF SwitchLocked, SwitchSettled, SendLocked, DestroyLocked
    <3>2. booted' = booted
      BY <2>3 DEF SwitchLocked, SwitchSettled, SendLocked, DestroyLocked, bootVars
    <3> QED BY <1>3, <3>1, <3>2
  <2>4. ASSUME NEW t \in Thread, AddLocked(t) \/ Announce(t) PROVE BeforeBoot'
    BY <1>2, <2>4 DEF AddLocked, Announce, bootVars, hideVars, managerVars
  <2>5. CASE AppsAdded \/ AppsRemoved
    BY <1>1, <1>2, <2>5 DEF AppsAdded, AppsRemoved, bootVars, hideVars, managerVars
  <2>6. CASE HookMinimizeEnd
    BY <1>2, <1>3, <2>6 DEF HookMinimizeEnd
  <2>7. CASE ResolveUnminimized
    BY <1>1, <1>3, <1>4, <2>7 DEF ResolveUnminimized
  <2>8. CASE HookRectChange
    BY <1>2, <1>3, <2>8 DEF HookRectChange, bootVars, hideVars, managerVars
  <2>9. CASE HookShow
    BY <1>1, <1>2, <2>9 DEF HookShow, bootVars, hideVars, managerVars
  <2>10. CASE HookGone
    BY <1>1, <1>2, <1>3, <2>10 DEF HookGone, bootVars, hideVars
  <2>11. ASSUME NEW m \in Monitor, NEW n \in Monitor, ViewAdded(m) \/ Connect(m) \/ Disconnect(m, n)
         PROVE  BeforeBoot'
    BY <1>2, <2>11 DEF ViewAdded, Connect, Disconnect, EnvUnchanged, bootVars, hideVars,
                       managerVars
  <2>12. ASSUME NEW w \in Window, BootScan(w) \/ RevalidateDrop(w) \/ RevalidateAdd(w)
         PROVE  BeforeBoot'
    BY <1>1, <1>2, <2>12 DEF BootScan, RevalidateDrop, RevalidateAdd, bootVars, hideVars,
                             managerVars
  <2>13. ASSUME NEW w \in Window,
                \/ UserMinimize(w) \/ UserUnminimize(w) \/ RectSettled(w)
                \/ WinShow(w) \/ WinHide(w) \/ WinClose(w)
         PROVE  BeforeBoot'
    BY <1>2, <2>13 DEF UserMinimize, UserUnminimize, RectSettled, WinShow, WinHide, WinClose,
                       EnvUnchanged, bootVars, hideVars, managerVars
  <2>14. ASSUME NEW w \in Window, NEW m \in Monitor, MoveWindow(w, m) PROVE BeforeBoot'
    BY <1>2, <2>14 DEF MoveWindow, EnvUnchanged, bootVars, hideVars, managerVars
  <2>15. ASSUME NEW t \in Caller, NEW m \in Monitor, NEW asRow \in BOOLEAN,
                CreateDesktop(t, m, asRow)
         PROVE  BeforeBoot'
    BY <1>2, <2>15 DEF CreateDesktop, bootVars, hideVars
  <2>16. CASE BootSubscribe
    BY <2>16 DEF BootSubscribe, BeforeBoot
  <2> QED BY <1>6, <2>1, <2>2, <2>3, <2>4, <2>5, <2>6, <2>7, <2>8, <2>9, <2>10, <2>11, <2>12,
             <2>13, <2>14, <2>15, <2>16, StepCases
<1> QED BY <1>5, <1>6

-----------------------------------------------------------------------------
(* The queue of the hook dispatcher *)

\* Which steps put events in it or take them out.
LEMMA QueueSteps ==
  ASSUME [Next]_vars
  PROVE  \/ /\ UNCHANGED <<hookQueue, restored, alive>>
            /\ interactable' \subseteq interactable \cup shown
         \/ \E t \in Thread : SwitchLocked(t) \/ DestroyLocked(t)
         \/ HookMinimizeEnd \/ HookRectChange \/ HookShow \/ HookGone
         \/ \E w \in Window : \/ UserUnminimize(w) \/ RectSettled(w)
                              \/ WinShow(w) \/ WinHide(w) \/ WinClose(w)
<1> DEFINE Still == /\ UNCHANGED <<hookQueue, restored, alive>>
                    /\ interactable' \subseteq interactable \cup shown
<1>1. CASE UNCHANGED vars
  BY <1>1 DEF vars, managerVars, hideVars, appsVars, worldVars, osVars
<1>2. CASE Next
  <2>1. ASSUME NEW t \in Caller, NEW x \in WorkspaceId, BeginSwitch(t, x) \/ BeginDestroy(t, x)
        PROVE  Still
    BY <2>1 DEF BeginSwitch, BeginDestroy, managerVars, hideVars, appsVars, worldVars, osVars
  <2>2. ASSUME NEW t \in Caller, NEW w \in Window, NEW x \in WorkspaceId, BeginSendTo(t, w, x)
        PROVE  Still
    BY <2>2 DEF BeginSendTo, managerVars, hideVars, appsVars, worldVars, osVars
  <2>3. ASSUME NEW t \in Thread, AddLocked(t) \/ SwitchSettled(t) \/ SendLocked(t) \/ Announce(t)
        PROVE  Still
    BY <2>3 DEF AddLocked, SwitchSettled, SendLocked, Announce, managerVars, hideVars, appsVars,
                worldVars, osVars
  <2>4. CASE AppsAdded \/ AppsRemoved \/ BootSubscribe \/ ResolveUnminimized
    BY <2>4 DEF AppsAdded, AppsRemoved, BootSubscribe, ResolveUnminimized, managerVars,
                hideVars, appsVars, worldVars, osVars
  <2>5. ASSUME NEW m \in Monitor, NEW n \in Monitor, ViewAdded(m) \/ Connect(m) \/ Disconnect(m, n)
        PROVE  Still
    BY <2>5 DEF ViewAdded, Connect, Disconnect, EnvUnchanged, managerVars, hideVars, appsVars,
                osVars
  <2>6. ASSUME NEW w \in Window,
               BootScan(w) \/ RevalidateDrop(w) \/ RevalidateAdd(w) \/ UserMinimize(w)
        PROVE  Still
    BY <2>6 DEF BootScan, RevalidateDrop, RevalidateAdd, UserMinimize, EnvUnchanged,
                managerVars, hideVars, appsVars, worldVars, osVars
  <2>7. ASSUME NEW w \in Window, NEW m \in Monitor, MoveWindow(w, m) PROVE Still
    BY <2>7 DEF MoveWindow, EnvUnchanged, managerVars, hideVars, appsVars
  <2>8. ASSUME NEW t \in Caller, NEW m \in Monitor, NEW asRow \in BOOLEAN,
               CreateDesktop(t, m, asRow)
        PROVE  Still
    BY <2>8 DEF CreateDesktop, hideVars, appsVars, worldVars, osVars
  <2> QED BY <1>2, <2>1, <2>2, <2>3, <2>4, <2>5, <2>6, <2>7, <2>8, StepCases
<1> QED BY <1>1, <1>2

\* Every entry of RESTORED_EVENT_QUEUE has its event in the queue.
ReportsCounted == \A w \in Window : restored[w] <= Reported(hookQueue, w)

\* One of the events of w will not be taken for an echo.
UserEvent(w) == restored[w] < Reported(hookQueue, w)

\* Such an event is not lost before the dispatcher takes it.
LEMMA ReportsKept ==
  ASSUME TypeOK, TypeOK', BeforeBoot, ReportsCounted, [Next]_vars, NEW w \in Window
  PROVE  /\ restored'[w] <= Reported(hookQueue', w)
         /\ UserEvent(w) => \/ UserEvent(w)'
                            \/ /\ HookMinimizeEnd /\ Head(hookQueue).win = w
                               /\ booted => restored[w] = 0
<1> DEFINE Kept == restored'[w] + Reported(hookQueue, w) <= restored[w] + Reported(hookQueue', w)
           Done == /\ restored'[w] <= Reported(hookQueue', w)
                   /\ UserEvent(w) => \/ UserEvent(w)'
                                      \/ /\ HookMinimizeEnd /\ Head(hookQueue).win = w
                                         /\ booted => restored[w] = 0
<1>1. /\ hookQueue \in Seq(HookEvent) /\ hookQueue' \in Seq(HookEvent)
      /\ restored \in [Window -> Nat] /\ restored' \in [Window -> Nat]
  BY DEF TypeOK
<1>2. /\ Reported(hookQueue, w) \in Nat /\ Reported(hookQueue', w) \in Nat
      /\ restored[w] \in Nat /\ restored'[w] \in Nat /\ restored[w] <= Reported(hookQueue, w)
  BY <1>1, ReportsFinite DEF ReportsCounted
<1>3. Kept => Done
  BY <1>2 DEF UserEvent
<1>4. CASE UNCHANGED <<hookQueue, restored>>
  BY <1>2, <1>3, <1>4
<1>5. ASSUME NEW p, NEW n, HideThenRestore(p, n) PROVE Done
  <2>1. \E k \in {0, 1} : /\ restored'[w] = restored[w] + k
                          /\ Reported(hookQueue, w) + k <= Reported(hookQueue', w)
    BY <1>5, RestoresReported
  <2> QED BY <1>2, <1>3, <2>1
<1>6. ASSUME NEW t \in Thread, SwitchLocked(t) \/ DestroyLocked(t) PROVE Done
  BY <1>4, <1>5, <1>6 DEF SwitchLocked, DestroyLocked, Stay, hideVars
<1>7. ASSUME NEW kind, NEW v, kind \notin Unminimized, Emit(kind, v), restored' = restored
      PROVE  Done
  <2>1. Reported(hookQueue', w) = Reported(hookQueue, w)
    BY <1>1, <1>7, ReportsAppended DEF Emit
  <2> QED BY <1>2, <1>3, <1>7, <2>1
<1>8. ASSUME NEW v \in Window, UserUnminimize(v) PROVE Done
  <2> DEFINE e == [kind |-> "unminimizedByUser", win |-> v]
  <2>1. hookQueue' = Append(hookQueue, e) /\ restored' = restored
    BY <1>8 DEF UserUnminimize, Emit, EnvUnchanged, managerVars, hideVars
  <2>2. Reported(hookQueue, w) <= Reported(hookQueue', w)
    <3> HIDE DEF e
    <3> QED BY <1>1, <1>2, <2>1, ReportsAppended
  <2> QED BY <1>2, <1>3, <2>1, <2>2
<1>9. ASSUME NEW v \in Window, RectSettled(v) \/ WinShow(v) \/ WinHide(v) \/ WinClose(v)
      PROVE  Done
  BY <1>7, <1>9 DEF RectSettled, WinShow, WinHide, WinClose, EnvUnchanged, managerVars, hideVars,
                    Unminimized
<1>10. CASE HookRectChange \/ HookShow \/ HookGone
  <2>1. /\ hookQueue # <<>> /\ hookQueue' = Tail(hookQueue)
        /\ Head(hookQueue).kind \notin Unminimized
    BY <1>10 DEF HookRectChange, HookShow, HookGone, NextHookEvent, Unminimized
  <2>2. Reported(hookQueue', w) = Reported(hookQueue, w)
    BY <1>1, <2>1, ReportsTaken
  <2>3. restored'[w] = restored[w] \/ restored'[w] = 0
    BY <1>1, <1>10 DEF HookRectChange, HookShow, HookGone, managerVars, hideVars
  <2> QED BY <1>2, <1>3, <2>2, <2>3
<1>11. CASE HookMinimizeEnd
  <2> PICK v : v = Head(hookQueue).win
    OBVIOUS
  <2>1. /\ hookQueue # <<>> /\ hookQueue' = Tail(hookQueue)
        /\ Head(hookQueue).kind \in Unminimized
        /\ \/ booted /\ restored[v] > 0 /\ restored' = [restored EXCEPT ![v] = @ - 1]
           \/ booted /\ restored[v] = 0 /\ restored' = restored
           \/ ~booted /\ restored' = restored
    BY <1>11 DEF HookMinimizeEnd, NextHookEvent, Unminimized, ConsumeEntry
  <2>2. CASE v # w
    <3>1. Reported(hookQueue', w) = Reported(hookQueue, w) /\ restored'[w] = restored[w]
      BY <1>1, <2>1, <2>2, ReportsTaken
    <3> QED BY <1>2, <1>3, <3>1
  <2>3. CASE v = w
    <3>1. Reported(hookQueue, w) = Reported(hookQueue', w) + 1
      BY <1>1, <2>1, <2>3, ReportsTaken
    <3>2. CASE booted /\ restored[w] > 0
      <4>1. restored'[w] = restored[w] - 1
        BY <1>1, <2>1, <2>3, <3>2
      <4> QED BY <1>2, <1>3, <3>1, <4>1
    <3>3. CASE ~(booted /\ restored[w] > 0)
      <4>1. restored'[w] = restored[w]
        BY <2>1, <2>3, <3>3
      <4>2. restored[w] = 0
        BY <1>2, <3>3 DEF BeforeBoot
      <4> QED BY <1>2, <1>11, <2>3, <4>1, <4>2
    <3> QED BY <3>2, <3>3
  <2> QED BY <2>2, <2>3
<1> QED BY <1>4, <1>6, <1>8, <1>9, <1>10, <1>11, QueueSteps

\* e waits in q.
Waits(q, e) == \E i \in DOMAIN q : q[i] = e

LEMMA WaitsChanged ==
  ASSUME NEW S, NEW q \in Seq(S), NEW e
  PROVE  /\ \A f : Waits(Append(q, f), e) <=> Waits(q, e) \/ f = e
         /\ q # <<>> => /\ Waits(Tail(q), e) => Waits(q, e)
                        /\ Waits(q, e) /\ Head(q) # e => Waits(Tail(q), e)
         /\ \A p \in Seq(S) : Waits(q \o p, e) <=> Waits(q, e) \/ Waits(p, e)
<1>1. Len(q) \in Nat /\ DOMAIN q = 1..Len(q)
  OBVIOUS
<1>2. ASSUME NEW f PROVE Waits(Append(q, f), e) <=> Waits(q, e) \/ f = e
  <2>1. /\ DOMAIN Append(q, f) = 1..(Len(q) + 1) /\ Append(q, f)[Len(q) + 1] = f
        /\ \A i \in 1..Len(q) : Append(q, f)[i] = q[i]
    BY <1>1
  <2>2. 1..(Len(q) + 1) = (1..Len(q)) \cup {Len(q) + 1}
    BY <1>1
  <2> QED BY <1>1, <2>1, <2>2 DEF Waits
<1>3. ASSUME q # <<>>, Waits(Tail(q), e) PROVE Waits(q, e)
  <2>1. PICK i \in DOMAIN Tail(q) : Tail(q)[i] = e
    BY <1>3 DEF Waits
  <2>2. i + 1 \in DOMAIN q /\ q[i + 1] = e
    BY <1>1, <1>3, <2>1
  <2> QED BY <2>2 DEF Waits
<1>4. ASSUME Waits(q, e), Head(q) # e PROVE Waits(Tail(q), e)
  BY <1>4, StillQueued DEF Waits
<1>5. ASSUME NEW p \in Seq(S) PROVE Waits(q \o p, e) <=> Waits(q, e) \/ Waits(p, e)
  <2>1. /\ Len(p) \in Nat /\ DOMAIN p = 1..Len(p)
        /\ DOMAIN (q \o p) = 1..(Len(q) + Len(p))
        /\ \A i \in 1..Len(q) : (q \o p)[i] = q[i]
        /\ \A i \in 1..Len(p) : (q \o p)[Len(q) + i] = p[i]
    BY <1>1
  <2>2. ASSUME NEW i \in 1..(Len(q) + Len(p)), i \notin 1..Len(q)
        PROVE  i - Len(q) \in 1..Len(p) /\ (q \o p)[i] = p[i - Len(q)]
    <3>1. i - Len(q) \in 1..Len(p) /\ Len(q) + (i - Len(q)) = i
      BY <1>1, <2>1, <2>2
    <3> QED BY <2>1, <3>1
  <2>3. \A i \in 1..Len(p) : Len(q) + i \in 1..(Len(q) + Len(p))
    BY <1>1, <2>1
  <2>4. \A i \in 1..Len(q) : i \in 1..(Len(q) + Len(p))
    BY <1>1, <2>1
  <2>5. Waits(q, e) => Waits(q \o p, e)
    BY <1>1, <2>1, <2>4 DEF Waits
  <2>6. Waits(p, e) => Waits(q \o p, e)
    BY <2>1, <2>3 DEF Waits
  <2>7. Waits(q \o p, e) => Waits(q, e) \/ Waits(p, e)
    BY <1>1, <2>1, <2>2 DEF Waits
  <2> QED BY <2>5, <2>6, <2>7
<1> QED BY <1>2, <1>3, <1>4, <1>5

DestroyOf(w) == [kind |-> "destroy", win |-> w]

\* A window that is gone is still interactable only while its destroy event waits, and
\* that event waits for windows that are gone only.
GoneAnnounced ==
  /\ \A w \in interactable \ alive : Waits(hookQueue, DestroyOf(w))
  /\ \A w \in alive : ~Waits(hookQueue, DestroyOf(w))

LEMMA GonePreserved ==
  ASSUME TypeOK, GoneAnnounced, [Next]_vars
  PROVE  GoneAnnounced'
<1>1. hookQueue \in Seq(HookEvent) /\ shown \subseteq alive
  BY DEF TypeOK
<1>2. ASSUME \A w : Waits(hookQueue', DestroyOf(w)) <=> Waits(hookQueue, DestroyOf(w)),
             alive' = alive, interactable' \subseteq interactable \cup shown
      PROVE  GoneAnnounced'
  BY <1>1, <1>2 DEF GoneAnnounced
<1>3. ASSUME NEW p, NEW n, HideThenRestore(p, n), interactable' = interactable
      PROVE  GoneAnnounced'
  <2>1. PICK order \in SetToSeqs({w \in n :
                 w \in (minimized \cup {v \in p : v \in alive \ minimized})
                         \cap (marks \cup {v \in p : v \in alive \ minimized})}) :
          hookQueue' = hookQueue \o
            [i \in DOMAIN order |-> [kind |-> "unminimizedByRestore", win |-> order[i]]]
    BY <1>3 DEF HideThenRestore
  <2> DEFINE back == {w \in n : w \in (minimized \cup {v \in p : v \in alive \ minimized})
                                        \cap (marks \cup {v \in p : v \in alive \ minimized})}
             echo == [i \in DOMAIN order |->
                        [kind |-> "unminimizedByRestore", win |-> order[i]]]
  <2>2. back \subseteq Window
    BY DEF TypeOK
  <2> HIDE DEF back
  <2>3. order \in [1..Cardinality(back) -> back] /\ Cardinality(back) \in Nat
    BY <2>1, <2>2, ConstantsAssumption, FS_Subset, FS_CardinalityType DEF SetToSeqs, back
  <2>4. echo \in [1..Cardinality(back) -> HookEvent]
    BY <2>2, <2>3 DEF HookEvent
  <2>5. \A w : ~Waits(echo, DestroyOf(w))
    BY <2>3 DEF Waits, DestroyOf
  <2> HIDE DEF echo
  <2>6. echo \in Seq(HookEvent)
    BY <2>3, <2>4, SeqDef
  <2>7. hookQueue' = hookQueue \o echo
    BY <2>1 DEF echo
  <2>8. alive' = alive
    BY <1>3 DEF HideThenRestore
  <2> QED BY <1>1, <1>2, <1>3, <2>5, <2>6, <2>7, <2>8, WaitsChanged
<1>4. CASE UNCHANGED <<hookQueue, alive>> /\ interactable' \subseteq interactable \cup shown
  BY <1>2, <1>4
<1>5. ASSUME NEW t \in Thread, SwitchLocked(t) \/ DestroyLocked(t) PROVE GoneAnnounced'
  BY <1>3, <1>4, <1>5 DEF SwitchLocked, DestroyLocked, Stay, osVars, appsVars
<1>6. CASE HookMinimizeEnd \/ HookRectChange \/ HookShow
           \/ (HookGone /\ Head(hookQueue).kind = "hide")
  <2>1. /\ hookQueue # <<>> /\ hookQueue' = Tail(hookQueue)
        /\ Head(hookQueue).kind # "destroy" /\ alive' = alive
        /\ interactable' \subseteq interactable \cup shown
    BY <1>6 DEF HookMinimizeEnd, HookRectChange, HookShow, HookGone, NextHookEvent, osVars,
                appsVars
  <2>2. \A w : Head(hookQueue) # DestroyOf(w)
    BY <2>1 DEF DestroyOf
  <2> QED BY <1>1, <1>2, <2>1, <2>2, WaitsChanged
<1>7. CASE HookGone /\ Head(hookQueue).kind = "destroy"
  <2> PICK v : v = Head(hookQueue).win
    OBVIOUS
  <2>1. /\ hookQueue # <<>> /\ hookQueue' = Tail(hookQueue) /\ alive' = alive
        /\ interactable' = interactable \ {v}
    BY <1>7 DEF HookGone, NextHookEvent, osVars
  <2>2. \A w : w # v => Head(hookQueue) # DestroyOf(w)
    BY DEF DestroyOf
  <2>3. \A w : Waits(hookQueue', DestroyOf(w)) => Waits(hookQueue, DestroyOf(w))
    BY <1>1, <2>1, WaitsChanged
  <2>4. \A w : w # v /\ Waits(hookQueue, DestroyOf(w)) => Waits(hookQueue', DestroyOf(w))
    BY <1>1, <2>1, <2>2, WaitsChanged
  <2> QED BY <2>1, <2>3, <2>4 DEF GoneAnnounced
<1>8. ASSUME NEW kind, NEW v, kind # "destroy", Emit(kind, v), alive' = alive,
             interactable' = interactable
      PROVE  GoneAnnounced'
  <2>1. \A w : [kind |-> kind, win |-> v] # DestroyOf(w)
    BY <1>8 DEF DestroyOf
  <2> QED BY <1>1, <1>2, <1>8, <2>1, WaitsChanged DEF Emit
<1>9. ASSUME NEW v \in Window, UserUnminimize(v) \/ RectSettled(v) \/ WinHide(v)
      PROVE  GoneAnnounced'
  BY <1>8, <1>9 DEF UserUnminimize, RectSettled, WinHide, EnvUnchanged, appsVars, osVars
<1>10. ASSUME NEW v \in Window, WinShow(v) PROVE GoneAnnounced'
  <2>1. /\ hookQueue' = Append(hookQueue, [kind |-> "show", win |-> v])
        /\ alive' = alive \cup {v} /\ interactable' = interactable
        /\ ~Waits(hookQueue, DestroyOf(v))
    BY <1>10 DEF WinShow, Emit, EnvUnchanged, appsVars, Waits, DestroyOf
  <2>2. \A w : [kind |-> "show", win |-> v] # DestroyOf(w)
    BY DEF DestroyOf
  <2>3. \A w : Waits(hookQueue', DestroyOf(w)) <=> Waits(hookQueue, DestroyOf(w))
    BY <1>1, <2>1, <2>2, WaitsChanged
  <2> QED BY <2>1, <2>3 DEF GoneAnnounced
<1>11. ASSUME NEW v \in Window, WinClose(v) PROVE GoneAnnounced'
  <2>1. /\ hookQueue' = Append(hookQueue, DestroyOf(v))
        /\ alive' = alive \ {v} /\ interactable' = interactable
    BY <1>11 DEF WinClose, Emit, EnvUnchanged, appsVars, DestroyOf
  <2>2. \A w : DestroyOf(v) = DestroyOf(w) <=> v = w
    BY DEF DestroyOf
  <2>3. \A w : Waits(hookQueue', DestroyOf(w)) <=> Waits(hookQueue, DestroyOf(w)) \/ v = w
    BY <1>1, <2>1, <2>2, WaitsChanged
  <2> QED BY <2>1, <2>3 DEF GoneAnnounced
<1>12. HookGone => Head(hookQueue).kind \in {"hide", "destroy"}
  BY DEF HookGone, NextHookEvent
<1> QED BY <1>4, <1>5, <1>6, <1>7, <1>9, <1>10, <1>11, <1>12, QueueSteps

-----------------------------------------------------------------------------
(* What is marked *)

\* Which steps minimize, bring back, mark, or change the active workspaces.
LEMMA HidingSteps ==
  ASSUME [Next]_vars
  PROVE  \/ UNCHANGED <<minimized, minimizedByUser, marks, alive, active>>
         \/ \E t \in Thread : SwitchLocked(t) \/ DestroyLocked(t) \/ SendLocked(t) \/ AddLocked(t)
         \/ ResolveUnminimized \/ HookGone \/ \E m \in Monitor : ViewAdded(m)
         \/ \E w \in Window : UserMinimize(w) \/ UserUnminimize(w) \/ WinShow(w) \/ WinClose(w)
<1> DEFINE Still == UNCHANGED <<minimized, minimizedByUser, marks, alive, active>>
<1>1. CASE UNCHANGED vars
  BY <1>1 DEF vars, managerVars, gridVars, hideVars, worldVars, osVars
<1>2. CASE Next
  <2>1. ASSUME NEW t \in Caller, NEW x \in WorkspaceId, BeginSwitch(t, x) \/ BeginDestroy(t, x)
        PROVE  Still
    BY <2>1 DEF BeginSwitch, BeginDestroy, managerVars, gridVars, hideVars, worldVars, osVars
  <2>2. ASSUME NEW t \in Caller, NEW w \in Window, NEW x \in WorkspaceId, BeginSendTo(t, w, x)
        PROVE  Still
    BY <2>2 DEF BeginSendTo, managerVars, gridVars, hideVars, worldVars, osVars
  <2>3. ASSUME NEW t \in Thread, SwitchSettled(t) \/ Announce(t) PROVE Still
    BY <2>3 DEF SwitchSettled, Announce, managerVars, gridVars, hideVars, worldVars, osVars
  <2>4. CASE AppsAdded \/ AppsRemoved \/ BootSubscribe
    BY <2>4 DEF AppsAdded, AppsRemoved, BootSubscribe, managerVars, gridVars, hideVars,
                worldVars, osVars
  <2>5. CASE HookMinimizeEnd \/ HookRectChange \/ HookShow
    BY <2>5 DEF HookMinimizeEnd, HookRectChange, HookShow, managerVars, gridVars, hideVars,
                osVars
  <2>6. ASSUME NEW m \in Monitor, NEW n \in Monitor, Connect(m) \/ Disconnect(m, n)
        PROVE  Still
    BY <2>6 DEF Connect, Disconnect, EnvUnchanged, managerVars, gridVars, hideVars, osVars
  <2>7. ASSUME NEW w \in Window,
               \/ BootScan(w) \/ RevalidateDrop(w) \/ RevalidateAdd(w)
               \/ RectSettled(w) \/ WinHide(w)
        PROVE  Still
    BY <2>7 DEF BootScan, RevalidateDrop, RevalidateAdd, RectSettled, WinHide, EnvUnchanged,
                managerVars, gridVars, hideVars, worldVars, osVars
  <2>8. ASSUME NEW w \in Window, NEW m \in Monitor, MoveWindow(w, m) PROVE Still
    BY <2>8 DEF MoveWindow, EnvUnchanged, managerVars, gridVars, hideVars
  <2>9. ASSUME NEW t \in Caller, NEW m \in Monitor, NEW asRow \in BOOLEAN,
               CreateDesktop(t, m, asRow)
        PROVE  Still
    BY <2>9 DEF CreateDesktop, hideVars, worldVars, osVars
  <2> QED BY <1>2, <2>1, <2>2, <2>3, <2>4, <2>5, <2>6, <2>7, <2>8, <2>9, StepCases
<1> QED BY <1>1, <1>2

\* Why a window is minimized is known, on any workspace: the user did it, or it is marked.
Explained == minimized \ minimizedByUser \subseteq marks

\* VdManager has no entry for a monitor that is not connected.
EntriesConnected == DOMAIN grid \subseteq connected

\* restore unmarks what it brings back only, a purged handle is not minimized any more.
LEMMA ExplainedPreserved ==
  ASSUME TypeOK, GoneAnnounced, IndexInv, EntriesConnected, Explained, [Next]_vars
  PROVE  Explained'
<1>1. /\ hookQueue \in Seq(HookEvent) /\ minimized \subseteq alive
      /\ call \in [Thread -> Call]
  BY DEF TypeOK
<1>2. CASE UNCHANGED <<minimized, minimizedByUser, marks>>
  BY <1>2 DEF Explained
<1>3. ASSUME NEW p, NEW n, HideThenRestore(p, n) PROVE Explained'
  <2> DEFINE hidden == {w \in p : w \in alive \ minimized}
             back   == {w \in n : w \in (minimized \cup hidden) \cap (marks \cup hidden)}
  <2>1. /\ marks' = (marks \cup hidden) \ n
        /\ minimized' = (minimized \cup hidden) \ back
        /\ minimizedByUser' = minimizedByUser \ back
    BY <1>3 DEF HideThenRestore
  <2>2. \A w \in n : w \in (minimized \cup hidden) \cap (marks \cup hidden) => w \in back
    OBVIOUS
  <2> HIDE DEF hidden, back
  <2> QED BY <2>1, <2>2 DEF Explained
<1>4. ASSUME NEW t \in Thread, SwitchLocked(t) \/ DestroyLocked(t) PROVE Explained'
  BY <1>2, <1>3, <1>4 DEF SwitchLocked, DestroyLocked, Stay, hideVars, osVars
<1>5. ASSUME NEW t \in Thread, SendLocked(t) PROVE Explained'
  BY <1>5 DEF SendLocked, MinimizeMarked, Explained
<1>6. ASSUME NEW t \in Thread, AddLocked(t) PROVE Explained'
  BY <1>2, <1>6 DEF AddLocked, hideVars, worldVars, osVars
<1>7. CASE ResolveUnminimized
  <2>1. \A x \in DOMAIN workspaceIndex : workspaceIndex[x] \in connected
    BY DEF IndexInv, WorkspaceIndexSound, EntriesConnected
  <2>2. marks' = marks
    BY <1>7, <2>1 DEF ResolveUnminimized
  <2> QED BY <1>2, <1>7, <2>2 DEF ResolveUnminimized, worldVars, osVars
<1>8. CASE HookGone
  <2> PICK w : w = Head(hookQueue).win
    OBVIOUS
  <2>1. UNCHANGED <<minimized, minimizedByUser>>
    BY <1>8 DEF HookGone, osVars
  <2>2. CASE Head(hookQueue).kind = "destroy"
    <3>1. hookQueue # <<>>
      BY <1>8 DEF HookGone, NextHookEvent
    <3>2. Head(hookQueue) \in HookEvent /\ Head(hookQueue) = hookQueue[1] /\ 1 \in DOMAIN hookQueue
      BY <1>1, <3>1, QueueTyped
    <3>3. Head(hookQueue) = DestroyOf(w)
      BY <2>2, <3>2 DEF HookEvent, DestroyOf
    <3>4. Waits(hookQueue, DestroyOf(w))
      BY <3>2, <3>3 DEF Waits
    <3>5. w \notin minimized
      BY <1>1, <3>4 DEF GoneAnnounced
    <3>6. marks' = marks \/ marks' = marks \ {w}
      BY <1>8 DEF HookGone, hideVars
    <3> QED BY <2>1, <3>5, <3>6 DEF Explained
  <2>3. CASE Head(hookQueue).kind # "destroy"
    BY <1>2, <1>8, <2>1, <2>3 DEF HookGone, hideVars
  <2> QED BY <2>2, <2>3
<1>9. ASSUME NEW m \in Monitor, ViewAdded(m) PROVE Explained'
  BY <1>2, <1>9 DEF ViewAdded, hideVars, osVars
<1>10. ASSUME NEW w \in Window,
              UserMinimize(w) \/ UserUnminimize(w) \/ WinShow(w) \/ WinClose(w)
       PROVE  Explained'
  BY <1>10 DEF UserMinimize, UserUnminimize, WinShow, WinClose, EnvUnchanged, managerVars,
               hideVars, Explained
<1> QED BY <1>2, <1>4, <1>5, <1>6, <1>7, <1>8, <1>9, <1>10, HidingSteps

LEMMA GoneInitially ==
  ASSUME Init
  PROVE  GoneAnnounced
BY DEF Init, GoneAnnounced, Waits

LEMMA GoneHolds == Spec => []GoneAnnounced
<1>1. HomeInv /\ GoneAnnounced /\ [Next]_vars => GoneAnnounced'
  BY GonePreserved DEF HomeInv, TypeInv
<1> QED BY <1>1, GoneInitially, HomeInvHolds, PTL DEF Spec

\* While the monitors VdManager knows are connected, what it minimized it can bring back,
\* for any number of windows, workspaces and threads: every minimized window is marked
\* unless the user minimized it. (For a monitor that is gone on_user_unminimize takes the
\* mark of a window, even of one that a switch or a send has minimized again meanwhile.)
THEOREM HiddenStayMarked == Spec /\ []EntriesConnected => []HiddenAreMarked
<1>1. Init => Explained
  BY DEF Init, Explained
<1>2. /\ HomeInv /\ GoneAnnounced /\ IndexInv /\ EntriesConnected /\ Explained /\ [Next]_vars
      => Explained'
  BY ExplainedPreserved DEF HomeInv, TypeInv
<1>3. Explained => HiddenAreMarked
  BY DEF Explained, HiddenAreMarked
<1> QED BY <1>1, <1>2, <1>3, HomeInvHolds, IndexInvHolds, GoneHolds, PTL DEF Spec

-----------------------------------------------------------------------------
(* Where the windows are *)

\* Windows keeps its windows on connected monitors.
LocationsConnected == \A w \in Window : location[w] \in connected

LEMMA LocationsPreserved ==
  ASSUME TypeOK, LocationsConnected, [Next]_vars
  PROVE  LocationsConnected'
<1>1. location \in [Window -> Monitor]
  BY DEF TypeOK
<1>2. ASSUME location' = location, connected \subseteq connected' PROVE LocationsConnected'
  BY <1>2 DEF LocationsConnected
<1>3. CASE UNCHANGED vars
  BY <1>2, <1>3 DEF vars, worldVars, osVars, monitorVars
<1>4. CASE Next
  <2>1. ASSUME NEW t \in Caller, NEW x \in WorkspaceId, BeginSwitch(t, x) \/ BeginDestroy(t, x)
        PROVE  LocationsConnected'
    BY <1>2, <2>1 DEF BeginSwitch, BeginDestroy, worldVars, osVars, monitorVars
  <2>2. ASSUME NEW t \in Caller, NEW w \in Window, NEW x \in WorkspaceId, BeginSendTo(t, w, x)
        PROVE  LocationsConnected'
    BY <1>2, <2>2 DEF BeginSendTo, worldVars, osVars, monitorVars
  <2>3. ASSUME NEW t \in Thread, SwitchLocked(t) \/ DestroyLocked(t) PROVE LocationsConnected'
    BY <1>2, <2>3 DEF SwitchLocked, DestroyLocked, Stay, HideThenRestore, osVars, monitorVars
  <2>4. ASSUME NEW t \in Thread,
               AddLocked(t) \/ SwitchSettled(t) \/ SendLocked(t) \/ Announce(t)
        PROVE  LocationsConnected'
    BY <1>2, <2>4 DEF AddLocked, SwitchSettled, SendLocked, Announce, worldVars, osVars,
                      monitorVars
  <2>5. CASE AppsAdded \/ AppsRemoved \/ BootSubscribe
    BY <1>2, <2>5 DEF AppsAdded, AppsRemoved, BootSubscribe, worldVars, osVars, monitorVars
  <2>6. CASE HookMinimizeEnd \/ ResolveUnminimized \/ HookRectChange \/ HookShow \/ HookGone
    BY <1>2, <2>6 DEF HookMinimizeEnd, ResolveUnminimized, HookRectChange, HookShow, HookGone,
                      worldVars, osVars, monitorVars
  <2>7. ASSUME NEW m \in Monitor, ViewAdded(m) \/ Connect(m) PROVE LocationsConnected'
    BY <1>2, <2>7 DEF ViewAdded, Connect, osVars
  <2>8. ASSUME NEW m \in Monitor, NEW n \in Monitor, Disconnect(m, n) PROVE LocationsConnected'
    BY <2>8 DEF Disconnect, LocationsConnected
  <2>9. ASSUME NEW w \in Window, BootScan(w) \/ RevalidateDrop(w) \/ RevalidateAdd(w)
        PROVE  LocationsConnected'
    BY <1>2, <2>9 DEF BootScan, RevalidateDrop, RevalidateAdd, worldVars, osVars, monitorVars
  <2>10. ASSUME NEW w \in Window,
                \/ UserMinimize(w) \/ UserUnminimize(w) \/ RectSettled(w)
                \/ WinHide(w) \/ WinClose(w)
         PROVE  LocationsConnected'
    BY <1>2, <2>10 DEF UserMinimize, UserUnminimize, RectSettled, WinHide, WinClose, osVars,
                       monitorVars
  <2>11. ASSUME NEW w \in Window, WinShow(w) PROVE LocationsConnected'
    BY <1>1, <2>11 DEF WinShow, monitorVars, LocationsConnected
  <2>12. ASSUME NEW w \in Window, NEW m \in Monitor, MoveWindow(w, m) PROVE LocationsConnected'
    BY <1>1, <2>12 DEF MoveWindow, monitorVars, LocationsConnected
  <2>13. ASSUME NEW t \in Caller, NEW m \in Monitor, NEW asRow \in BOOLEAN,
                CreateDesktop(t, m, asRow)
         PROVE  LocationsConnected'
    BY <1>2, <2>13 DEF CreateDesktop, worldVars, osVars, monitorVars
  <2> QED BY <1>4, <2>1, <2>2, <2>3, <2>4, <2>5, <2>6, <2>7, <2>8, <2>9, <2>10, <2>11, <2>12,
             <2>13, StepCases
<1> QED BY <1>3, <1>4

-----------------------------------------------------------------------------
(* Becoming stray *)

\* The workspace of w is the active one of no monitor.
ShownNowhere(w) ==
  w \in DOMAIN windowIndex /\ \A n \in DOMAIN grid : active[n] # windowIndex[w]

HiddenFound == \A w : OnHiddenWorkspace(w) <=> ShownNowhere(w)

\* The monitor the index names is the only one that can show it.
LEMMA HiddenIsFound == HomeInv /\ IndexInv => HiddenFound
<1> SUFFICES ASSUME HomeInv, IndexInv, NEW w \in DOMAIN windowIndex
             PROVE  OnHiddenWorkspace(w) <=> ShownNowhere(w)
  BY DEF HiddenFound, OnHiddenWorkspace, ShownNowhere
<1>1. /\ HomeMonitor(w) \in DOMAIN grid /\ windowIndex[w] \in DOMAIN workspaceIndex
      /\ \A n \in DOMAIN grid : windowIndex[w] \in Cells(grid[n]) => HomeMonitor(w) = n
  BY MonitorsAreFound DEF MonitorsFound, IndexInv, HomesIndexed, Range
<1>2. \A n \in DOMAIN grid : active[n] \in Cells(grid[n])
  BY DEF HomeInv, GridInv, GridsWellFormed
<1> QED BY <1>1, <1>2 DEF OnHiddenWorkspace, ShownNowhere, HomeMonitor

\* What holds in every state, and is used of the state before a step and after it.
StrayBase == HomeInv /\ IndexInv /\ MonitorsFound /\ HiddenFound

LEMMA StrayMeans ==
  ASSUME StrayBase, StrayBase', NEW w
  PROVE  /\ Stray(w) <=> ShownNowhere(w) /\ w \in alive \ minimized
         /\ Stray(w)' <=> ShownNowhere(w)' /\ w \in alive' \ minimized'
BY DEF StrayBase, HiddenFound, Stray

\* A send hides the window when its target is hidden.
LEMMA SendingLeavesNone ==
  ASSUME StrayBase, StrayBase', NEW t \in Thread, SendLocked(t), NEW w
  PROVE  /\ Stray(w)' => Stray(w)
         /\ call[t].win = w /\ Stray(w)' => ~CanSend(w, call[t].mon, call[t].ws)
<1> DEFINE v == call[t].win
           x == call[t].ws
           m == call[t].mon
<1>1. /\ UNCHANGED <<grid, active, alive>>
      /\ \/ UNCHANGED <<windowIndex, minimized>> /\ ~CanSend(v, m, x)
         \/ /\ CanSend(v, m, x) /\ windowIndex' = With(windowIndex, v, x)
            /\ \/ active[m] = x /\ minimized' = minimized
               \/ minimized' = minimized \cup ({v} \cap alive)
  BY DEF SendLocked, gridVars, TargetIsActive, MinimizeMarked
<1> HIDE DEF v, x, m
<1>2. CASE UNCHANGED <<windowIndex, minimized>> /\ ~CanSend(v, m, x)
  <2>1. ShownNowhere(w)' <=> ShownNowhere(w)
    BY <1>1, <1>2 DEF ShownNowhere
  <2> QED BY <1>1, <1>2, <2>1, StrayMeans DEF v, x, m
<1>3. CASE /\ CanSend(v, m, x) /\ windowIndex' = With(windowIndex, v, x)
           /\ \/ active[m] = x /\ minimized' = minimized
              \/ minimized' = minimized \cup ({v} \cap alive)
  <2>1. /\ m \in DOMAIN grid /\ windowIndex'[v] = x
        /\ w # v => /\ w \in DOMAIN windowIndex' <=> w \in DOMAIN windowIndex
                    /\ w \in DOMAIN windowIndex => windowIndex'[w] = windowIndex[w]
    BY <1>3 DEF CanSend, IsOn, With
  <2>2. w = v => ~Stray(w)'
    BY <1>1, <1>3, <2>1, StrayMeans DEF ShownNowhere
  <2>3. w # v => (ShownNowhere(w)' <=> ShownNowhere(w))
    BY <1>1, <2>1 DEF ShownNowhere
  <2> QED BY <1>1, <1>3, <2>2, <2>3, StrayMeans DEF v
<1> QED BY <1>1, <1>2, <1>3

\* A switch hides the windows of the workspace it leaves, and restores only those of the
\* one it shows.
LEMMA SwitchingLeavesNone ==
  ASSUME StrayBase, StrayBase', NEW t \in Thread, SwitchLocked(t), NEW w, Stray(w)'
  PROVE  /\ Stray(w)
         /\ call[t].ws = windowIndex[w] => ~IsOn(call[t].ws, call[t].mon)
<1> DEFINE x == call[t].ws
           m == call[t].mon
<1>1. /\ UNCHANGED <<grid, windowIndex, windows>>
      /\ \/ ~CanSwitch(m, x) /\ UNCHANGED <<active, minimized, alive>>
         \/ /\ CanSwitch(m, x) /\ active' = [active EXCEPT ![m] = x] /\ alive' = alive
            /\ HideThenRestore(windows[active[m]], windows[x])
  BY DEF SwitchLocked, Stay, assignVars, osVars, HideThenRestore
<1> HIDE DEF x, m
<1>2. ShownNowhere(w)' /\ w \in alive' \ minimized'
  BY StrayMeans
<1>3. /\ TypeOK /\ OneHome /\ DOMAIN active = DOMAIN grid
      /\ \A n \in DOMAIN grid : active[n] \in WorkspaceId
  BY DEF StrayBase, HomeInv, TypeInv, TypeOK
<1>4. CASE ~CanSwitch(m, x) /\ UNCHANGED <<active, minimized, alive>>
  <2>1. ShownNowhere(w)
    BY <1>1, <1>2, <1>4 DEF ShownNowhere
  <2>2. IsOn(x, m) => active[m] = x /\ m \in DOMAIN grid
    BY <1>4 DEF CanSwitch, IsOn
  <2> QED BY <1>2, <1>4, <2>1, <2>2, StrayMeans DEF x, m, ShownNowhere
<1>5. CASE /\ CanSwitch(m, x) /\ active' = [active EXCEPT ![m] = x] /\ alive' = alive
           /\ HideThenRestore(windows[active[m]], windows[x])
  <2>1. /\ m \in DOMAIN grid /\ active'[m] = x
        /\ \A n \in DOMAIN grid : n # m => active'[n] = active[n]
    BY <1>3, <1>5 DEF CanSwitch, IsOn
  <2>2. /\ w \in DOMAIN windowIndex /\ windowIndex[w] # x
        /\ \A n \in DOMAIN grid : n # m => active[n] # windowIndex[w]
    BY <1>1, <1>2, <2>1 DEF ShownNowhere
  <2>3. w \notin windows[x]
    <3>1. x \in WorkspaceId
      BY <1>5, CellsUsed DEF CanSwitch, IsOn, AllCells, StrayBase, HomeInv, GridInv
    <3> QED BY <1>3, <2>2, <3>1, HomeOf
  <2>4. w \notin minimized /\ w \notin windows[active[m]]
    BY <1>2, <1>5, <2>3 DEF HideThenRestore
  <2>5. active[m] # windowIndex[w]
    BY <1>3, <2>2, <2>4, HomeOf
  <2> QED BY <1>2, <1>5, <2>2, <2>4, <2>5, StrayMeans DEF x, m, ShownNowhere
<1> QED BY <1>1, <1>4, <1>5

-----------------------------------------------------------------------------
(* Destroying *)

\* What a destruction does to the indexes, the active workspace and the windows.
LEMMA DestructionMoves ==
  ASSUME HomeInv, HomeInv', NEW t \in Thread, DestroyLocked(t)
  PROVE  \/ UNCHANGED <<gridVars, assignVars, hideVars, osVars, hookQueue>>
         \/ \E m \in DOMAIN grid : \E heirs :
              /\ DOMAIN heirs \subseteq Cells(grid[m]) /\ DOMAIN grid' = DOMAIN grid
              /\ AllCells(grid') = AllCells(grid) \ DOMAIN heirs
              /\ usedIds' = usedIds
              /\ active' = [active EXCEPT ![m] = IF active[m] \in DOMAIN heirs
                                                 THEN heirs[active[m]] ELSE active[m]]
              /\ windowIndex' = [w \in DOMAIN windowIndex |->
                                   IF windowIndex[w] \in DOMAIN heirs
                                   THEN heirs[windowIndex[w]] ELSE windowIndex[w]]
              /\ \/ UNCHANGED <<hideVars, osVars, hookQueue>>
                 \/ HideThenRestore({}, windows'[active'[m]])
<1> DEFINE x     == call[t].ws
           m     == call[t].mon
           heirs == Heirs(grid[m], x)
           g     == Sanitize(Remaining(grid[m], x), Unused)
           now   == IF active[m] \in DOMAIN heirs THEN heirs[active[m]] ELSE active[m]
<1>1. \/ UNCHANGED <<gridVars, assignVars, hideVars, osVars, hookQueue>>
      \/ /\ m \in DOMAIN grid /\ Removable(grid[m], x)
         /\ grid' = [grid EXCEPT ![m] = g]
         /\ active' = [active EXCEPT ![m] = now]
         /\ usedIds' = usedIds \cup Cells(g)
         /\ windows' = Inherited(heirs)
         /\ \/ UNCHANGED <<hideVars, osVars, hookQueue>>
            \/ HideThenRestore({}, windows'[now])
  BY DEF DestroyLocked
<1>2. CASE /\ m \in DOMAIN grid /\ Removable(grid[m], x)
           /\ grid' = [grid EXCEPT ![m] = g]
           /\ active' = [active EXCEPT ![m] = now]
           /\ usedIds' = usedIds \cup Cells(g)
           /\ windows' = Inherited(heirs)
           /\ \/ UNCHANGED <<hideVars, osVars, hookQueue>>
              \/ HideThenRestore({}, windows'[now])
  <2>1. /\ Cells(g) = Cells(grid[m]) \ DOMAIN heirs
        /\ DOMAIN heirs \subseteq Cells(grid[m])
        /\ heirs \in [DOMAIN heirs -> Cells(g)]
    BY <1>2, RemainingGrid DEF HomeInv
  <2> HIDE DEF x, m, heirs, g
  <2>2. /\ DOMAIN grid' = DOMAIN grid /\ grid'[m] = g /\ active'[m] = now
        /\ \A k \in DOMAIN grid : k # m => grid'[k] = grid[k]
    BY <1>2 DEF HomeInv, GridInv
  <2>3. \A k \in DOMAIN grid : k # m => Cells(grid[k]) \cap Cells(grid[m]) = {}
    BY <1>2 DEF HomeInv, GridInv, GridsWellFormed
  <2>4. AllCells(grid') = AllCells(grid) \ DOMAIN heirs
    BY <1>2, <2>1, <2>2, <2>3 DEF AllCells
  <2>5. /\ Cells(grid[m]) \subseteq AllCells(grid)
        /\ AllCells(grid) \subseteq usedIds /\ usedIds \subseteq WorkspaceId
    BY <1>2, CellsUsed DEF AllCells, HomeInv, GridInv
  <2>6. heirs \in [DOMAIN heirs -> WorkspaceId \ DOMAIN heirs] /\ DOMAIN heirs \subseteq WorkspaceId
    BY <2>1, <2>5
  <2>7. usedIds' = usedIds
    BY <1>2, <2>1, <2>5
  <2>8. windowIndex' = [w \in DOMAIN windowIndex |->
                          IF windowIndex[w] \in DOMAIN heirs THEN heirs[windowIndex[w]]
                                                             ELSE windowIndex[w]]
    BY <1>2, <2>6, HomesInherited
  <2> QED BY <1>2, <2>1, <2>2, <2>4, <2>7, <2>8
<1> QED BY <1>1, <1>2

\* Windows that inherit a hidden workspace were on a hidden one, and those of the
\* workspace that is shown now are the only ones restored.
LEMMA DestroyingLeavesNone ==
  ASSUME StrayBase, StrayBase', NEW t \in Thread, DestroyLocked(t), NEW w, Stray(w)'
  PROVE  Stray(w)
<1>1. ShownNowhere(w)' /\ w \in alive' \ minimized'
  BY StrayMeans
<1>2. CASE UNCHANGED <<gridVars, assignVars, hideVars, osVars, hookQueue>>
  BY <1>1, <1>2, StrayMeans DEF gridVars, assignVars, osVars, ShownNowhere
<1>3. ASSUME NEW m \in DOMAIN grid, NEW heirs,
             DOMAIN heirs \subseteq Cells(grid[m]), DOMAIN grid' = DOMAIN grid,
             active' = [active EXCEPT ![m] = IF active[m] \in DOMAIN heirs
                                             THEN heirs[active[m]] ELSE active[m]],
             windowIndex' = [v \in DOMAIN windowIndex |->
                               IF windowIndex[v] \in DOMAIN heirs
                               THEN heirs[windowIndex[v]] ELSE windowIndex[v]],
             \/ UNCHANGED <<hideVars, osVars, hookQueue>>
             \/ HideThenRestore({}, windows'[active'[m]])
      PROVE  Stray(w)
  <2>1. /\ w \in DOMAIN windowIndex /\ DOMAIN active = DOMAIN grid
        /\ \A n \in DOMAIN grid : active'[n] # windowIndex'[w]
        /\ \A n \in DOMAIN grid : active[n] \in Cells(grid[n])
        /\ \A n \in DOMAIN grid : n # m => Cells(grid[n]) \cap Cells(grid[m]) = {}
    BY <1>1, <1>3 DEF ShownNowhere, StrayBase, HomeInv, GridInv, GridsWellFormed
  <2>2. /\ active'[m] = IF active[m] \in DOMAIN heirs THEN heirs[active[m]] ELSE active[m]
        /\ \A n \in DOMAIN grid : n # m => active'[n] = active[n]
        /\ windowIndex'[w] = IF windowIndex[w] \in DOMAIN heirs
                             THEN heirs[windowIndex[w]] ELSE windowIndex[w]
    BY <1>3, <2>1
  <2>3. active[m] # windowIndex[w]
    BY <2>1, <2>2
  <2>4. ASSUME NEW n \in DOMAIN grid, n # m PROVE active[n] # windowIndex[w]
    <3>1. active[n] \notin DOMAIN heirs
      BY <1>3, <2>1, <2>4
    <3> QED BY <2>1, <2>2, <2>4, <3>1
  <2>5. ShownNowhere(w)
    BY <2>1, <2>3, <2>4 DEF ShownNowhere
  <2>6. w \in alive \ minimized
    <3>1. CASE UNCHANGED <<hideVars, osVars, hookQueue>>
      BY <1>1, <3>1 DEF osVars
    <3>2. CASE HideThenRestore({}, windows'[active'[m]])
      <4>1. alive' = alive /\ (w \notin windows'[active'[m]] => w \notin minimized)
        BY <1>1, <3>2 DEF HideThenRestore
      <4>2. w \in windows'[active'[m]] => windowIndex'[w] = active'[m]
        <5>1. /\ windows' \in [WorkspaceId -> SUBSET Window]
              /\ windowIndex' = WindowsOf(windows') /\ w \in DOMAIN windowIndex'
              /\ \A y, z \in WorkspaceId : y # z => windows'[y] \cap windows'[z] = {}
              /\ active'[m] \in WorkspaceId
          BY <1>1, <1>3 DEF StrayBase, HomeInv, TypeInv, TypeOK, OneHome, ShownNowhere
        <5>2. w \in windows'[windowIndex'[w]] /\ windowIndex'[w] \in WorkspaceId
          <6> DEFINE f == WindowsOf(windows')
          <6>1. IsMap(f, Window, WorkspaceId) /\ \A v \in DOMAIN f : v \in windows'[f[v]]
            BY <5>1, WindowsOfTyped
          <6> HIDE DEF f
          <6>2. f = windowIndex'
            BY <5>1 DEF f
          <6> QED BY <5>1, <6>1, <6>2 DEF IsMap
        <5> QED BY <5>1, <5>2
      <4> QED BY <1>1, <2>1, <4>1, <4>2
    <3> QED BY <1>3, <3>1, <3>2
  <2> QED BY <2>5, <2>6, StrayMeans
<1> QED BY <1>2, <1>3, DestructionMoves DEF StrayBase

-----------------------------------------------------------------------------
(* The two ways to become stray *)

\* Additions go to shown workspaces, and new monitors show theirs.
LEMMA AddingLeavesNone ==
  ASSUME StrayBase, StrayBase', NEW t \in Thread, AddLocked(t), NEW w, Stray(w)'
  PROVE  Stray(w)
<1> DEFINE v == call[t].win
           m == call[t].mon
<1>1. /\ UNCHANGED <<alive, minimized>>
      /\ \/ UNCHANGED <<grid, active, windowIndex>>
         \/ /\ m \in DOMAIN grid /\ UNCHANGED <<grid, active>>
            /\ windowIndex' = With(windowIndex, v, active[m])
         \/ /\ m \notin DOMAIN grid
            /\ \E x : /\ DOMAIN grid' = DOMAIN grid \cup {m} /\ active' = With(active, m, x)
                      /\ windowIndex' = With(windowIndex, v, x)
  BY DEF AddLocked, Push, gridVars, assignVars, worldVars, osVars, With
<1>2. ShownNowhere(w)' /\ w \in alive' \ minimized' /\ DOMAIN active = DOMAIN grid
  BY StrayMeans DEF StrayBase, HomeInv, GridInv
<1> HIDE DEF v, m
<1>3. ShownNowhere(w)
  <2>1. CASE UNCHANGED <<grid, active, windowIndex>>
    BY <1>2, <2>1 DEF ShownNowhere
  <2>2. CASE /\ m \in DOMAIN grid /\ UNCHANGED <<grid, active>>
             /\ windowIndex' = With(windowIndex, v, active[m])
    BY <1>2, <2>2 DEF ShownNowhere, With
  <2>3. ASSUME NEW x, m \notin DOMAIN grid,
               DOMAIN grid' = DOMAIN grid \cup {m}, active' = With(active, m, x),
               windowIndex' = With(windowIndex, v, x)
        PROVE  ShownNowhere(w)
    <3>1. /\ active'[m] = x /\ \A n \in DOMAIN grid : n # m /\ active'[n] = active[n]
          /\ w # v => w \in DOMAIN windowIndex /\ windowIndex'[w] = windowIndex[w]
          /\ windowIndex'[v] = x
      BY <1>2, <2>3 DEF With, ShownNowhere
    <3> QED BY <1>2, <2>3, <3>1 DEF ShownNowhere
  <2> QED BY <1>1, <2>1, <2>2, <2>3
<1> QED BY <1>1, <1>2, <1>3, StrayMeans

LEMMA GrowingLeavesNone ==
  ASSUME StrayBase, StrayBase', NEW w, Stray(w)',
         \/ \E t \in Caller, m \in Monitor, asRow \in BOOLEAN : CreateDesktop(t, m, asRow)
         \/ \E m \in Monitor : ViewAdded(m)
  PROVE  Stray(w)
<1>1. ShownNowhere(w)' /\ w \in alive' \ minimized' /\ DOMAIN active = DOMAIN grid
  BY StrayMeans DEF StrayBase, HomeInv, GridInv
<1>2. ASSUME UNCHANGED <<alive, minimized, windowIndex>>,
             \A n \in DOMAIN grid : n \in DOMAIN grid' /\ active'[n] = active[n]
      PROVE  Stray(w)
  BY <1>1, <1>2, StrayMeans DEF ShownNowhere
<1>3. ASSUME NEW t \in Caller, NEW m \in Monitor, NEW asRow \in BOOLEAN,
             CreateDesktop(t, m, asRow)
      PROVE  Stray(w)
  BY <1>2, <1>3 DEF CreateDesktop, worldVars, osVars
<1>4. ASSUME NEW m \in Monitor, ViewAdded(m) PROVE Stray(w)
  <2>1. /\ UNCHANGED <<alive, minimized, windowIndex>>
        /\ \/ UNCHANGED <<grid, active>>
           \/ \E x : /\ m \notin DOMAIN grid
                     /\ grid' = With(grid, m, << <<x>> >>) /\ active' = With(active, m, x)
    BY <1>4 DEF ViewAdded, gridVars, assignVars, osVars
  <2> QED BY <1>1, <1>2, <2>1 DEF With
<1> QED BY <1>3, <1>4

\* A window becomes stray only when the user brings it back, or when a new window has its
\* handle: additions, sends, switches and destructions hide what they should.
LEMMA StraySteps ==
  ASSUME StrayBase, StrayBase', [Next]_vars, NEW w, Stray(w)'
  PROVE  \/ Stray(w)
         \/ w \in Window /\ UserUnminimize(w)
         \/ w \in Window /\ WinShow(w) /\ w \notin alive
<1>1. ShownNowhere(w)' /\ w \in alive' \ minimized'
  BY StrayMeans
<1>2. ASSUME NEW t \in Thread, AddLocked(t) \/ SendLocked(t) \/ SwitchLocked(t) \/ DestroyLocked(t)
      PROVE  Stray(w)
  BY <1>2, AddingLeavesNone, SendingLeavesNone, SwitchingLeavesNone, DestroyingLeavesNone
<1>3. CASE \/ \E t \in Caller, m \in Monitor, asRow \in BOOLEAN : CreateDesktop(t, m, asRow)
           \/ \E m \in Monitor : ViewAdded(m)
  BY <1>3, GrowingLeavesNone
<1>4. CASE AppsRemoved
  <2>1. /\ UNCHANGED <<grid, active, alive, minimized>>
        /\ windowIndex' = windowIndex
           \/ \E v : windowIndex' = [u \in DOMAIN windowIndex \ {v} |-> windowIndex[u]]
    BY <1>4 DEF AppsRemoved, Untrack, Restrict, gridVars, assignVars, worldVars, osVars
  <2> QED BY <1>1, <2>1, StrayMeans DEF ShownNowhere
<1>5. CASE UNCHANGED HomeVars /\ UNCHANGED <<minimized, minimizedByUser, marks, alive, active>>
  BY <1>1, <1>5, StrayMeans DEF HomeVars, assignVars, ShownNowhere
<1>6. CASE ResolveUnminimized \/ HookGone
  BY <1>1, <1>6, StrayMeans DEF ResolveUnminimized, HookGone, gridVars, assignVars, worldVars,
                                osVars, ShownNowhere
<1>7. ASSUME NEW v \in Window,
             UserMinimize(v) \/ UserUnminimize(v) \/ WinShow(v) \/ WinClose(v)
      PROVE  \/ Stray(w)
             \/ v = w /\ (UserUnminimize(v) \/ (WinShow(v) /\ v \notin alive))
  <2>1. ShownNowhere(w)
    BY <1>1, <1>7 DEF UserMinimize, UserUnminimize, WinShow, WinClose, EnvUnchanged,
                      managerVars, gridVars, assignVars, ShownNowhere
  <2>2. \/ w \in alive \ minimized
        \/ v = w /\ (UserUnminimize(v) \/ (WinShow(v) /\ v \notin alive))
    <3>1. CASE UserMinimize(v) \/ WinClose(v)
      BY <1>1, <3>1 DEF UserMinimize, WinClose
    <3>2. CASE UserUnminimize(v)
      <4>1. v = w \/ w \in alive \ minimized
        BY <1>1, <3>2 DEF UserUnminimize
      <4> QED BY <3>2, <4>1
    <3>3. CASE WinShow(v)
      <4>1. w \in alive \ minimized \/ (v = w /\ v \notin alive)
        BY <1>1, <3>3 DEF WinShow
      <4> QED BY <3>3, <4>1
    <3> QED BY <1>7, <3>1, <3>2, <3>3
  <2> QED BY <2>1, <2>2, StrayMeans
<1> QED BY <1>2, <1>3, <1>4, <1>5, <1>6, <1>7, HomeSteps, HidingSteps

-----------------------------------------------------------------------------
(* The calls of the hook dispatcher *)

Closed(x) == x \in usedIds \ AllCells(grid)

\* The dispatcher is about to deal with w: it holds the workspace of w, or one that was
\* closed meanwhile, or sends w to another monitor.
HookCall(w) ==
  /\ call["hook"].win = w
  /\ \/ /\ At("hook", "resolving") \/ At("hook", "switching")
        /\ windowIndex[w] = call["hook"].ws \/ Closed(call["hook"].ws)
     \/ At("hook", "sending") /\ HomeMonitor(w) # call["hook"].mon

InHookCall == At("hook", "resolving") \/ At("hook", "switching") \/ At("hook", "sending")

\* Nobody else touches a call of the dispatcher.
LEMMA HookCallSteps ==
  ASSUME TypeOK, [Next]_vars, InHookCall
  PROVE  \/ call'["hook"] = call["hook"]
         \/ ResolveUnminimized \/ SwitchLocked("hook") \/ SendLocked("hook")
<1> DEFINE Same == call'["hook"] = call["hook"]
<1>1. /\ call \in [Thread -> Call] /\ "hook" \in Thread
      /\ call["hook"].pc \in {"resolving", "switching", "sending"}
  BY DEF TypeOK, Thread, InHookCall, At
<1>2. ASSUME NEW t \in Thread, t # "hook", NEW c, call' = [call EXCEPT ![t] = c] PROVE Same
  BY <1>1, <1>2
<1>3. ASSUME NEW t \in Thread, t # "hook",
             \/ call' = call \/ Return(t)
             \/ \E pc, w, x, m : Goto(t, pc, w, x, m)
             \/ \E w : BeginAdd(t, w)
      PROVE  Same
  BY <1>2, <1>3 DEF Return, Goto, BeginAdd
<1>4. ASSUME call' = call PROVE Same
  BY <1>4
<1>5. /\ "apps" \in Thread /\ "boot" \in Thread /\ "reval" \in Thread
      /\ \A t \in Caller : t \in Thread /\ t # "hook"
  BY ConstantsAssumption DEF Thread
<1>6. CASE UNCHANGED vars
  BY <1>6 DEF vars
<1>7. CASE Next
  <2>1. ASSUME NEW t \in Caller, NEW x \in WorkspaceId, BeginSwitch(t, x) \/ BeginDestroy(t, x)
        PROVE  Same
    BY <1>3, <1>5, <2>1 DEF BeginSwitch, BeginDestroy
  <2>2. ASSUME NEW t \in Caller, NEW w \in Window, NEW x \in WorkspaceId, BeginSendTo(t, w, x)
        PROVE  Same
    BY <1>3, <1>5, <2>2 DEF BeginSendTo
  <2>3. ASSUME NEW t \in Thread, t # "hook",
               \/ AddLocked(t) \/ SwitchLocked(t) \/ SwitchSettled(t) \/ SendLocked(t)
               \/ DestroyLocked(t) \/ Announce(t)
        PROVE  Same
    BY <1>3, <2>3 DEF AddLocked, SwitchLocked, Stay, SwitchSettled, SendLocked, DestroyLocked,
                      Announce
  <2>4. /\ ~AddLocked("hook") /\ ~SwitchSettled("hook") /\ ~DestroyLocked("hook")
        /\ ~Announce("hook")
    BY <1>1 DEF AddLocked, SwitchSettled, DestroyLocked, Announce, At
  <2>5. CASE AppsAdded \/ AppsRemoved \/ BootSubscribe
    BY <1>3, <1>5, <2>5 DEF AppsAdded, AppsRemoved, BootSubscribe
  <2>6. ~HookMinimizeEnd /\ ~HookRectChange /\ ~HookShow /\ ~HookGone
    BY <1>1 DEF HookMinimizeEnd, HookRectChange, HookShow, HookGone, NextHookEvent, At
  <2>7. ASSUME NEW m \in Monitor, NEW n \in Monitor, ViewAdded(m) \/ Connect(m) \/ Disconnect(m, n)
        PROVE  Same
    BY <1>4, <2>7 DEF ViewAdded, Connect, Disconnect, EnvUnchanged
  <2>8. ASSUME NEW w \in Window, BootScan(w) \/ RevalidateDrop(w) \/ RevalidateAdd(w)
        PROVE  Same
    BY <1>3, <1>4, <1>5, <2>8 DEF BootScan, RevalidateDrop, RevalidateAdd
  <2>9. ASSUME NEW w \in Window,
               \/ UserMinimize(w) \/ UserUnminimize(w) \/ RectSettled(w)
               \/ WinShow(w) \/ WinHide(w) \/ WinClose(w)
        PROVE  Same
    BY <1>4, <2>9 DEF UserMinimize, UserUnminimize, RectSettled, WinShow, WinHide, WinClose,
                      EnvUnchanged
  <2>10. ASSUME NEW w \in Window, NEW m \in Monitor, MoveWindow(w, m) PROVE Same
    BY <1>4, <2>10 DEF MoveWindow, EnvUnchanged
  <2>11. ASSUME NEW t \in Caller, NEW m \in Monitor, NEW asRow \in BOOLEAN,
                CreateDesktop(t, m, asRow)
         PROVE  Same
    BY <1>4, <2>11 DEF CreateDesktop
  <2> QED BY <1>7, <2>1, <2>2, <2>3, <2>4, <2>5, <2>6, <2>7, <2>8, <2>9, <2>10, <2>11, StepCases
<1> QED BY <1>6, <1>7

\* What nobody acted on stays noted until the window is removed.
LEMMA MissedKept ==
  ASSUME TypeOK, [Next]_vars, NEW w \in removalMissed \cup unminimizeMissed
  PROVE  w \in removalMissed' \cup unminimizeMissed' \/ w \notin DOMAIN windowIndex'
<1> DEFINE Kept == /\ removalMissed \subseteq removalMissed'
                   /\ unminimizeMissed \subseteq unminimizeMissed'
<1>1. CASE UNCHANGED vars
  BY <1>1 DEF vars, bootVars
<1>2. CASE Next
  <2>1. ASSUME NEW t \in Caller, NEW x \in WorkspaceId, BeginSwitch(t, x) \/ BeginDestroy(t, x)
        PROVE  Kept
    BY <2>1 DEF BeginSwitch, BeginDestroy, bootVars
  <2>2. ASSUME NEW t \in Caller, NEW v \in Window, NEW x \in WorkspaceId, BeginSendTo(t, v, x)
        PROVE  Kept
    BY <2>2 DEF BeginSendTo, bootVars
  <2>3. ASSUME NEW t \in Thread,
               \/ AddLocked(t) \/ SwitchLocked(t) \/ SwitchSettled(t) \/ SendLocked(t)
               \/ DestroyLocked(t) \/ Announce(t)
        PROVE  Kept
    BY <2>3 DEF AddLocked, SwitchLocked, Stay, SwitchSettled, SendLocked, DestroyLocked,
                Announce, MissedBy, bootVars
  <2>4. CASE AppsAdded \/ BootSubscribe
    BY <2>4 DEF AppsAdded, BootSubscribe, bootVars
  <2>5. CASE AppsRemoved
    <3>1. \/ Kept
          \/ \E v : /\ removalMissed' = removalMissed \ {v}
                    /\ unminimizeMissed' = unminimizeMissed \ {v}
                    /\ windowIndex' = [u \in DOMAIN windowIndex \ {v} |-> windowIndex[u]]
      BY <2>5 DEF AppsRemoved, Untrack, Restrict
    <3> QED BY <3>1
  <2>6. CASE HookMinimizeEnd \/ ResolveUnminimized \/ HookRectChange \/ HookShow \/ HookGone
    BY <2>6 DEF HookMinimizeEnd, ResolveUnminimized, HookRectChange, HookShow, HookGone,
                MissedBy, bootVars
  <2>7. ASSUME NEW m \in Monitor, NEW n \in Monitor, ViewAdded(m) \/ Connect(m) \/ Disconnect(m, n)
        PROVE  Kept
    BY <2>7 DEF ViewAdded, Connect, Disconnect, EnvUnchanged, bootVars
  <2>8. ASSUME NEW v \in Window, BootScan(v) \/ RevalidateDrop(v) \/ RevalidateAdd(v)
        PROVE  Kept
    BY <2>8 DEF BootScan, RevalidateDrop, RevalidateAdd, bootVars
  <2>9. ASSUME NEW v \in Window,
               \/ UserMinimize(v) \/ UserUnminimize(v) \/ RectSettled(v)
               \/ WinShow(v) \/ WinHide(v) \/ WinClose(v)
        PROVE  Kept
    BY <2>9 DEF UserMinimize, UserUnminimize, RectSettled, WinShow, WinHide, WinClose,
                EnvUnchanged, bootVars
  <2>10. ASSUME NEW v \in Window, NEW m \in Monitor, MoveWindow(v, m) PROVE Kept
    BY <2>10 DEF MoveWindow, EnvUnchanged, bootVars
  <2>11. ASSUME NEW t \in Caller, NEW m \in Monitor, NEW asRow \in BOOLEAN,
                CreateDesktop(t, m, asRow)
         PROVE  Kept
    BY <2>11 DEF CreateDesktop, bootVars
  <2> QED BY <1>2, <2>1, <2>2, <2>3, <2>4, <2>5, <2>6, <2>7, <2>8, <2>9, <2>10, <2>11, StepCases
<1> QED BY <1>1, <1>2

\* The workspace of a window goes to another one only with its window sent, or closed.
LEMMA HomesMoved ==
  ASSUME HomeInv, HomeInv', [Next]_vars,
         NEW w \in DOMAIN windowIndex, w \in DOMAIN windowIndex',
         ~\E t \in Thread : SendLocked(t) /\ call[t].win = w
  PROVE  windowIndex'[w] = windowIndex[w] \/ windowIndex[w] \notin AllCells(grid')
<1>1. CASE UNCHANGED <<windowIndex>>
  BY <1>1
<1>2. ASSUME NEW t \in Thread, AddLocked(t) PROVE windowIndex'[w] = windowIndex[w]
  <2>1. windowIndex' = windowIndex \/ \E x : windowIndex' = With(windowIndex, call[t].win, x)
    BY <1>2 DEF AddLocked, Push, assignVars
  <2>2. windowIndex' = windowIndex \/ call[t].win # w
    BY <1>2 DEF AddLocked, Rejected, assignVars
  <2> QED BY <2>1, <2>2 DEF With
<1>3. ASSUME NEW t \in Thread, SendLocked(t) PROVE windowIndex'[w] = windowIndex[w]
  <2>1. /\ call[t].win # w
        /\ \/ windowIndex' = windowIndex
           \/ windowIndex' = With(windowIndex, call[t].win, call[t].ws)
    BY <1>3 DEF SendLocked
  <2> QED BY <2>1 DEF With
<1>4. ASSUME NEW t \in Thread, DestroyLocked(t)
      PROVE  windowIndex'[w] = windowIndex[w] \/ windowIndex[w] \notin AllCells(grid')
  <2>1. CASE windowIndex' = windowIndex
    BY <2>1
  <2>2. ASSUME NEW heirs, AllCells(grid') = AllCells(grid) \ DOMAIN heirs,
               windowIndex' = [v \in DOMAIN windowIndex |->
                                 IF windowIndex[v] \in DOMAIN heirs
                                 THEN heirs[windowIndex[v]] ELSE windowIndex[v]]
        PROVE  windowIndex'[w] = windowIndex[w] \/ windowIndex[w] \notin AllCells(grid')
    BY <2>2
  <2> QED BY <1>4, <2>1, <2>2, DestructionMoves DEF assignVars
<1>5. CASE AppsRemoved
  BY <1>5 DEF AppsRemoved, Untrack, Restrict, assignVars
<1> QED BY <1>1, <1>2, <1>3, <1>4, <1>5, HomeSteps DEF HomeVars, assignVars

\* A workspace that was closed is never opened again.
LEMMA ClosedStay ==
  ASSUME HomeInv, HomeInv', [Next]_vars, NEW x, Closed(x)
  PROVE  Closed(x)'
<1>1. usedIds \ AllCells(grid) \subseteq usedIds' \ AllCells(grid')
  BY StepsImplement DEF Assignment!Next, Assignment!vars, Assignment!Open, Assignment!Close,
                        Assignment!Place, Assignment!Pin, Assignment!Forget, Assignment!Move
<1> QED BY <1>1 DEF Closed

-----------------------------------------------------------------------------
(* Stray windows *)

\* The event that will change that, or the note that it was not acted on.
Awaited(w) ==
  \/ RemovalPending(w) \/ w \in removalMissed \cup unminimizeMissed
  \/ UserEvent(w)
  \/ HookCall(w)

StraysAwaited == \A w \in Window : Stray(w) => Awaited(w)

StrayEvents ==
  GoneAnnounced /\ NoGhostWindows /\ BeforeBoot /\ ReportsCounted /\ LocationsConnected

\* The user's event is in the queue, a new window with an old handle has the removal of
\* the last one pending.
LEMMA NewStrays ==
  ASSUME StrayBase, StrayBase', StrayEvents, [Next]_vars, NEW w \in Window, Stray(w)', ~Stray(w)
  PROVE  Awaited(w)'
<1>1. TypeOK /\ TypeOK' /\ hookQueue \in Seq(HookEvent) /\ restored \in [Window -> Nat]
  BY DEF StrayBase, HomeInv, TypeInv, TypeOK
<1>2. CASE UserUnminimize(w)
  <2> DEFINE e == [kind |-> "unminimizedByUser", win |-> w]
  <2>1. hookQueue' = Append(hookQueue, e) /\ restored' = restored
    BY <1>2 DEF UserUnminimize, Emit, EnvUnchanged, managerVars, hideVars
  <2>2. e.win = w /\ e.kind \in Unminimized
    BY DEF Unminimized
  <2> HIDE DEF e
  <2>3. Reported(hookQueue', w) = Reported(hookQueue, w) + 1
    BY <1>1, <2>1, <2>2, ReportsAppended
  <2>4. restored[w] <= Reported(hookQueue, w) /\ Reported(hookQueue, w) \in Nat
    BY <1>1, ReportsFinite DEF StrayEvents, ReportsCounted
  <2> QED BY <1>1, <2>1, <2>3, <2>4 DEF UserEvent, Awaited
<1>3. CASE WinShow(w) /\ w \notin alive
  <2>1. w \notin interactable
    BY <1>3 DEF WinShow, StrayEvents, GoneAnnounced, Waits, DestroyOf
  <2>2. windowIndex' = windowIndex /\ removalMissed' = removalMissed /\ appsQueue' = appsQueue
        /\ call' = call
    BY <1>3 DEF WinShow, EnvUnchanged, managerVars, assignVars, bootVars, appsVars
  <2>3. w \in DOMAIN windowIndex
    BY <2>2, StrayMeans DEF ShownNowhere
  <2>4. RemovalPending(w) \/ w \in removalMissed
    BY <2>1, <2>3 DEF StrayEvents, NoGhostWindows, Tracked
  <2>5. RemovalPending(w) => RemovalPending(w)'
    BY <2>2 DEF RemovalPending, At
  <2> QED BY <2>2, <2>4, <2>5 DEF Awaited
<1> QED BY <1>2, <1>3, StraySteps

\* The dispatcher takes the event: it begins to deal with w, or notes that it does not.
LEMMA EventsTaken ==
  ASSUME StrayBase, StrayBase', HookMinimizeEnd, NEW w \in Window, Stray(w)',
         Head(hookQueue).win = w, booted => restored[w] = 0
  PROVE  Awaited(w)'
<1>1. /\ call \in [Thread -> Call] /\ "hook" \in Thread
      /\ windowIndex' = windowIndex /\ w \in DOMAIN windowIndex'
      /\ restored \in [Window -> Nat]
  BY StrayMeans DEF StrayBase, HomeInv, TypeInv, TypeOK, Thread, HookMinimizeEnd, assignVars,
                    ShownNowhere
<1>2. CASE booted
  <2>1. call' = [call EXCEPT !["hook"] = [pc |-> "resolving", win |-> w, ws |-> windowIndex[w],
                                          mon |-> None]]
    BY <1>1, <1>2 DEF HookMinimizeEnd, Goto
  <2> QED BY <1>1, <2>1 DEF Awaited, HookCall, At
<1>3. CASE ~booted
  BY <1>3 DEF HookMinimizeEnd, Awaited
<1> QED BY <1>2, <1>3

\* The dispatcher goes on with w, and gives up only with a note.
LEMMA CallsResolved ==
  ASSUME StrayBase, StrayBase', StrayEvents, ResolveUnminimized, NEW w \in Window, Stray(w)',
         HookCall(w)
  PROVE  Awaited(w)'
<1> DEFINE x == call["hook"].ws
<1>1. /\ call \in [Thread -> Call] /\ "hook" \in Thread /\ None \notin Monitor /\ None \notin Window
      /\ DOMAIN grid \subseteq Monitor
      /\ UNCHANGED <<grid, usedIds, windowIndex, workspaceIndex>>
      /\ w \in DOMAIN windowIndex
  BY StrayMeans, ConstantsAssumption
     DEF StrayBase, HomeInv, TypeInv, TypeOK, IsMap, Thread, ResolveUnminimized, gridVars,
         assignVars, ShownNowhere
<1>2. /\ call["hook"].win = w
      /\ windowIndex[w] = x \/ Closed(x)
  BY DEF HookCall, ResolveUnminimized, At
<1>3. Closed(x) => x \notin DOMAIN workspaceIndex
  BY DEF StrayBase, IndexInv, WorkspaceIndexSound, Closed, AllCells
<1>4. CASE unminimizeMissed' = MissedBy("hook")
  <2>1. w \in unminimizeMissed'
    BY <1>1, <1>2, <1>4 DEF MissedBy
  <2> QED BY <2>1 DEF Awaited
<1>5. CASE x \in DOMAIN workspaceIndex /\ Goto("hook", "switching", w, x, workspaceIndex[x])
  <2>1. call'["hook"] = [pc |-> "switching", win |-> w, ws |-> x, mon |-> workspaceIndex[x]]
    BY <1>1, <1>5 DEF Goto
  <2>2. windowIndex'[w] = x
    BY <1>1, <1>2, <1>3, <1>5
  <2> QED BY <2>1, <2>2 DEF Awaited, HookCall, At
<1>6. ASSUME NEW m \in ReadLocation(w), x \in DOMAIN workspaceIndex,
             workspaceIndex[x] \notin connected, m \in DOMAIN grid,
             active[m] \in DOMAIN workspaceIndex,
             Goto("hook", "sending", w, active[m], workspaceIndex[active[m]])
      PROVE  Awaited(w)'
  <2>1. call'["hook"] = [pc |-> "sending", win |-> w, ws |-> active[m],
                         mon |-> workspaceIndex[active[m]]]
    BY <1>1, <1>6 DEF Goto
  <2>2. m \in connected
    BY <1>1, <1>6 DEF ReadLocation, StrayEvents, LocationsConnected
  <2>3. workspaceIndex[active[m]] = m
    <3>1. /\ active[m] \in Cells(grid[m])
          /\ workspaceIndex[active[m]] \in DOMAIN grid
          /\ active[m] \in Cells(grid[workspaceIndex[active[m]]])
          /\ \A k \in DOMAIN grid : k # m => Cells(grid[k]) \cap Cells(grid[m]) = {}
      BY <1>6 DEF StrayBase, HomeInv, GridInv, GridsWellFormed, IndexInv, WorkspaceIndexSound
    <3> QED BY <3>1
  <2>4. HomeMonitor(w) = workspaceIndex[x]
    BY <1>2, <1>3, <1>6 DEF HomeMonitor
  <2>5. HomeMonitor(w)' # m
    BY <1>1, <1>6, <2>2, <2>4 DEF HomeMonitor
  <2> QED BY <2>1, <2>3, <2>5 DEF Awaited, HookCall, At
<1> QED BY <1>2, <1>4, <1>5, <1>6 DEF ResolveUnminimized

LEMMA CallsFinished ==
  ASSUME StrayBase, StrayBase', NEW w \in Window, Stray(w)', HookCall(w),
         SwitchLocked("hook") \/ SendLocked("hook")
  PROVE  Awaited(w)'
<1> DEFINE x == call["hook"].ws
           m == call["hook"].mon
<1>1. "hook" \in Thread /\ call["hook"].win = w /\ w # None
  BY ConstantsAssumption DEF Thread, HookCall
<1>2. CASE SwitchLocked("hook")
  <2>1. windowIndex[w] = x \/ Closed(x)
    BY <1>2 DEF HookCall, SwitchLocked, At
  <2>2. ~IsOn(x, m)
    BY <1>1, <1>2, <2>1, SwitchingLeavesNone DEF Closed, IsOn, AllCells
  <2>3. unminimizeMissed' = MissedBy("hook")
    BY <1>2, <2>2 DEF SwitchLocked, Stay, CanSwitch
  <2> QED BY <1>1, <2>3 DEF MissedBy, Awaited
<1>3. CASE SendLocked("hook")
  <2>1. ~CanSend(w, m, x) /\ HomeMonitor(w) # m
    BY <1>1, <1>3, SendingLeavesNone DEF HookCall, SendLocked, At
  <2>2. w \in DOMAIN windowIndex
    BY <1>1, <1>3, SendingLeavesNone DEF Stray, OnHiddenWorkspace
  <2>3. ~IsOn(x, m)
    BY <2>1, <2>2 DEF StrayBase, MonitorsFound, CanSend, IsOn
  <2>4. unminimizeMissed' = MissedBy("hook")
    BY <1>1, <1>3, <2>1, <2>3 DEF SendLocked
  <2> QED BY <1>1, <2>4 DEF MissedBy, Awaited
<1> QED BY <1>2, <1>3

\* Meanwhile the other threads may destroy the workspace it holds, but not open it again,
\* nor bring w to the monitor it is to be sent to.
LEMMA HookCallKept ==
  ASSUME StrayBase, StrayBase', [Next]_vars, NEW w \in Window, Stray(w), Stray(w)', HookCall(w),
         call'["hook"] = call["hook"]
  PROVE  HookCall(w)'
<1> DEFINE x == call["hook"].ws
<1>1. w \in DOMAIN windowIndex /\ w \in DOMAIN windowIndex'
  BY StrayMeans DEF ShownNowhere
<1>2. CASE \E t \in Thread : SendLocked(t) /\ call[t].win = w
  <2>1. UNCHANGED <<windowIndex, workspaceIndex, grid, usedIds>>
    BY <1>2, SendingLeavesNone DEF SendLocked, gridVars
  <2> QED BY <2>1 DEF HookCall, At, Closed, HomeMonitor
<1>3. CASE ~\E t \in Thread : SendLocked(t) /\ call[t].win = w
  <2>1. HomeMonitor(w)' = HomeMonitor(w)
    BY <1>1, <1>3, MonitorsKept DEF StrayBase
  <2>2. windowIndex'[w] = windowIndex[w] \/ windowIndex[w] \notin AllCells(grid')
    BY <1>1, <1>3, HomesMoved DEF StrayBase
  <2>3. windowIndex[w] \in usedIds'
    <3>1. windowIndex[w] \in AllCells(grid)
      BY <1>1 DEF StrayBase, MonitorsFound, AllCells
    <3> QED BY <3>1, CellsUsed, UsedIdsKept DEF StrayBase, HomeInv
  <2>4. Closed(x) => Closed(x)'
    BY ClosedStay DEF StrayBase
  <2>5. windowIndex[w] = x => windowIndex'[w] = x \/ x \in usedIds' \ AllCells(grid')
    BY <2>2, <2>3
  <2>6. CASE At("hook", "sending")
    BY <2>1, <2>6 DEF HookCall, At
  <2>7. CASE ~At("hook", "sending")
    BY <2>4, <2>5, <2>7 DEF HookCall, At, Closed
  <2> QED BY <2>6, <2>7
<1> QED BY <1>2, <1>3

LEMMA StraysPreserved ==
  ASSUME StrayBase, StrayBase', StrayEvents, StraysAwaited, [Next]_vars
  PROVE  StraysAwaited'
<1> SUFFICES ASSUME NEW w \in Window, Stray(w)' PROVE Awaited(w)'
  BY DEF StraysAwaited
<1>1. TypeOK /\ TypeOK' /\ w \in DOMAIN windowIndex'
  BY StrayMeans DEF StrayBase, HomeInv, TypeInv, ShownNowhere
<1>2. CASE ~Stray(w)
  BY <1>2, NewStrays
<1>3. CASE Stray(w)
  <2>1. Awaited(w)
    BY <1>3 DEF StraysAwaited
  <2>2. CASE RemovalPending(w)
    <3>1. CASE AppsRemoved /\ Head(appsQueue).win = w
      <4>1. w \notin DOMAIN windowIndex' \/ w \in removalMissed'
        BY <3>1 DEF AppsRemoved, Untrack, Restrict
      <4> QED BY <1>1, <4>1 DEF Awaited
    <3>2. CASE ~(AppsRemoved /\ Head(appsQueue).win = w)
      BY <1>1, <2>2, <3>2, RemovalsKept DEF Awaited
    <3> QED BY <3>1, <3>2
  <2>3. CASE w \in removalMissed \cup unminimizeMissed
    BY <1>1, <2>3, MissedKept DEF Awaited
  <2>4. CASE UserEvent(w)
    <3>1. CASE UserEvent(w)'
      BY <3>1 DEF Awaited
    <3>2. CASE HookMinimizeEnd /\ Head(hookQueue).win = w /\ (booted => restored[w] = 0)
      BY <3>2, EventsTaken
    <3> QED BY <1>1, <2>4, <3>1, <3>2, ReportsKept DEF StrayEvents
  <2>5. CASE HookCall(w)
    <3>1. InHookCall
      BY <2>5 DEF HookCall, InHookCall
    <3>2. CASE call'["hook"] = call["hook"]
      BY <1>3, <2>5, <3>2, HookCallKept DEF Awaited
    <3> QED BY <1>1, <2>5, <3>1, <3>2, HookCallSteps, CallsResolved, CallsFinished
  <2> QED BY <2>1, <2>2, <2>3, <2>4, <2>5 DEF Awaited
<1> QED BY <1>2, <1>3

LEMMA StraysInitially ==
  ASSUME Init
  PROVE  BeforeBoot /\ ReportsCounted /\ LocationsConnected /\ StraysAwaited
<1>1. TypeOK /\ HomeInv
  BY TypesInitially, GridsInitially, HomesInitially DEF HomeInv, TypeInv
<1>2. BeforeBoot
  BY DEF Init, BeforeBoot, Idle
<1>3. ReportsCounted
  <2>1. /\ hookQueue \in Seq(HookEvent)
        /\ \A w \in Window : restored[w] = 0
    BY <1>1 DEF Init, TypeOK
  <2>2. \A w \in Window : Reported(hookQueue, w) \in Nat
    BY <2>1, ReportsFinite
  <2> QED BY <2>1, <2>2 DEF ReportsCounted
<1>4. LocationsConnected
  BY DEF Init, LocationsConnected
<1>5. ASSUME NEW w \in Window PROVE ~Stray(w)
  <2>1. PICK s \in Stored :
          LET added == connected \ DOMAIN s.grid
          IN \E new \in Injection(added, WorkspaceId \ AllCells(s.grid)) :
               /\ grid = [m \in DOMAIN s.grid \cup added |->
                            IF m \in added THEN << <<new[m]>> >> ELSE s.grid[m]]
               /\ active = [m \in DOMAIN s.grid \cup added |->
                              IF m \in added THEN new[m] ELSE s.active[m]]
               /\ workspaceIndex = WorkspacesOf(s.grid)
               /\ \A x \in AllCells(s.grid) \ Range(s.active) : windows[x] \subseteq minimized
    BY DEF Init
  <2>2. IsSaved(s)
    BY StoredAssumption
  <2>3. SUFFICES ASSUME OnHiddenWorkspace(w) PROVE w \in minimized
    BY DEF Stray
  <2> DEFINE x == windowIndex[w]
  <2>4. /\ w \in DOMAIN windowIndex /\ x \in DOMAIN workspaceIndex
        /\ active[workspaceIndex[x]] # x
    BY <2>3 DEF OnHiddenWorkspace
  <2>5. x \in WorkspaceId /\ w \in windows[x]
    BY <1>1, <2>4, HomeOf DEF HomeInv, TypeInv
  <2>6. /\ x \in AllCells(s.grid)
        /\ workspaceIndex[x] \in DOMAIN s.grid /\ x \in Cells(s.grid[workspaceIndex[x]])
    BY <2>1, <2>4, WorkspacesOfTyped
  <2>7. x \notin Range(s.active)
    <3>1. SUFFICES ASSUME NEW m \in DOMAIN s.grid, s.active[m] = x PROVE FALSE
      BY <2>2 DEF IsSaved, Range
    <3>2. m = workspaceIndex[x]
      BY <2>2, <2>6, <3>1 DEF IsSaved
    <3>3. active[m] = s.active[m]
      BY <2>1, <3>1
    <3> QED BY <2>4, <3>1, <3>2, <3>3
  <2> QED BY <2>1, <2>5, <2>6, <2>7
<1> QED BY <1>2, <1>3, <1>4, <1>5 DEF StraysAwaited

\* A window of a hidden workspace is minimized, or an event that will change that is on
\* its way: no order of switches, sends, destructions, displays and the user leaves a
\* window visible that nobody is going to deal with, unless one of its events was dropped.
THEOREM NoStraysAreLeft == Spec => []NoStrayWindows
<1> DEFINE Timely == BeforeBoot /\ ReportsCounted /\ LocationsConnected
<1>1. Spec => []StrayBase
  <2>1. HomeInv /\ IndexInv => StrayBase
    BY MonitorsAreFound, HiddenIsFound DEF StrayBase
  <2> QED BY <2>1, HomeInvHolds, IndexInvHolds, PTL
<1>2. Spec => []Timely
  <2>1. Init => Timely
    BY StraysInitially
  <2>2. StrayBase /\ StrayBase' /\ Timely /\ [Next]_vars => Timely'
    <3> SUFFICES ASSUME StrayBase, StrayBase', Timely, [Next]_vars PROVE Timely'
      OBVIOUS
    <3>1. TypeOK /\ TypeOK'
      BY DEF StrayBase, HomeInv, TypeInv
    <3>2. ReportsCounted'
      BY <3>1, ReportsKept DEF ReportsCounted
    <3> QED BY <3>1, <3>2, BeforeBootPreserved, LocationsPreserved
  <2> QED BY <1>1, <2>1, <2>2, PTL DEF Spec
<1>3. Timely /\ GoneAnnounced /\ NoGhostWindows => StrayEvents
  BY DEF StrayEvents
<1>4. Init => StraysAwaited
  BY StraysInitially
<1>5. StrayBase /\ StrayBase' /\ StrayEvents /\ StraysAwaited /\ [Next]_vars => StraysAwaited'
  BY StraysPreserved
<1>6. StrayBase /\ StraysAwaited => NoStrayWindows
  <2> SUFFICES ASSUME StrayBase, NEW w \in Window, Awaited(w)
               PROVE  EventPending(w) \/ w \in unminimizeMissed \cup removalMissed
    BY DEF StraysAwaited, NoStrayWindows
  <2>1. CASE UserEvent(w)
    <3>1. hookQueue \in Seq(HookEvent) /\ restored[w] \in Nat
      BY DEF StrayBase, HomeInv, TypeInv, TypeOK
    <3>2. Reports(hookQueue, w) # {}
      <4>1. Cardinality({}) = 0
        BY FS_EmptySet
      <4>2. 0 < Cardinality(Reports(hookQueue, w))
        BY <2>1, <3>1, ReportsFinite DEF UserEvent, Reported
      <4> QED BY <4>1, <4>2
    <3> QED BY <3>2 DEF Reports, EventPending
  <2>2. CASE HookCall(w)
    BY <2>2 DEF HookCall, EventPending
  <2> QED BY <2>1, <2>2 DEF Awaited, EventPending
<1> QED BY <1>1, <1>2, <1>3, <1>4, <1>5, <1>6, GoneHolds, NoGhostsAreLeft, PTL DEF Spec
=============================================================================
