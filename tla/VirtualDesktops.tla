-------------------------- MODULE VirtualDesktops --------------------------
(***************************************************************************)
(* VdManager (src/background/virtual_desktops/mod.rs): which workspaces    *)
(* each monitor has, which window is on which workspace, the two indexes   *)
(* derived from that, and the hiding and restoring of windows when the     *)
(* active workspace changes.                                               *)
(*                                                                         *)
(* A closure run under the `monitors` lock is one atomic step. What a      *)
(* thread reads before it takes the lock is kept in call[t] and used by a  *)
(* later step, so every other thread can run in between. Windows lists are *)
(* sets here: their order only decides which window is restored last.      *)
(***************************************************************************)
EXTENDS WorkspaceGrid, FiniteSets

CONSTANTS
  Monitor,      \* stable monitor ids
  Window,       \* window handles; a handle may be closed and used again
  WorkspaceId,  \* supply of uuids, each used for one workspace only
  Caller,       \* threads running commands (CLI and Tauri handlers)
  None,         \* "no value" (an Err or a missing key)
  Stored,       \* what workspaces2.json may hold at start-up
  Env,          \* the kinds of external events the instance allows
  MaxHook,      \* bound on window events waiting for the hook dispatcher
  MaxApps       \* bound on UserApps events waiting for their dispatcher

EnvKinds == {"minimize", "unminimize", "show", "hide", "close", "move",
             "connect", "disconnect"}

Thread == Caller \cup {"hook", "apps", "boot", "reval"}

VARIABLES
  \* --- VdManager
  grid,            \* monitor -> grid, for the monitors that have an entry
  active,          \* monitor -> its active workspace
  windows,         \* workspace -> windows of its list
  workspaceIndex,  \* workspace -> monitor
  windowIndex,     \* window -> workspace
  pinned,          \* windows on no workspace, shown on all
  switching,       \* switches in flight
  usedIds,         \* uuids given out so far
  \* --- why windows are minimized
  marks,           \* MINIMIZED_BY_WORKSPACES
  restored,        \* RESTORED_EVENT_QUEUE: entries waiting, per window
  \* --- threads
  call,            \* where each thread is and what it has read
  booted,          \* VdManager::create has subscribed to everything
  toScan,          \* interactable windows the start-up scan has not seen yet
  \* --- UserAppsManager
  interactable,    \* interactable_windows
  appsQueue,       \* its event channel
  \* --- Windows
  alive,           \* handles of existing windows
  shown,           \* those for which is_interactable_window holds
  minimized,       \* iconic windows
  location,        \* monitor a window is on
  connected,       \* MonitorManager's cached ids
  hookQueue,       \* HookManager's channel (the events VdManager handles)
  rectChanged,     \* windows whose rect change the debouncer still holds back
  viewsAdded,      \* ViewAdded events not yet delivered
  \* --- history, no code reads these
  minimizedByUser, \* windows the user minimized and nobody brought back
  removalMissed,   \* windows whose Removed event came before the subscription
  unminimizeMissed \* windows whose unminimize event nobody acted on

gridVars == <<grid, active, usedIds>>
assignVars == <<windows, workspaceIndex, windowIndex, pinned>>
hideVars == <<marks, restored>>
appsVars == <<interactable, appsQueue>>
osVars == <<alive, shown, minimized, location, minimizedByUser>>
monitorVars == <<connected, viewsAdded>>
bootVars == <<booted, toScan, removalMissed, unminimizeMissed>>

managerVars == <<gridVars, assignVars, switching, hideVars>>
worldVars == <<osVars, monitorVars, hookQueue, rectChanged>>

vars == <<managerVars, call, bootVars, appsVars, worldVars>>

-----------------------------------------------------------------------------
(* Types *)

AppsEvent == [kind : {"added", "removed"}, win : Window]

\* "unminimizedByUser" and "unminimizedByRestore" are both SystemMinimizeEnd:
\* the code is not told who caused the event, the properties are.
HookEvent == [kind : {"unminimizedByUser", "unminimizedByRestore", "rectChange",
                      "show", "hide", "destroy"},
              win : Window]

Pc == {"idle", "adding", "sending", "switching", "settling", "destroying",
       "resolving", "announceAdded", "announceRemoved"}

Call == [pc : Pc, win : Window \cup {None}, ws : WorkspaceId \cup {None},
         mon : Monitor \cup {None}]

Idle == [pc |-> "idle", win |-> None, ws |-> None, mon |-> None]

\* f is a partial function (a HashMap) from S to T.
IsMap(f, S, T) == DOMAIN f \subseteq S /\ f \in [DOMAIN f -> T]

ASSUME ConstantsAssumption ==
  /\ IsFiniteSet(Window) /\ IsFiniteSet(Caller)
  /\ None \notin Monitor \cup Window \cup WorkspaceId
  /\ Caller \cap {"hook", "apps", "boot", "reval"} = {}
  /\ Env \subseteq EnvKinds
  /\ MaxHook \in Nat /\ MaxApps \in Nat

\* A saved state: written by save_state, so its grids have been through
\* sanitize. The monitors and the pinned windows are read one after the other,
\* so a window may be saved both as pinned and on a workspace.
IsSaved(s) ==
  /\ DOMAIN s = {"grid", "active", "windows", "pinned"}
  /\ DOMAIN s.grid \subseteq Monitor
  /\ \A m \in DOMAIN s.grid : IsGrid(s.grid[m], WorkspaceId)
  /\ \A m, n \in DOMAIN s.grid : m # n => Cells(s.grid[m]) \cap Cells(s.grid[n]) = {}
  /\ s.active \in [DOMAIN s.grid -> WorkspaceId]
  /\ \A m \in DOMAIN s.grid : s.active[m] \in Cells(s.grid[m])
  /\ s.windows \in [WorkspaceId -> SUBSET Window]
  /\ \A x, y \in WorkspaceId : x # y => s.windows[x] \cap s.windows[y] = {}
  /\ \A x \in WorkspaceId :
       s.windows[x] # {} => \E m \in DOMAIN s.grid : x \in Cells(s.grid[m])
  /\ s.pinned \subseteq Window

ASSUME StoredAssumption == \A s \in Stored : IsSaved(s)

TypeOK ==
  /\ IsMap(grid, Monitor, Seq(Seq(WorkspaceId)))
  /\ active \in [DOMAIN grid -> WorkspaceId]
  /\ windows \in [WorkspaceId -> SUBSET Window]
  /\ IsMap(workspaceIndex, WorkspaceId, Monitor)
  /\ IsMap(windowIndex, Window, WorkspaceId)
  /\ pinned \subseteq Window
  /\ switching \in Nat
  /\ usedIds \subseteq WorkspaceId
  /\ marks \subseteq Window
  /\ restored \in [Window -> Nat]
  /\ call \in [Thread -> Call]
  /\ booted \in BOOLEAN
  /\ toScan \subseteq Window
  /\ interactable \subseteq Window
  /\ appsQueue \in Seq(AppsEvent)
  /\ shown \subseteq alive /\ alive \subseteq Window
  /\ minimized \subseteq alive
  /\ location \in [Window -> Monitor]
  /\ connected \subseteq Monitor
  /\ hookQueue \in Seq(HookEvent)
  /\ rectChanged \subseteq Window
  /\ viewsAdded \subseteq Monitor
  /\ minimizedByUser \subseteq Window
  /\ removalMissed \subseteq Window
  /\ unminimizeMissed \subseteq Window

-----------------------------------------------------------------------------
(* Derived state *)

AllCells(grids) == UNION {Cells(grids[m]) : m \in DOMAIN grids}

\* Fault: every workspace is taken for one of the first monitor.
WorkspacesOfOneMonitor(grids) ==
  [x \in AllCells(grids) |-> CHOOSE m \in DOMAIN grids : TRUE]

\* bridge::get_indexes
WorkspacesOf(grids) ==
  [x \in AllCells(grids) |-> CHOOSE m \in DOMAIN grids : x \in Cells(grids[m])]

WindowsOf(lists) ==
  [w \in UNION {lists[x] : x \in WorkspaceId} |->
     CHOOSE x \in WorkspaceId : w \in lists[x]]

\* Fault: the workspaces are not indexed again.
ReplaceWindowIndex(grids, lists) ==
  windowIndex' = WindowsOf(lists) /\ UNCHANGED workspaceIndex

ReplaceIndexes(grids, lists) ==
  workspaceIndex' = WorkspacesOf(grids) /\ windowIndex' = WindowsOf(lists)

Unused == WorkspaceId \ usedIds

Tracked == DOMAIN windowIndex \cup pinned

\* window.monitor().stable_id(): the id of a monitor may not be readable.
ReadLocation(w) == {location[w], None}

\* f with x mapped to y (upsert)
With(f, x, y) == [z \in DOMAIN f \cup {x} |-> IF z = x THEN y ELSE f[z]]

-----------------------------------------------------------------------------
\* The hook dispatcher gives up on the window it was called for.
MissedBy(t) ==
  IF t = "hook" THEN unminimizeMissed \cup ({call[t].win} \ {None}) ELSE unminimizeMissed

(***************************************************************************)
(* Start-up: VdManager::create up to the scan of the interactable windows. *)
(* Nobody else can use the manager before create returns, so this part is  *)
(* the initial state. Stored lists keep only windows that still qualify,   *)
(* the lists of inactive workspaces are marked and minimized whether or    *)
(* not the user had minimized them, and monitors that were not stored get  *)
(* a workspace of their own.                                               *)
(***************************************************************************)
Init ==
  /\ connected \in (SUBSET Monitor) \ {{}}
  /\ shown \in SUBSET Window /\ alive = shown
  /\ \E s \in Stored :
       LET added  == connected \ DOMAIN s.grid
           hidden == UNION {windows[x] : x \in AllCells(s.grid) \ Range(s.active)}
       IN \E new \in Injection(added, WorkspaceId \ AllCells(s.grid)) :
            /\ grid = [m \in DOMAIN s.grid \cup added |->
                         IF m \in added THEN << <<new[m]>> >> ELSE s.grid[m]]
            /\ active = [m \in DOMAIN s.grid \cup added |->
                           IF m \in added THEN new[m] ELSE s.active[m]]
            /\ usedIds = AllCells(s.grid) \cup Range(new)
            /\ windows = [x \in WorkspaceId |-> (s.windows[x] \ s.pinned) \cap shown]
            /\ pinned = s.pinned \cap shown
            /\ workspaceIndex = WorkspacesOf(s.grid)
            /\ windowIndex = WindowsOf(windows)
            /\ marks = hidden
            /\ \E iconic \in SUBSET shown : minimized = iconic \cup hidden
  /\ location \in [Window -> connected]
  /\ switching = 0
  /\ restored = [w \in Window |-> 0]
  /\ call = [t \in Thread |-> Idle]
  /\ booted = FALSE
  /\ interactable = shown
  /\ toScan = interactable
  /\ appsQueue = <<>> /\ hookQueue = <<>>
  /\ rectChanged = {} /\ viewsAdded = {}
  /\ minimizedByUser = minimized \ marks
  /\ removalMissed = {} /\ unminimizeMissed = {}

-----------------------------------------------------------------------------
(* Threads *)

At(t, pc) == call[t].pc = pc

Goto(t, pc, w, x, m) ==
  call' = [call EXCEPT ![t] = [pc |-> pc, win |-> w, ws |-> x, mon |-> m]]

Return(t) == call' = [call EXCEPT ![t] = Idle]
-----------------------------------------------------------------------------
(***************************************************************************)
(* DesktopWorkspace::hide on one list, then ::restore on another one.      *)
(* hide marks and minimizes what is not minimized yet; restore brings back *)
(* the minimized windows that are marked, announcing each of them in       *)
(* RESTORED_EVENT_QUEUE first, and unmarks.                                *)
(***************************************************************************)
HideThenRestore(previous, next) ==
  LET hidden == {w \in previous : w \in alive \ minimized}
      back   == {w \in next : w \in (minimized \cup hidden) \cap (marks \cup hidden)}
  IN /\ marks' = (marks \cup hidden) \ next
     /\ minimized' = (minimized \cup hidden) \ back
     /\ minimizedByUser' = minimizedByUser \ back
     /\ restored' = [w \in Window |-> restored[w] + IF w \in back THEN 1 ELSE 0]
     /\ \E order \in SetToSeqs(back) :
          hookQueue' = hookQueue \o
            [i \in DOMAIN order |-> [kind |-> "unminimizedByRestore", win |-> order[i]]]
     /\ UNCHANGED <<alive, shown, location>>

-----------------------------------------------------------------------------
(* add_to_current_workspace, called by the apps and hook dispatchers and   *)
(* by the start-up scan. The monitor is read before the lock is taken.     *)

BeginAdd(t, w) ==
  \E m \in ReadLocation(w) : Goto(t, "adding", w, None, m)

\* Fault: only the window is indexed.
PushUnindexed(w, m, x) ==
  /\ windows' = [windows EXCEPT ![x] = @ \cup {w}]
  /\ windowIndex' = With(windowIndex, w, x)
  /\ UNCHANGED <<workspaceIndex, pinned>>

Push(w, m, x) ==
  /\ windows' = [windows EXCEPT ![x] = @ \cup {w}]
  /\ workspaceIndex' = With(workspaceIndex, x, m)
  /\ windowIndex' = With(windowIndex, w, x)
  /\ UNCHANGED pinned

\* Fault: a window that went away meanwhile is not noticed.
RejectedIfTracked(w) == w \in pinned \/ w \in DOMAIN windowIndex

\* Already on a workspace or pinned, or no longer interactable.
Rejected(w) == w \in pinned \/ w \in DOMAIN windowIndex \/ w \notin interactable

AddLocked(t) ==
  LET w == call[t].win
      m == call[t].mon
  IN /\ At(t, "adding")
     /\ \/ /\ Rejected(w)
           /\ UNCHANGED <<gridVars, assignVars>>
        \/ /\ ~Rejected(w) /\ m = None      \* monitor id not readable: pinned for good
           /\ pinned' = pinned \cup {w}
           /\ UNCHANGED <<gridVars, windows, workspaceIndex, windowIndex>>
        \/ /\ ~Rejected(w) /\ m \in DOMAIN grid
           /\ Push(w, m, active[m])
           /\ UNCHANGED gridVars
        \/ /\ ~Rejected(w) /\ m # None /\ m \notin DOMAIN grid
           /\ \E x \in Unused :
                /\ grid' = With(grid, m, << <<x>> >>)
                /\ active' = With(active, m, x)
                /\ usedIds' = usedIds \cup {x}
                /\ Push(w, m, x)
     /\ Return(t)
     /\ UNCHANGED <<switching, hideVars, bootVars, appsVars, worldVars>>

\* Fault: the window stays in its list.
UntrackInIndex(w) ==
  /\ windowIndex' = Restrict(windowIndex, DOMAIN windowIndex \ {w})
  /\ pinned' = pinned \ {w}
  /\ UNCHANGED <<windows, workspaceIndex>>

\* remove(): the index, the pinned list and every workspace list.
Untrack(w) ==
  /\ windowIndex' = Restrict(windowIndex, DOMAIN windowIndex \ {w})
  /\ pinned' = pinned \ {w}
  /\ windows' = [x \in WorkspaceId |-> windows[x] \ {w}]
  /\ UNCHANGED workspaceIndex

-----------------------------------------------------------------------------
(* switch_to_id: the monitor comes from the workspace index, before the    *)
(* lock. After the switch the thread sleeps 300 ms, and only then is the   *)
(* switch no longer in flight.                                             *)

BeginSwitch(t, x) ==
  /\ At(t, "idle") /\ booted
  /\ Len(hookQueue) <= MaxHook
  /\ x \in DOMAIN workspaceIndex
  /\ Goto(t, "switching", None, x, workspaceIndex[x])
  /\ UNCHANGED <<managerVars, bootVars, appsVars, worldVars>>

\* False when the workspace went away since the index was read.
IsOn(x, m) == m \in DOMAIN grid /\ x \in Cells(grid[m])

CanSwitch(m, x) == IsOn(x, m) /\ active[m] # x

\* Fault: the counter goes down although this call never raised it.
StayAndSettle(t) ==
  /\ switching' = switching - 1
  /\ UNCHANGED <<active, unminimizeMissed, hideVars, osVars, hookQueue>>
  /\ Return(t)

\* The workspace is active already, or is gone (an error).
Stay(t) ==
  /\ unminimizeMissed' = IF IsOn(call[t].ws, call[t].mon) THEN unminimizeMissed
                                                        ELSE MissedBy(t)
  /\ UNCHANGED <<active, switching, hideVars, osVars, hookQueue>>
  /\ Return(t)

SwitchLocked(t) ==
  LET x == call[t].ws
      m == call[t].mon
  IN /\ At(t, "switching")
     /\ \/ ~CanSwitch(m, x) /\ Stay(t)
        \/ /\ CanSwitch(m, x)
           /\ active' = [active EXCEPT ![m] = x]
           /\ switching' = switching + 1
           /\ HideThenRestore(windows[active[m]], windows[x])
           /\ Goto(t, "settling", None, x, m)
           /\ UNCHANGED unminimizeMissed
     /\ UNCHANGED <<grid, usedIds, assignVars, booted, toScan, removalMissed,
                    appsVars, monitorVars, rectChanged>>

\* Fault: a flag instead of a counter.
SwitchSettledFlag(t) ==
  /\ At(t, "settling")
  /\ switching' = 0
  /\ Return(t)
  /\ UNCHANGED <<gridVars, assignVars, hideVars, bootVars, appsVars, worldVars>>

SwitchSettled(t) ==
  /\ At(t, "settling")
  /\ switching' = switching - 1
  /\ Return(t)
  /\ UNCHANGED <<gridVars, assignVars, hideVars, bootVars, appsVars, worldVars>>

-----------------------------------------------------------------------------
(* send_to *)

BeginSendTo(t, w, x) ==
  /\ At(t, "idle") /\ booted
  /\ x \in DOMAIN workspaceIndex
  /\ Goto(t, "sending", w, x, workspaceIndex[x])
  /\ UNCHANGED <<managerVars, bootVars, appsVars, worldVars>>

\* On a workspace, though not on this one, and the target is still there.
CanSend(w, m, x) ==
  /\ w \in DOMAIN windowIndex /\ windowIndex[w] # x
  /\ IsOn(x, m)

\* Fault: the window is left where it was.
CopiedTo(w, x) == [windows EXCEPT ![x] = @ \cup {w}]

MovedTo(w, x) ==
  [y \in WorkspaceId |-> IF y = x THEN windows[y] \cup {w} ELSE windows[y] \ {w}]

\* Fault: any workspace of a known monitor is taken for a shown one.
TargetIsKnown(m, x) == m \in DOMAIN grid

TargetIsActive(m, x) == active[m] = x

\* Fault: nothing tells later why the window is minimized.
MinimizeUnmarked(w) ==
  /\ minimized' = minimized \cup ({w} \cap alive)
  /\ UNCHANGED marks

\* Marked even if the user has minimized it.
MinimizeMarked(w) ==
  /\ marks' = marks \cup {w}
  /\ minimized' = minimized \cup ({w} \cap alive)

SendLocked(t) ==
  LET w == call[t].win
      x == call[t].ws
      m == call[t].mon
  IN /\ At(t, "sending")
     /\ \/ /\ ~CanSend(w, m, x)
           /\ unminimizeMissed' = IF IsOn(x, m) THEN unminimizeMissed ELSE MissedBy(t)
           /\ UNCHANGED <<windows, windowIndex, marks, minimized>>
        \/ /\ CanSend(w, m, x)
           /\ windows' = MovedTo(w, x)
           /\ windowIndex' = With(windowIndex, w, x)
           /\ \/ TargetIsActive(m, x) /\ UNCHANGED <<marks, minimized>>
              \/ ~TargetIsActive(m, x) /\ MinimizeMarked(w)
           /\ UNCHANGED unminimizeMissed
     /\ Return(t)
     /\ UNCHANGED <<gridVars, workspaceIndex, pinned, switching, restored, booted,
                    toScan, removalMissed, appsVars, alive, shown, location,
                    minimizedByUser, monitorVars, hookQueue, rectChanged>>
-----------------------------------------------------------------------------
(* create_desktop, one step under the lock *)

\* Bound: ids are kept back for the monitors that may still need an entry.
EnoughIds(n) ==
  Cardinality(Unused) >= n + Cardinality(Monitor \ DOMAIN grid)

CreateDesktop(t, m, asRow) ==
  LET n == IF asRow THEN ColumnCount(grid[m]) ELSE RowCount(grid[m])
  IN /\ At(t, "idle") /\ booted
     /\ m \in DOMAIN grid
     /\ EnoughIds(n)
     /\ \E new \in Injection(1..n, Unused) :
          LET g == IF asRow THEN AddRow(grid[m], new) ELSE AddColumn(grid[m], new)
          IN /\ grid' = [grid EXCEPT ![m] = g]
             /\ usedIds' = usedIds \cup Range(new)
             /\ workspaceIndex' = [x \in DOMAIN workspaceIndex \cup Cells(g) |->
                                     IF x \in Cells(g) THEN m ELSE workspaceIndex[x]]
     /\ UNCHANGED <<active, windows, windowIndex, pinned, switching, hideVars, call,
                    bootVars, appsVars, worldVars>>

-----------------------------------------------------------------------------
(* destroy_desktop *)

BeginDestroy(t, x) ==
  /\ At(t, "idle") /\ booted
  /\ Len(hookQueue) <= MaxHook
  /\ x \in DOMAIN workspaceIndex
  /\ Goto(t, "destroying", None, x, workspaceIndex[x])
  /\ UNCHANGED <<managerVars, bootVars, appsVars, worldVars>>

\* Fault: the windows go with their workspace.
InheritedNothing(heirs) ==
  [x \in WorkspaceId |-> IF x \in DOMAIN heirs THEN {} ELSE windows[x]]

\* The window lists once every removed workspace has left its windows to its heir.
Inherited(heirs) ==
  [x \in WorkspaceId |->
     IF x \in DOMAIN heirs THEN {}
     ELSE windows[x] \cup UNION {windows[y] : y \in {z \in DOMAIN heirs : heirs[z] = x}}]

DestroyLocked(t) ==
  LET x == call[t].ws
      m == call[t].mon
  IN /\ At(t, "destroying")
     /\ \/ /\ ~(m \in DOMAIN grid /\ Removable(grid[m], x))
           /\ UNCHANGED <<gridVars, assignVars, hideVars, osVars, hookQueue>>
        \/ /\ m \in DOMAIN grid /\ Removable(grid[m], x)
           /\ LET heirs == Heirs(grid[m], x)
                  g     == Sanitize(Remaining(grid[m], x), Unused)
                  now   == IF active[m] \in DOMAIN heirs THEN heirs[active[m]]
                                                         ELSE active[m]
                  \* the targets of the windows that were moved
                  landed == {heirs[y] : y \in {z \in DOMAIN heirs : windows[z] # {}}}
              IN /\ grid' = [grid EXCEPT ![m] = g]
                 /\ active' = [active EXCEPT ![m] = now]
                 /\ usedIds' = usedIds \cup Cells(g)
                 /\ windows' = Inherited(heirs)
                 /\ ReplaceIndexes(grid', windows')
                 /\ UNCHANGED pinned
                 /\ IF now # active[m] \/ now \in landed
                    THEN HideThenRestore({}, windows'[now])
                    ELSE UNCHANGED <<hideVars, osVars, hookQueue>>
     /\ Return(t)
     /\ UNCHANGED <<switching, bootVars, appsVars, monitorVars, rectChanged>>

-----------------------------------------------------------------------------
(***************************************************************************)
(* UserAppsManager. Its dispatcher calls add_to_current_workspace and      *)
(* remove. The list is changed by the hook dispatcher and by the           *)
(* revalidator thread; each of them changes the list first and sends the   *)
(* event in a later step ("announce"), except for the revalidator's        *)
(* removals, which are sent while the list is locked.                      *)
(***************************************************************************)
AppsAdded ==
  LET e == Head(appsQueue)
  IN /\ At("apps", "idle")
     /\ appsQueue # <<>> /\ e.kind = "added"
     /\ appsQueue' = Tail(appsQueue)
     /\ IF booted THEN BeginAdd("apps", e.win) ELSE UNCHANGED call
     /\ UNCHANGED <<managerVars, bootVars, interactable, worldVars>>

\* Before the subscription nobody gets the event.
AppsRemoved ==
  LET e == Head(appsQueue)
  IN /\ At("apps", "idle")
     /\ appsQueue # <<>> /\ e.kind = "removed"
     /\ appsQueue' = Tail(appsQueue)
     /\ \/ /\ booted
           /\ Untrack(e.win)
           /\ removalMissed' = removalMissed \ {e.win}
           /\ unminimizeMissed' = unminimizeMissed \ {e.win}
        \/ /\ ~booted
           /\ removalMissed' = removalMissed \cup {e.win}
           /\ UNCHANGED <<assignVars, unminimizeMissed>>
     /\ UNCHANGED <<gridVars, switching, hideVars, call, booted, toScan, interactable,
                    worldVars>>

\* Fault: nobody is told.
RevalidateDropSilently(w) ==
  /\ At("reval", "idle")
  /\ w \in interactable \ shown
  /\ interactable' = interactable \ {w}
  /\ UNCHANGED <<managerVars, call, bootVars, appsQueue, worldVars>>

RevalidateDrop(w) ==
  /\ At("reval", "idle")
  /\ Len(appsQueue) < MaxApps
  /\ w \in interactable \ shown
  /\ interactable' = interactable \ {w}
  /\ appsQueue' = Append(appsQueue, [kind |-> "removed", win |-> w])
  /\ UNCHANGED <<managerVars, call, bootVars, worldVars>>

RevalidateAdd(w) ==
  /\ At("reval", "idle")
  /\ Len(appsQueue) < MaxApps
  /\ w \in shown \ interactable
  /\ interactable' = interactable \cup {w}
  /\ Goto("reval", "announceAdded", w, None, None)
  /\ UNCHANGED <<managerVars, bootVars, appsQueue, worldVars>>

Announce(t) ==
  /\ At(t, "announceAdded") \/ At(t, "announceRemoved")
  /\ appsQueue' = Append(appsQueue,
        [kind |-> IF At(t, "announceAdded") THEN "added" ELSE "removed",
         win  |-> call[t].win])
  /\ Return(t)
  /\ UNCHANGED <<managerVars, bootVars, interactable, worldVars>>
-----------------------------------------------------------------------------
(***************************************************************************)
(* The hook dispatcher: VdManager::on_win_event, then UserAppsManager's    *)
(* own handler, for one event at a time. VdManager sees nothing until it   *)
(* has subscribed (booted).                                                *)
(***************************************************************************)
NextHookEvent(kinds) ==
  /\ At("hook", "idle")
  /\ hookQueue # <<>> /\ Head(hookQueue).kind \in kinds
  /\ hookQueue' = Tail(hookQueue)

\* Fault: the entry stays in the queue.
KeepEntry(w) == UNCHANGED restored

ConsumeEntry(w) == restored' = [restored EXCEPT ![w] = @ - 1]

\* SystemMinimizeEnd: one entry of RESTORED_EVENT_QUEUE makes it an echo of our
\* own restore. Otherwise it is taken for an action of the user: a window that
\* is on no workspace is added, the workspace of any other is looked up.
HookMinimizeEnd ==
  LET w == Head(hookQueue).win
  IN /\ NextHookEvent({"unminimizedByUser", "unminimizedByRestore"})
     /\ \/ /\ booted /\ restored[w] > 0
           /\ ConsumeEntry(w)
           /\ UNCHANGED call
        \/ /\ booted /\ restored[w] = 0
           /\ IF w \in DOMAIN windowIndex
              THEN Goto("hook", "resolving", w, windowIndex[w], None)
              ELSE BeginAdd("hook", w)
           /\ UNCHANGED restored
        \/ ~booted /\ UNCHANGED <<restored, call>>
     /\ unminimizeMissed' = IF booted THEN unminimizeMissed ELSE unminimizeMissed \cup {w}
     /\ UNCHANGED <<gridVars, assignVars, switching, marks, booted, toScan,
                    removalMissed, appsVars, osVars, monitorVars, rectChanged>>

\* The rest of on_user_unminimize, up to the lock of switch_to_id or send_to.
ResolveUnminimized ==
  LET w == call["hook"].win
      x == call["hook"].ws
  IN /\ At("hook", "resolving")
     /\ \/ /\ x \notin DOMAIN workspaceIndex
           /\ Return("hook")
           /\ unminimizeMissed' = MissedBy("hook")
           /\ UNCHANGED marks
        \/ /\ x \in DOMAIN workspaceIndex /\ workspaceIndex[x] \in connected
           /\ Goto("hook", "switching", w, x, workspaceIndex[x])
           /\ UNCHANGED <<marks, unminimizeMissed>>
        \/ /\ x \in DOMAIN workspaceIndex /\ workspaceIndex[x] \notin connected
           /\ marks' = marks \ {w}
           /\ \E m \in ReadLocation(w) :
                IF m \in DOMAIN grid /\ active[m] \in DOMAIN workspaceIndex
                THEN /\ Goto("hook", "sending", w, active[m], workspaceIndex[active[m]])
                     /\ UNCHANGED unminimizeMissed
                ELSE /\ Return("hook")
                     /\ unminimizeMissed' = MissedBy("hook")
     /\ UNCHANGED <<gridVars, assignVars, switching, restored, booted, toScan,
                    removalMissed, appsVars, worldVars>>

\* SynDebouncedRectChange: a window found on another monitor than the one of its
\* workspace is sent to the active workspace of that monitor.
Displaced(w, m) ==
  /\ w \notin pinned
  /\ m \in DOMAIN grid
  /\ \E n \in DOMAIN grid : n # m /\ \E x \in Cells(grid[n]) : w \in windows[x]
  /\ w \notin windows[active[m]]

HookRectChange ==
  LET w == Head(hookQueue).win
  IN /\ NextHookEvent({"rectChange"})
     /\ \E m \in ReadLocation(w) :
          IF booted /\ m # None /\ Displaced(w, m) /\ active[m] \in DOMAIN workspaceIndex
          THEN Goto("hook", "sending", w, active[m], workspaceIndex[active[m]])
          ELSE UNCHANGED call
     /\ UNCHANGED <<managerVars, bootVars, appsVars, osVars, monitorVars, rectChanged>>

\* ObjectShow, seen by UserAppsManager only.
HookShow ==
  LET w == Head(hookQueue).win
  IN /\ NextHookEvent({"show"})
     /\ \/ /\ w \in shown \ interactable
           /\ interactable' = interactable \cup {w}
           /\ Goto("hook", "announceAdded", w, None, None)
        \/ /\ w \notin shown \ interactable
           /\ UNCHANGED <<interactable, call>>
     /\ UNCHANGED <<managerVars, bootVars, appsQueue, osVars, monitorVars, rectChanged>>

\* ObjectHide and ObjectDestroy. Destroy also purges what VdManager remembers of
\* the handle, since it may come back as another window.
HookGone ==
  LET e == Head(hookQueue)
      w == e.win
  IN /\ NextHookEvent({"hide", "destroy"})
     /\ IF e.kind = "destroy" /\ booted
        THEN /\ restored' = [restored EXCEPT ![w] = 0]
             /\ marks' = marks \ {w}
        ELSE UNCHANGED hideVars
     /\ \/ /\ w \in interactable
           /\ interactable' = interactable \ {w}
           /\ Goto("hook", "announceRemoved", w, None, None)
        \/ /\ w \notin interactable
           /\ UNCHANGED <<interactable, call>>
     /\ UNCHANGED <<gridVars, assignVars, switching, bootVars, appsQueue, osVars,
                    monitorVars, rectChanged>>

\* MonitorManager's ViewAdded: an entry for the monitor, which no index learns of.
ViewAdded(m) ==
  /\ m \in viewsAdded
  /\ viewsAdded' = viewsAdded \ {m}
  /\ \/ /\ booted /\ m \notin DOMAIN grid
        /\ \E x \in Unused :
             /\ grid' = With(grid, m, << <<x>> >>)
             /\ active' = With(active, m, x)
             /\ usedIds' = usedIds \cup {x}
     \/ /\ ~(booted /\ m \notin DOMAIN grid)
        /\ UNCHANGED gridVars
  /\ UNCHANGED <<assignVars, switching, hideVars, call, bootVars, appsVars, osVars,
                 connected, hookQueue, rectChanged>>

-----------------------------------------------------------------------------
(* The rest of initialize: the scan of the interactable windows, then the  *)
(* subscriptions.                                                          *)

BootScan(w) ==
  /\ At("boot", "idle")
  /\ w \in toScan
  /\ toScan' = toScan \ {w}
  /\ IF w \in minimized THEN UNCHANGED call ELSE BeginAdd("boot", w)
  /\ UNCHANGED <<managerVars, booted, removalMissed, unminimizeMissed, appsVars,
                 worldVars>>

BootSubscribe ==
  /\ At("boot", "idle")
  /\ toScan = {} /\ ~booted
  /\ booted' = TRUE
  /\ UNCHANGED <<managerVars, call, toScan, removalMissed, unminimizeMissed, appsVars,
                 worldVars>>
-----------------------------------------------------------------------------
(* The outside world: the user, the applications and the displays. Env     *)
(* says which of these events an instance has, MaxHook and MaxApps bound   *)
(* the events waiting.                                                     *)

Room == Len(hookQueue) < MaxHook /\ Len(appsQueue) <= MaxApps

Emit(kind, w) == hookQueue' = Append(hookQueue, [kind |-> kind, win |-> w])

EnvUnchanged == UNCHANGED <<managerVars, call, bootVars, appsVars>>

\* VdManager does not listen to SystemMinimizeStart.
UserMinimize(w) ==
  /\ "minimize" \in Env
  /\ w \in shown \ minimized
  /\ minimized' = minimized \cup {w}
  /\ minimizedByUser' = minimizedByUser \cup {w}
  /\ EnvUnchanged
  /\ UNCHANGED <<alive, shown, location, monitorVars, hookQueue, rectChanged>>

UserUnminimize(w) ==
  /\ "unminimize" \in Env /\ Room
  /\ w \in shown \cap minimized
  /\ minimized' = minimized \ {w}
  /\ minimizedByUser' = minimizedByUser \ {w}
  /\ Emit("unminimizedByUser", w)
  /\ EnvUnchanged
  /\ UNCHANGED <<alive, shown, location, monitorVars, rectChanged>>

\* A new handle, or a hidden window again. Assumed of Windows: a handle is not
\* used again while the destroy event of its last owner is still queued.
WinShow(w) ==
  /\ "show" \in Env /\ Room
  /\ w \notin shown
  /\ ~\E i \in DOMAIN hookQueue : hookQueue[i] = [kind |-> "destroy", win |-> w]
  /\ alive' = alive \cup {w}
  /\ shown' = shown \cup {w}
  /\ \E m \in connected : location' = [location EXCEPT ![w] = m]
  /\ Emit("show", w)
  /\ EnvUnchanged
  /\ UNCHANGED <<minimized, minimizedByUser, monitorVars, rectChanged>>

WinHide(w) ==
  /\ "hide" \in Env /\ Room
  /\ w \in shown
  /\ shown' = shown \ {w}
  /\ Emit("hide", w)
  /\ EnvUnchanged
  /\ UNCHANGED <<alive, minimized, minimizedByUser, location, monitorVars, rectChanged>>

\* The handle is free again: WinShow may give it to another window.
WinClose(w) ==
  /\ "close" \in Env /\ Room
  /\ w \in alive
  /\ alive' = alive \ {w}
  /\ shown' = shown \ {w}
  /\ minimized' = minimized \ {w}
  /\ minimizedByUser' = minimizedByUser \ {w}
  /\ Emit("destroy", w)
  /\ EnvUnchanged
  /\ UNCHANGED <<location, monitorVars, rectChanged>>

MoveWindow(w, m) ==
  /\ "move" \in Env /\ Room
  /\ w \in shown /\ m \in connected \ {location[w]}
  /\ location' = [location EXCEPT ![w] = m]
  /\ rectChanged' = rectChanged \cup {w}
  /\ EnvUnchanged
  /\ UNCHANGED <<alive, shown, minimized, minimizedByUser, monitorVars, hookQueue>>

\* The debouncer delivers one event for all the changes it has seen.
RectSettled(w) ==
  /\ w \in rectChanged
  /\ rectChanged' = rectChanged \ {w}
  /\ Emit("rectChange", w)
  /\ EnvUnchanged
  /\ UNCHANGED <<osVars, monitorVars>>

\* Bound: a monitor comes only when the one before has been announced.
Connect(m) ==
  /\ "connect" \in Env /\ viewsAdded = {}
  /\ m \notin connected
  /\ connected' = connected \cup {m}
  /\ viewsAdded' = viewsAdded \cup {m}
  /\ EnvUnchanged
  /\ UNCHANGED <<osVars, hookQueue, rectChanged>>

\* Windows moves the windows of the lost monitor to one that is left.
Disconnect(m, n) ==
  /\ "disconnect" \in Env /\ Room
  /\ m \in connected /\ n \in connected \ {m}
  /\ connected' = connected \ {m}
  /\ location' = [w \in Window |-> IF location[w] = m THEN n ELSE location[w]]
  /\ rectChanged' = rectChanged \cup {w \in shown : location[w] = m}
  /\ EnvUnchanged
  /\ UNCHANGED <<alive, shown, minimized, minimizedByUser, viewsAdded, hookQueue>>

-----------------------------------------------------------------------------
(* The specification *)

Command(t) ==
  \/ \E x \in WorkspaceId : BeginSwitch(t, x) \/ BeginDestroy(t, x)
  \/ \E w \in Window, x \in WorkspaceId : BeginSendTo(t, w, x)
  \/ \E m \in Monitor, asRow \in BOOLEAN : CreateDesktop(t, m, asRow)

\* What a thread does once it is in a call.
Continue(t) ==
  \/ AddLocked(t)
  \/ SwitchLocked(t) \/ SwitchSettled(t)
  \/ SendLocked(t)
  \/ DestroyLocked(t)
  \/ Announce(t)

AppsStep == AppsAdded \/ AppsRemoved \/ Continue("apps")

HookStep ==
  \/ HookMinimizeEnd \/ ResolveUnminimized
  \/ HookRectChange \/ HookShow \/ HookGone
  \/ Continue("hook")

BootStep ==
  \/ \E w \in Window : BootScan(w)
  \/ BootSubscribe
  \/ Continue("boot")

RevalStep ==
  \/ \E w \in Window : RevalidateDrop(w) \/ RevalidateAdd(w)
  \/ Continue("reval")

WindowEvent(w) ==
  \/ UserMinimize(w) \/ UserUnminimize(w)
  \/ WinShow(w) \/ WinHide(w) \/ WinClose(w)
  \/ \E m \in Monitor : MoveWindow(w, m)
  \/ RectSettled(w)

DisplayEvent(m) ==
  \/ Connect(m)
  \/ \E n \in Monitor : Disconnect(m, n)

Next ==
  \/ \E t \in Caller : Command(t) \/ Continue(t)
  \/ AppsStep \/ HookStep \/ BootStep \/ RevalStep
  \/ \E m \in Monitor : ViewAdded(m) \/ DisplayEvent(m)
  \/ \E w \in Window : WindowEvent(w)

Spec == Init /\ [][Next]_vars

(***************************************************************************)
(* The threads run: a dispatcher takes the next event, a call that has     *)
(* begun gets the lock. Nobody has to issue a command, and nothing has to  *)
(* happen outside.                                                         *)
(***************************************************************************)
Fairness ==
  /\ WF_vars(AppsStep)
  /\ WF_vars(HookStep)
  /\ WF_vars(BootStep)
  /\ WF_vars(Continue("reval"))
  /\ \A t \in Caller : WF_vars(Continue(t))

FairSpec == Spec /\ Fairness
=============================================================================
