--------------------- MODULE VirtualDesktopsProperties ---------------------
(***************************************************************************)
(* What VdManager is to guarantee. Quoted words are the documentation's.   *)
(***************************************************************************)
EXTENDS VirtualDesktops

(* Safety: the grids and their index *)

\* Every monitor has a rectangular grid with the active workspace on it, and no
\* workspace is on two cells or two monitors: add_column, remove_workspace and
\* active_workspace() panic on anything else, whatever was created and destroyed.
GridsWellFormed ==
  /\ \A m \in DOMAIN grid : IsGrid(grid[m], usedIds) /\ active[m] \in Cells(grid[m])
  /\ \A m, n \in DOMAIN grid : m # n => Cells(grid[m]) \cap Cells(grid[n]) = {}

\* The workspace index never names a workspace that is gone, nor a wrong monitor,
\* although creations, destructions and additions update it in different ways.
WorkspaceIndexSound ==
  \A x \in DOMAIN workspaceIndex :
    workspaceIndex[x] \in DOMAIN grid /\ x \in Cells(grid[workspaceIndex[x]])

\* Even where the index is incomplete, the workspace of a tracked window is in it:
\* on_user_unminimize fails otherwise, and the window could not be brought back.
HomesIndexed == Range(windowIndex) \subseteq DOMAIN workspaceIndex

\* `switching` counts the calls between their switch and the end of their sleep,
\* so the state is cleared by the last of several concurrent switches.
SwitchesCounted == switching = Cardinality({t \in Thread : At(t, "settling")})

-----------------------------------------------------------------------------
(* Safety: the windows *)

\* A window is on one workspace, which exists, or pinned, or untracked; and
\* window_index agrees with the lists. The lists and the index are changed
\* separately by add, remove, send_to and destroy_desktop.
OneHome ==
  /\ \A x, y \in WorkspaceId : x # y => windows[x] \cap windows[y] = {}
  /\ \A x \in WorkspaceId : windows[x] # {} => x \in AllCells(grid)
  /\ \A x \in WorkspaceId : windows[x] \cap pinned = {}
  /\ windowIndex = WindowsOf(windows)

RemovalPending(w) ==
  \/ \E i \in DOMAIN appsQueue : appsQueue[i] = [kind |-> "removed", win |-> w]
  \/ \E t \in Thread : At(t, "announceRemoved") /\ call[t].win = w

\* A tracked window that is no longer interactable is about to be removed, however
\* the additions (apps, hook and start-up threads), the hook dispatcher and the
\* revalidator interleave; except for removals announced before the subscription.
NoGhostWindows ==
  \A w \in Tracked \ interactable : RemovalPending(w) \/ w \in removalMissed

\* The workspace of w is one that its monitor does not show.
OnHiddenWorkspace(w) ==
  /\ w \in DOMAIN windowIndex
  /\ windowIndex[w] \in DOMAIN workspaceIndex
  /\ active[workspaceIndex[windowIndex[w]]] # windowIndex[w]

EventPending(w) ==
  \/ \E i \in DOMAIN hookQueue : hookQueue[i].win = w
  \/ call["hook"].win = w
  \/ RemovalPending(w)

Stray(w) == OnHiddenWorkspace(w) /\ w \in alive \ minimized

\* A window of a hidden workspace is minimized, or an event that will change that
\* is on its way; switches, sends, destructions and the user all interfere. The
\* exception is a window one of whose events nobody acted on.
NoStrayWindows ==
  \A w \in Window :
    Stray(w) => EventPending(w) \/ w \in unminimizeMissed \cup removalMissed

\* What VdManager minimized it can bring back: a minimized window of a hidden
\* workspace is marked, unless the user minimized it.
HiddenAreMarked ==
  \A w \in minimized \ minimizedByUser : OnHiddenWorkspace(w) => w \in marks

-----------------------------------------------------------------------------
(* Action properties *)

\* A window is dropped by its own Removed event only: never by a switch, a send, a
\* destroyed workspace, a lost monitor or another window's removal.
UntrackedOnlyByRemoval ==
  [][\A w \in Tracked \ Tracked' :
       /\ appsQueue # <<>> /\ appsQueue' = Tail(appsQueue)
       /\ Head(appsQueue) = [kind |-> "removed", win |-> w]]_vars

HomeMonitor(w) == workspaceIndex[windowIndex[w]]

\* A tracked window changes monitor only by a send of that window; destroying
\* workspaces moves windows between workspaces of the same monitor.
MonitorChangedOnlyBySending ==
  [][\A w \in DOMAIN windowIndex \cap DOMAIN windowIndex' :
       HomeMonitor(w) # HomeMonitor(w)' =>
         \E t \in Thread : At(t, "sending") /\ call[t].win = w]_vars

-----------------------------------------------------------------------------
(* Refinement *)

Assignment == INSTANCE WindowAssignment
                WITH open <- AllCells(grid), closed <- usedIds \ AllCells(grid),
                     home <- windowIndex

\* Whatever the threads do between their reads and their locks, get_workspace_of_window
\* and is_pinned change only by whole placements, moves, removals and closings.
ImplementsAssignment == Assignment!Spec

-----------------------------------------------------------------------------
(* Liveness, under FairSpec *)

\* A window that went away is not tracked forever: its removal gets through.
GhostsCleared ==
  \A w \in Window :
    w \in Tracked \ interactable
      ~> (w \notin Tracked \/ w \in interactable \cup removalMissed)

\* A window the user brought back from a hidden workspace ends on a shown one, or
\* hidden with its workspace: it is not stray forever.
StraysResolved ==
  \A w \in Window :
    Stray(w) ~> (~Stray(w) \/ w \in unminimizeMissed \cup removalMissed)
=============================================================================
