------------------------- MODULE MCVirtualDesktops -------------------------
(***************************************************************************)
(* Instances of VirtualDesktops for TLC. The workspace ids are numbers, so *)
(* that a saved state can name them.                                       *)
(***************************************************************************)
EXTENDS VirtualDesktopsProperties

Ids2 == 1..2
Ids3 == 1..3
Ids4 == 1..4

Nowhere == [x \in WorkspaceId |-> {}]

\* First start: there is no file, or it cannot be read.
NothingSaved ==
  { [grid |-> <<>>, active |-> <<>>, windows |-> Nowhere, pinned |-> {}] }

\* Workspaces 1 (active) and 2 on every monitor of one, any windows on 2.
TwoSaved ==
  { [grid    |-> [m \in Monitor |-> << <<1, 2>> >>],
     active  |-> [m \in Monitor |-> 1],
     windows |-> [Nowhere EXCEPT ![2] = ws],
     pinned  |-> {}] : ws \in SUBSET Window }

\* The same with some windows pinned.
TwoSavedPinned == { [s EXCEPT !.pinned = ws] : s \in TwoSaved, ws \in SUBSET Window }

\* One of the monitors was known when the state was saved.
OneMonitorSaved ==
  { [grid    |-> [m \in {n} |-> << <<1>> >>],
     active  |-> [m \in {n} |-> 1],
     windows |-> Nowhere,
     pinned  |-> {}] : n \in Monitor }

\* With nothing saved the callers, the ids and the monitors are interchangeable.
Symmetry ==
  Permutations(Caller) \cup Permutations(WorkspaceId) \cup Permutations(Monitor)
=============================================================================
