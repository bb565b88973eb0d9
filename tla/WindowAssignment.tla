-------------------------- MODULE WindowAssignment --------------------------
(***************************************************************************)
(* What the user is promised, without grids, monitors, indexes, locks and  *)
(* threads: desktops are opened and closed, a window is on one open        *)
(* desktop or pinned or on none, and each change of that happens at once.  *)
(* A desktop that was closed is never seen again, and its windows are on   *)
(* open ones from the moment it closes.                                    *)
(***************************************************************************)
CONSTANTS Window, WorkspaceId

VARIABLES open, closed, home, pinned

vars == <<open, closed, home, pinned>>

\* home is a partial map from the windows to the open desktops.
Consistent ==
  /\ open \subseteq WorkspaceId /\ closed \subseteq WorkspaceId
  /\ open \cap closed = {}
  /\ home \in [DOMAIN home -> open] /\ DOMAIN home \subseteq Window
  /\ pinned \subseteq Window \ DOMAIN home

Init == Consistent /\ closed = {}

Free(w) == w \notin DOMAIN home \cup pinned

Open ==
  \E new \in SUBSET (WorkspaceId \ (open \cup closed)) :
    /\ open' = open \cup new
    /\ UNCHANGED <<closed, home, pinned>>

\* A window appears: on a desktop, which may be opened for it, or pinned.
Place(w) ==
  /\ Free(w)
  /\ \E x \in WorkspaceId \ closed :
       /\ open' = open \cup {x}
       /\ home' = [v \in DOMAIN home \cup {w} |-> IF v = w THEN x ELSE home[v]]
  /\ UNCHANGED <<closed, pinned>>

Pin(w) ==
  /\ Free(w)
  /\ pinned' = pinned \cup {w}
  /\ UNCHANGED <<open, closed, home>>

Forget(w) ==
  /\ home' = [v \in DOMAIN home \ {w} |-> home[v]]
  /\ pinned' = pinned \ {w}
  /\ UNCHANGED <<open, closed>>

Move(w) ==
  /\ w \in DOMAIN home
  /\ \E x \in open : home' = [home EXCEPT ![w] = x]
  /\ UNCHANGED <<open, closed, pinned>>

\* Desktops are closed, each leaves its windows to one that stays open.
Close ==
  \E gone \in SUBSET open : \E heirs \in [gone -> open \ gone] :
    /\ open' = open \ gone
    /\ closed' = closed \cup gone
    /\ home' = [w \in DOMAIN home |->
                  IF home[w] \in gone THEN heirs[home[w]] ELSE home[w]]
    /\ UNCHANGED pinned

Next ==
  \/ Open \/ Close
  \/ \E w \in Window : Place(w) \/ Pin(w) \/ Forget(w) \/ Move(w)

Spec == Init /\ [][Next]_vars
=============================================================================
