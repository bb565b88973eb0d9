--------------------------- MODULE WorkspaceGrid ---------------------------
(***************************************************************************)
(* The grid of workspaces of one monitor and the operations that change    *)
(* its shape, as libs/core/src/state/workspaces/mod.rs defines them.       *)
(*                                                                         *)
(* A grid is a sequence of rows, a row is a sequence of workspace ids.     *)
(* The windows of a workspace are not kept here: removing a cell only      *)
(* names the heir of each removed workspace, and the owner of the window   *)
(* lists (VirtualDesktops) merges the lists along that map.                *)
(***************************************************************************)
EXTENDS Integers, SequencesExt

RowCount(g) == Len(g)

ColumnCount(g) == Len(g[1])

\* The ids of all the workspaces of the grid (rows().iter().flatten()).
Cells(g) == UNION {Range(g[r]) : r \in DOMAIN g}

(***************************************************************************)
(* What sanitize() establishes: at least one row and one column, and every *)
(* row has the same number of columns.                                     *)
(***************************************************************************)
Rectangular(g) ==
  /\ Len(g) >= 1
  /\ \A r \in DOMAIN g : Len(g[r]) = Len(g[1]) /\ Len(g[r]) >= 1

\* No workspace id is on two cells.
DistinctCells(g) ==
  \A r1, r2 \in DOMAIN g : \A c1 \in DOMAIN g[r1], c2 \in DOMAIN g[r2] :
    g[r1][c1] = g[r2][c2] => r1 = r2 /\ c1 = c2

IsGrid(g, ids) == g \in Seq(Seq(ids)) /\ Rectangular(g) /\ DistinctCells(g)

-----------------------------------------------------------------------------
(* Lookups *)

RowOf(g, x) == CHOOSE r \in DOMAIN g : x \in Range(g[r])

ColumnOf(g, x) == CHOOSE c \in DOMAIN g[RowOf(g, x)] : g[RowOf(g, x)][c] = x

-----------------------------------------------------------------------------
(* Growing: new is a sequence of ids that were never used before. *)

AddColumn(g, new) == [r \in DOMAIN g |-> Append(g[r], new[r])]

\* Fault: a new row has one workspace, however many columns there are.
AddShortRow(g, new) == Append(g, <<new[1]>>)

AddRow(g, new) == Append(g, new)

-----------------------------------------------------------------------------
(* Shrinking: the neighbour that inherits, the grid left, and who inherits *)
(* from whom.                                                              *)

Neighbour(i) == IF i = 1 THEN 2 ELSE i - 1

ColumnHeirs(g, c) ==
  [x \in {g[r][c] : r \in DOMAIN g} |-> g[RowOf(g, x)][Neighbour(c)]]

WithoutColumn(g, c) == [r \in DOMAIN g |-> RemoveAt(g[r], c)]

RowHeirs(g, r) ==
  [x \in Range(g[r]) |-> g[Neighbour(r)][ColumnOf(g, x)]]

WithoutRow(g, r) == RemoveAt(g, r)

\* remove_workspace fails on an unknown workspace and on a 1x1 grid.
Removable(g, x) ==
  /\ x \in Cells(g)
  /\ ColumnCount(g) > 1 \/ RowCount(g) > 1

\* A whole column goes while there are two of them, the row otherwise.
Heirs(g, x) ==
  IF ColumnCount(g) > 1 THEN ColumnHeirs(g, ColumnOf(g, x))
                        ELSE RowHeirs(g, RowOf(g, x))

Remaining(g, x) ==
  IF ColumnCount(g) > 1 THEN WithoutColumn(g, ColumnOf(g, x))
                        ELSE WithoutRow(g, RowOf(g, x))

-----------------------------------------------------------------------------
(***************************************************************************)
(* sanitize(): drops the empty rows, pads the short ones with new          *)
(* workspaces, and makes a 1x1 grid of nothing. unused holds the ids no    *)
(* workspace ever had; which of them a new cell takes is immaterial.       *)
(***************************************************************************)
Padded(rows, unused) ==
  LET width == CHOOSE n \in {Len(rows[r]) : r \in DOMAIN rows} :
                 \A r \in DOMAIN rows : Len(rows[r]) <= n
      holes == {p \in (DOMAIN rows) \X (1..width) : p[2] > Len(rows[p[1]])}
      fill  == CHOOSE f \in [holes -> unused] : IsInjective(f)
  IN  [r \in DOMAIN rows |->
         [c \in 1..width |-> IF c <= Len(rows[r]) THEN rows[r][c] ELSE fill[<<r, c>>]]]

Sanitize(g, unused) ==
  LET rows == SelectSeq(g, LAMBDA row : row # <<>>)
  IN  IF Rectangular(g) THEN g                  \* nothing to drop or to pad
      ELSE IF rows = <<>> THEN << <<CHOOSE x \in unused : TRUE>> >>
      ELSE Padded(rows, unused)
=============================================================================
