--------------------- MODULE VirtualDesktopsTypeProofs ----------------------
(*************************************************************************)
(* What the operations on grids preserve and return, for grids of any size.*)
(* Then the grids of the monitors stay well formed, and VirtualDesktops is*)
(* type correct, for any number of monitors, windows, workspaces and     *)
(* threads. The types alone are not preserved: growing and shrinking a   *)
(* grid needs the invariant of the grids, the counter of switches needs  *)
(* the threads it counts, and an announced event needs the window its    *)
(* thread carries.                                                       *)
(*************************************************************************)
EXTENDS VirtualDesktopsProperties, SequenceTheorems, FiniteSetTheorems, TLAPS

-----------------------------------------------------------------------------
(* Grids *)

\* A sequence without its element at i: one shorter, the rest in order.
LEMMA RemoveAtElements ==
  ASSUME NEW S, NEW s \in Seq(S), NEW i \in 1..Len(s)
  PROVE  /\ RemoveAt(s, i) \in Seq(S)
         /\ Len(RemoveAt(s, i)) = Len(s) - 1
         /\ \A j \in 1..(Len(s) - 1) :
              RemoveAt(s, i)[j] = IF j < i THEN s[j] ELSE s[j + 1]
<1> DEFINE a == SubSeq(s, 1, i - 1)
           b == SubSeq(s, i + 1, Len(s))
<1>1. \A k \in 1..Len(s) : s[k] \in S
  BY ElementOfSeq
<1>2. /\ a \in Seq(S) /\ Len(a) = i - 1
      /\ \A k \in 1..(i - 1) : a[k] = s[k]
  <2>1. \A k \in 1..(i - 1) : s[k] \in S
    BY <1>1
  <2> QED BY <2>1, SubSeqProperties
<1>3. /\ b \in Seq(S) /\ Len(b) = Len(s) - i
      /\ \A k \in 1..(Len(s) - i) : b[k] = s[i + k]
  <2>1. \A k \in (i + 1)..Len(s) : s[k] \in S
    BY <1>1
  <2> QED BY <2>1, SubSeqProperties
<1>4. RemoveAt(s, i) = a \o b
  BY DEF RemoveAt
<1> HIDE DEF a, b
<1>5. /\ a \o b \in Seq(S) /\ Len(a \o b) = Len(a) + Len(b)
      /\ \A j \in 1..(Len(a) + Len(b)) :
           (a \o b)[j] = IF j <= Len(a) THEN a[j] ELSE b[j - Len(a)]
  BY <1>2, <1>3, ConcatProperties
<1>6. Len(s) \in Nat /\ Len(a) + Len(b) = Len(s) - 1
  BY <1>2, <1>3
<1>7. ASSUME NEW j \in 1..(Len(s) - 1)
      PROVE  (a \o b)[j] = IF j < i THEN s[j] ELSE s[j + 1]
  <2>1. CASE j < i
    BY <2>1, <1>2, <1>5, <1>6
  <2>2. CASE j >= i
    <3>1. (a \o b)[j] = b[j - (i - 1)]
      BY <2>2, <1>2, <1>5, <1>6
    <3>2. j - (i - 1) \in 1..(Len(s) - i) /\ i + (j - (i - 1)) = j + 1
      BY <2>2, <1>6
    <3>3. b[j - (i - 1)] = s[i + (j - (i - 1))]
      BY <3>2, <1>3
    <3> QED BY <2>2, <3>1, <3>2, <3>3
  <2> QED BY <2>1, <2>2, <1>6
<1> QED BY <1>4, <1>5, <1>6, <1>7

-----------------------------------------------------------------------------
(* The shape of a grid, and its cells by position *)

\* A grid is a matrix: every row is as long as the first one.
LEMMA GridShape ==
  ASSUME NEW S, NEW g, IsGrid(g, S)
  PROVE  /\ Len(g) \in Nat \ {0} /\ DOMAIN g = 1..Len(g)
         /\ Len(g[1]) \in Nat \ {0}
         /\ \A r \in 1..Len(g) :
              g[r] \in Seq(S) /\ Len(g[r]) = Len(g[1]) /\ DOMAIN g[r] = 1..Len(g[1])
         /\ \A r \in 1..Len(g), c \in 1..Len(g[1]) : g[r][c] \in S
<1>1. g \in Seq(Seq(S)) /\ Rectangular(g)
  BY DEF IsGrid
<1>2. Len(g) \in Nat /\ DOMAIN g = 1..Len(g)
  BY <1>1
<1>3. Len(g) # 0 /\ \A r \in 1..Len(g) : Len(g[r]) = Len(g[1]) /\ Len(g[r]) >= 1
  BY <1>1, <1>2 DEF Rectangular
<1>4. \A r \in 1..Len(g) : g[r] \in Seq(S)
  BY <1>1, ElementOfSeq
<1>5. \A r \in 1..Len(g) : Len(g[r]) \in Nat /\ DOMAIN g[r] = 1..Len(g[r])
  BY <1>4
<1>6. 1 \in 1..Len(g)
  BY <1>2, <1>3
<1>7. Len(g[1]) \in Nat \ {0}
  BY <1>3, <1>5, <1>6
<1>8. \A r \in 1..Len(g), c \in 1..Len(g[1]) : g[r][c] \in S
  BY <1>3, <1>4, ElementOfSeq
<1> QED BY <1>2, <1>3, <1>4, <1>5, <1>7, <1>8

\* The cells are the values at the positions of the matrix.
LEMMA CellsByPosition ==
  ASSUME NEW S, NEW g, IsGrid(g, S)
  PROVE  Cells(g) = {g[p[1]][p[2]] : p \in (1..Len(g)) \X (1..Len(g[1]))}
<1>1. /\ DOMAIN g = 1..Len(g)
      /\ \A r \in 1..Len(g) : DOMAIN g[r] = 1..Len(g[1])
  BY GridShape
<1>2. ASSUME NEW x \in Cells(g)
      PROVE  \E p \in (1..Len(g)) \X (1..Len(g[1])) : x = g[p[1]][p[2]]
  <2>1. PICK r \in 1..Len(g) : x \in Range(g[r])
    BY <1>1 DEF Cells
  <2>2. PICK c \in 1..Len(g[1]) : x = g[r][c]
    BY <1>1, <2>1 DEF Range
  <2>3. <<r, c>> \in (1..Len(g)) \X (1..Len(g[1]))
    OBVIOUS
  <2> QED BY <2>2, <2>3
<1>3. ASSUME NEW p \in (1..Len(g)) \X (1..Len(g[1]))
      PROVE  g[p[1]][p[2]] \in Cells(g)
  <2>1. p[1] \in DOMAIN g /\ p[2] \in DOMAIN g[p[1]]
    BY <1>1
  <2>2. g[p[1]][p[2]] \in Range(g[p[1]])
    BY <2>1 DEF Range
  <2> QED BY <2>1, <2>2 DEF Cells
<1> QED BY <1>2, <1>3

\* position() finds the one place where a workspace is.
LEMMA PositionUnique ==
  ASSUME NEW S, NEW g, IsGrid(g, S), NEW x \in Cells(g)
  PROVE  /\ RowOf(g, x) \in 1..Len(g) /\ ColumnOf(g, x) \in 1..Len(g[1])
         /\ g[RowOf(g, x)][ColumnOf(g, x)] = x
         /\ \A r \in 1..Len(g), c \in 1..Len(g[1]) :
              g[r][c] = x => r = RowOf(g, x) /\ c = ColumnOf(g, x)
<1>1. /\ DOMAIN g = 1..Len(g)
      /\ \A r \in 1..Len(g) : DOMAIN g[r] = 1..Len(g[1])
  BY GridShape
<1>2. RowOf(g, x) \in 1..Len(g) /\ x \in Range(g[RowOf(g, x)])
  <2>1. \E r \in DOMAIN g : x \in Range(g[r])
    BY DEF Cells
  <2> QED BY <1>1, <2>1 DEF RowOf
<1>3. ColumnOf(g, x) \in 1..Len(g[1]) /\ g[RowOf(g, x)][ColumnOf(g, x)] = x
  <2>1. \E c \in DOMAIN g[RowOf(g, x)] : g[RowOf(g, x)][c] = x
    BY <1>2 DEF Range
  <2> QED BY <1>1, <1>2, <2>1 DEF ColumnOf
<1>4. ASSUME NEW r \in 1..Len(g), NEW c \in 1..Len(g[1]), g[r][c] = x
      PROVE  r = RowOf(g, x) /\ c = ColumnOf(g, x)
  <2>1. \A r1, r2 \in DOMAIN g : \A c1 \in DOMAIN g[r1], c2 \in DOMAIN g[r2] :
          g[r1][c1] = g[r2][c2] => r1 = r2 /\ c1 = c2
    BY DEF IsGrid, DistinctCells
  <2>2. /\ r \in DOMAIN g /\ c \in DOMAIN g[r]
        /\ RowOf(g, x) \in DOMAIN g /\ ColumnOf(g, x) \in DOMAIN g[RowOf(g, x)]
    BY <1>1, <1>2, <1>3
  <2> QED BY <1>3, <1>4, <2>1, <2>2
<1> QED BY <1>2, <1>3, <1>4

\* No id is at two positions.
LEMMA Distinct ==
  ASSUME NEW S, NEW g, IsGrid(g, S)
  PROVE  \A r1, r2 \in 1..Len(g), c1, c2 \in 1..Len(g[1]) :
           g[r1][c1] = g[r2][c2] => r1 = r2 /\ c1 = c2
<1>1. /\ DOMAIN g = 1..Len(g)
      /\ \A r \in 1..Len(g) : DOMAIN g[r] = 1..Len(g[1])
  BY GridShape
<1>2. \A r1, r2 \in DOMAIN g : \A c1 \in DOMAIN g[r1], c2 \in DOMAIN g[r2] :
        g[r1][c1] = g[r2][c2] => r1 = r2 /\ c1 = c2
  BY DEF IsGrid, DistinctCells
<1>3. ASSUME NEW r1 \in 1..Len(g), NEW r2 \in 1..Len(g),
             NEW c1 \in 1..Len(g[1]), NEW c2 \in 1..Len(g[1]), g[r1][c1] = g[r2][c2]
      PROVE  r1 = r2 /\ c1 = c2
  <2>1. r1 \in DOMAIN g /\ r2 \in DOMAIN g /\ c1 \in DOMAIN g[r1] /\ c2 \in DOMAIN g[r2]
    BY <1>1
  <2> QED BY <1>2, <1>3, <2>1
<1> QED BY <1>3

\* A matrix of ids without repetition is a grid.
LEMMA MatrixIsGrid ==
  ASSUME NEW S, NEW g \in Seq(Seq(S)), NEW k \in Nat \ {0}, Len(g) # 0,
         \A r \in 1..Len(g) : Len(g[r]) = k,
         \A r1, r2 \in 1..Len(g), c1, c2 \in 1..k :
           g[r1][c1] = g[r2][c2] => r1 = r2 /\ c1 = c2
  PROVE  IsGrid(g, S) /\ Len(g[1]) = k
<1>1. Len(g) \in Nat \ {0} /\ DOMAIN g = 1..Len(g) /\ 1 \in 1..Len(g)
  OBVIOUS
<1>2. \A r \in 1..Len(g) : g[r] \in Seq(S)
  BY ElementOfSeq
<1>3. \A r \in 1..Len(g) : DOMAIN g[r] = 1..k
  BY <1>2
<1>4. Len(g[1]) = k
  BY <1>1
<1>5. Rectangular(g)
  BY <1>1, <1>4 DEF Rectangular
<1>6. DistinctCells(g)
  BY <1>1, <1>3 DEF DistinctCells
<1> QED BY <1>4, <1>5, <1>6 DEF IsGrid

-----------------------------------------------------------------------------
(* New grids, columns and rows *)

\* VirtualDesktopMonitor::create returns a grid of one workspace.
LEMMA NewGrid ==
  ASSUME NEW S, NEW x \in S
  PROVE  IsGrid(<< <<x>> >>, S) /\ Cells(<< <<x>> >>) = {x}
<1> DEFINE g == << <<x>> >>
<1>1. g \in Seq(Seq(S)) /\ Len(g) = 1 /\ Len(g[1]) = 1 /\ g[1][1] = x
  OBVIOUS
<1> HIDE DEF g
<1>2. \A r \in 1..Len(g) : Len(g[r]) = 1
  BY <1>1
<1>3. \A r1, r2 \in 1..Len(g), c1, c2 \in 1..1 : r1 = r2 /\ c1 = c2
  BY <1>1
<1>4. IsGrid(g, S)
  <2>1. g \in Seq(Seq(S)) /\ Len(g) # 0 /\ 1 \in Nat \ {0}
    BY <1>1
  <2>2. \A r1, r2 \in 1..Len(g), c1, c2 \in 1..1 :
          g[r1][c1] = g[r2][c2] => r1 = r2 /\ c1 = c2
    BY <1>3
  <2> QED BY ONLY <2>1, <2>2, <1>2, MatrixIsGrid
<1>5. Cells(g) = {g[p[1]][p[2]] : p \in (1..1) \X (1..1)}
  BY <1>1, <1>4, CellsByPosition
<1>6. Cells(g) = {x}
  <2>1. ASSUME NEW y \in Cells(g) PROVE y = x
    BY <1>1, <1>5
  <2>2. <<1, 1>> \in (1..1) \X (1..1)
    OBVIOUS
  <2>3. x \in Cells(g)
    BY <1>1, <1>5, <2>2
  <2> QED BY <2>1, <2>3
<1> QED BY <1>4, <1>6 DEF g

\* add_column: one new cell at the end of every row, the old cells stay.
LEMMA ColumnAdded ==
  ASSUME NEW S, NEW g, IsGrid(g, S), NEW T \in SUBSET S, T \cap Cells(g) = {},
         NEW new \in Injection(1..RowCount(g), T)
  PROVE  /\ IsGrid(AddColumn(g, new), S)
         /\ Cells(AddColumn(g, new)) = Cells(g) \cup Range(new)
<1> DEFINE n == Len(g)
           k == Len(g[1])
           h == AddColumn(g, new)
<1>1. /\ n \in Nat \ {0} /\ k \in Nat \ {0} /\ DOMAIN g = 1..n
      /\ \A r \in 1..n : g[r] \in Seq(S) /\ Len(g[r]) = k
  BY GridShape
<1>2. new \in [1..n -> T] /\ \A r1, r2 \in 1..n : new[r1] = new[r2] => r1 = r2
  BY DEF Injection, IsInjective, RowCount
<1>3. h = [r \in 1..n |-> Append(g[r], new[r])]
  BY <1>1 DEF AddColumn
<1> HIDE DEF n, k, h
<1>4. ASSUME NEW r \in 1..n
      PROVE  /\ h[r] \in Seq(S) /\ Len(h[r]) = k + 1
             /\ \A c \in 1..k : h[r][c] = g[r][c]
             /\ h[r][k + 1] = new[r]
  BY <1>1, <1>2, <1>3, AppendProperties
<1>5. h \in Seq(Seq(S)) /\ Len(h) = n
  <2>1. h \in [1..n -> Seq(S)]
    BY <1>3, <1>4
  <2>2. h \in Seq(Seq(S)) /\ DOMAIN h = 1..n
    BY <1>1, <2>1, IsASeq
  <2> QED BY ONLY <1>1, <2>2, LenProperties
<1>6. \A r \in 1..n, c \in 1..k : g[r][c] \in Cells(g) /\ g[r][c] \notin T
  <2>1. Cells(g) = {g[p[1]][p[2]] : p \in (1..n) \X (1..k)}
    BY CellsByPosition DEF n, k
  <2> QED
    <3> SUFFICES ASSUME NEW r \in 1..n, NEW c \in 1..k PROVE g[r][c] \in Cells(g)
      OBVIOUS
    <3>1. <<r, c>> \in (1..n) \X (1..k)
      OBVIOUS
    <3> QED BY <2>1, <3>1
<1>7. \A r1, r2 \in 1..n, c1, c2 \in 1..k : g[r1][c1] = g[r2][c2] => r1 = r2 /\ c1 = c2
  <2> SUFFICES ASSUME NEW r1 \in 1..n, NEW r2 \in 1..n, NEW c1 \in 1..k, NEW c2 \in 1..k,
                      g[r1][c1] = g[r2][c2]
               PROVE  r1 = r2 /\ c1 = c2
    OBVIOUS
  <2> QED BY <1>6, PositionUnique DEF n, k
<1>8. ASSUME NEW r1 \in 1..n, NEW r2 \in 1..n, NEW c1 \in 1..(k + 1), NEW c2 \in 1..(k + 1),
             h[r1][c1] = h[r2][c2]
      PROVE  r1 = r2 /\ c1 = c2
  <2>1. CASE c1 \in 1..k /\ c2 \in 1..k
    BY <2>1, <1>4, <1>7, <1>8
  <2>2. CASE c1 = k + 1 /\ c2 = k + 1
    BY <2>2, <1>2, <1>4, <1>8
  <2>3. CASE c1 \in 1..k /\ c2 = k + 1
    BY <2>3, <1>2, <1>4, <1>6, <1>8
  <2>4. CASE c1 = k + 1 /\ c2 \in 1..k
    BY <2>4, <1>2, <1>4, <1>6, <1>8
  <2> QED BY <2>1, <2>2, <2>3, <2>4, <1>1
<1>9. IsGrid(h, S) /\ Len(h[1]) = k + 1
  <2>1. h \in Seq(Seq(S)) /\ Len(h) # 0 /\ k + 1 \in Nat \ {0}
    BY <1>1, <1>5
  <2>2. \A r \in 1..Len(h) : Len(h[r]) = k + 1
    BY <1>4, <1>5
  <2>3. \A r1, r2 \in 1..Len(h), c1, c2 \in 1..(k + 1) :
          h[r1][c1] = h[r2][c2] => r1 = r2 /\ c1 = c2
    BY <1>5, <1>8
  <2> QED BY ONLY <2>1, <2>2, <2>3, MatrixIsGrid
<1>10. Cells(h) = Cells(g) \cup Range(new)
  <2>1. Cells(h) = {h[p[1]][p[2]] : p \in (1..n) \X (1..(k + 1))}
    BY <1>5, <1>9, CellsByPosition
  <2>2. ASSUME NEW p \in (1..n) \X (1..(k + 1))
        PROVE  h[p[1]][p[2]] \in Cells(g) \cup Range(new)
    <3>1. CASE p[2] \in 1..k
      BY <3>1, <1>4, <1>6
    <3>2. CASE p[2] = k + 1
      BY <3>2, <1>2, <1>4 DEF Range
    <3> QED BY <3>1, <3>2, <1>1
  <2>3. ASSUME NEW x \in Cells(g) PROVE x \in Cells(h)
    <3>1. PICK r \in 1..n, c \in 1..k : x = g[r][c]
      BY PositionUnique DEF n, k
    <3>2. <<r, c>> \in (1..n) \X (1..(k + 1)) /\ x = h[r][c]
      BY <1>1, <1>4, <3>1
    <3> QED BY <2>1, <3>2
  <2>4. ASSUME NEW x \in Range(new) PROVE x \in Cells(h)
    <3>1. PICK r \in 1..n : x = new[r]
      BY <1>2 DEF Range
    <3>2. <<r, k + 1>> \in (1..n) \X (1..(k + 1)) /\ x = h[r][k + 1]
      BY <1>1, <1>4, <3>1
    <3> QED BY <2>1, <3>2
  <2> QED BY <2>1, <2>2, <2>3, <2>4
<1> QED BY <1>9, <1>10 DEF h

\* add_row: a row of new cells, as long as the others.
LEMMA RowAdded ==
  ASSUME NEW S, NEW g, IsGrid(g, S), NEW T \in SUBSET S, T \cap Cells(g) = {},
         NEW new \in Injection(1..ColumnCount(g), T)
  PROVE  /\ IsGrid(AddRow(g, new), S)
         /\ Cells(AddRow(g, new)) = Cells(g) \cup Range(new)
<1> DEFINE n == Len(g)
           k == Len(g[1])
           h == AddRow(g, new)
<1>1. /\ n \in Nat \ {0} /\ k \in Nat \ {0} /\ g \in Seq(Seq(S))
      /\ \A r \in 1..n : g[r] \in Seq(S) /\ Len(g[r]) = k
  BY GridShape DEF IsGrid
<1>2. new \in [1..k -> T] /\ \A c1, c2 \in 1..k : new[c1] = new[c2] => c1 = c2
  BY DEF Injection, IsInjective, ColumnCount
<1>3. h = Append(g, new)
  BY DEF AddRow
<1> HIDE DEF n, k, h
<1>4. new \in Seq(S) /\ Len(new) = k
  BY <1>1, <1>2
<1>5. /\ h \in Seq(Seq(S)) /\ Len(h) = n + 1
      /\ \A r \in 1..n : h[r] = g[r]
      /\ h[n + 1] = new
  <2>1. Len(g) = n
    BY DEF n
  <2> QED BY <1>1, <1>3, <1>4, <2>1, AppendProperties
<1>6. \A r \in 1..n, c \in 1..k : g[r][c] \in Cells(g) /\ g[r][c] \notin T
  <2>1. Cells(g) = {g[p[1]][p[2]] : p \in (1..n) \X (1..k)}
    BY CellsByPosition DEF n, k
  <2> QED
    <3> SUFFICES ASSUME NEW r \in 1..n, NEW c \in 1..k PROVE g[r][c] \in Cells(g)
      OBVIOUS
    <3>1. <<r, c>> \in (1..n) \X (1..k)
      OBVIOUS
    <3> QED BY <2>1, <3>1
<1>7. \A r1, r2 \in 1..n, c1, c2 \in 1..k : g[r1][c1] = g[r2][c2] => r1 = r2 /\ c1 = c2
  <2> SUFFICES ASSUME NEW r1 \in 1..n, NEW r2 \in 1..n, NEW c1 \in 1..k, NEW c2 \in 1..k,
                      g[r1][c1] = g[r2][c2]
               PROVE  r1 = r2 /\ c1 = c2
    OBVIOUS
  <2> QED BY <1>6, PositionUnique DEF n, k
<1>8. ASSUME NEW r1 \in 1..(n + 1), NEW r2 \in 1..(n + 1), NEW c1 \in 1..k, NEW c2 \in 1..k,
             h[r1][c1] = h[r2][c2]
      PROVE  r1 = r2 /\ c1 = c2
  <2>1. CASE r1 \in 1..n /\ r2 \in 1..n
    <3>1. h[r1] = g[r1] /\ h[r2] = g[r2]
      BY <2>1, <1>5
    <3>2. g[r1][c1] = g[r2][c2]
      BY <1>8, <3>1
    <3> QED BY ONLY <1>7, <2>1, <3>2, c1 \in 1..k, c2 \in 1..k
  <2>2. CASE r1 = n + 1 /\ r2 = n + 1
    BY <2>2, <1>2, <1>5, <1>8
  <2>3. CASE r1 \in 1..n /\ r2 = n + 1
    BY <2>3, <1>2, <1>5, <1>6, <1>8
  <2>4. CASE r1 = n + 1 /\ r2 \in 1..n
    BY <2>4, <1>2, <1>5, <1>6, <1>8
  <2> QED BY <2>1, <2>2, <2>3, <2>4, <1>1
<1>9. IsGrid(h, S) /\ Len(h[1]) = k
  <2>1. \A r \in 1..(n + 1) : Len(h[r]) = k
    <3> SUFFICES ASSUME NEW r \in 1..(n + 1) PROVE Len(h[r]) = k
      OBVIOUS
    <3>1. CASE r \in 1..n
      BY <3>1, <1>1, <1>5
    <3>2. CASE r = n + 1
      BY <3>2, <1>4, <1>5
    <3> QED BY <3>1, <3>2, <1>1
  <2>2. h \in Seq(Seq(S)) /\ Len(h) # 0 /\ k \in Nat \ {0}
    BY <1>1, <1>5
  <2>3. \A r \in 1..Len(h) : Len(h[r]) = k
    BY <1>5, <2>1
  <2>4. \A r1, r2 \in 1..Len(h), c1, c2 \in 1..k :
          h[r1][c1] = h[r2][c2] => r1 = r2 /\ c1 = c2
    BY <1>5, <1>8
  <2> QED BY ONLY <2>2, <2>3, <2>4, MatrixIsGrid
<1>10. Cells(h) = Cells(g) \cup Range(new)
  <2>1. Cells(h) = {h[p[1]][p[2]] : p \in (1..(n + 1)) \X (1..k)}
    BY <1>5, <1>9, CellsByPosition
  <2>2. ASSUME NEW p \in (1..(n + 1)) \X (1..k)
        PROVE  h[p[1]][p[2]] \in Cells(g) \cup Range(new)
    <3>1. CASE p[1] \in 1..n
      BY <3>1, <1>5, <1>6
    <3>2. CASE p[1] = n + 1
      BY <3>2, <1>2, <1>5 DEF Range
    <3> QED BY <3>1, <3>2, <1>1
  <2>3. ASSUME NEW x \in Cells(g) PROVE x \in Cells(h)
    <3>1. PICK r \in 1..n, c \in 1..k : x = g[r][c]
      BY PositionUnique DEF n, k
    <3>2. r \in 1..(n + 1) /\ h[r] = g[r]
      BY <1>1, <1>5
    <3>3. <<r, c>> \in (1..(n + 1)) \X (1..k) /\ x = h[r][c]
      BY <3>1, <3>2
    <3> QED BY <2>1, <3>3
  <2>4. ASSUME NEW x \in Range(new) PROVE x \in Cells(h)
    <3>1. PICK c \in 1..k : x = new[c]
      BY <1>2 DEF Range
    <3>2. <<n + 1, c>> \in (1..(n + 1)) \X (1..k) /\ x = h[n + 1][c]
      BY <1>1, <1>5, <3>1
    <3> QED BY <2>1, <3>2
  <2> QED BY <2>1, <2>2, <2>3, <2>4
<1> QED BY <1>9, <1>10 DEF h

-----------------------------------------------------------------------------
(* Removing a column or a row *)

\* The columns but one of a grid of several, and the heirs of that one's cells.
LEMMA ColumnRemoved ==
  ASSUME NEW S, NEW g, IsGrid(g, S), ColumnCount(g) > 1, NEW c \in 1..Len(g[1])
  PROVE  LET h == WithoutColumn(g, c)
             heirs == ColumnHeirs(g, c)
         IN  /\ IsGrid(h, S)
             /\ DOMAIN heirs = {g[r][c] : r \in 1..Len(g)}
             /\ Cells(h) = Cells(g) \ DOMAIN heirs
             /\ heirs \in [DOMAIN heirs -> Cells(h)]
<1> DEFINE n == Len(g)
           k == Len(g[1])
           h == WithoutColumn(g, c)
           heirs == ColumnHeirs(g, c)
           l == k - 1
           C == [j \in 1..l |-> IF j < c THEN j ELSE j + 1]
<1>1. /\ n \in Nat \ {0} /\ k \in Nat \ {0} /\ DOMAIN g = 1..n
      /\ \A r \in 1..n : g[r] \in Seq(S) /\ Len(g[r]) = k
  BY GridShape
<1>2. k > 1 /\ c \in 1..k
  BY DEF ColumnCount
<1>3. h = [r \in 1..n |-> RemoveAt(g[r], c)]
  BY <1>1 DEF WithoutColumn
<1>4. heirs = [x \in {g[r][c] : r \in 1..n} |-> g[RowOf(g, x)][Neighbour(c)]]
  BY <1>1 DEF ColumnHeirs
<1>5. \A r1, r2 \in 1..n, c1, c2 \in 1..k : g[r1][c1] = g[r2][c2] => r1 = r2 /\ c1 = c2
  BY ONLY IsGrid(g, S), Distinct DEF n, k
<1>6. Cells(g) = {g[p[1]][p[2]] : p \in (1..n) \X (1..k)}
  BY CellsByPosition
<1>7. \A r \in 1..n : g[r][c] \in Cells(g) /\ RowOf(g, g[r][c]) = r
  <2> SUFFICES ASSUME NEW r \in 1..n PROVE g[r][c] \in Cells(g) /\ RowOf(g, g[r][c]) = r
    OBVIOUS
  <2>1. <<r, c>> \in (1..n) \X (1..k)
    BY <1>2
  <2>2. g[r][c] \in Cells(g)
    BY <1>6, <2>1
  <2> QED BY <2>2, PositionUnique
<1> HIDE DEF n, k, h, heirs
<1>8. ASSUME NEW r \in 1..n
      PROVE  /\ h[r] \in Seq(S) /\ Len(h[r]) = l
             /\ \A j \in 1..l : h[r][j] = g[r][IF j < c THEN j ELSE j + 1]
  <2>1. h[r] = RemoveAt(g[r], c) /\ g[r] \in Seq(S) /\ Len(g[r]) = k
    BY <1>1, <1>3
  <2>2. /\ RemoveAt(g[r], c) \in Seq(S) /\ Len(RemoveAt(g[r], c)) = l
        /\ \A j \in 1..l :
             RemoveAt(g[r], c)[j] = IF j < c THEN g[r][j] ELSE g[r][j + 1]
    <3>1. g[r] \in Seq(S) /\ c \in 1..Len(g[r])
      BY <1>2, <2>1
    <3> HIDE DEF C
    <3>2. /\ RemoveAt(g[r], c) \in Seq(S) /\ Len(RemoveAt(g[r], c)) = Len(g[r]) - 1
          /\ \A j \in 1..(Len(g[r]) - 1) :
               RemoveAt(g[r], c)[j] = IF j < c THEN g[r][j] ELSE g[r][j + 1]
      BY ONLY <3>1, RemoveAtElements
    <3> QED BY <2>1, <3>2
  <2> QED BY <2>1, <2>2
<1>9. h \in Seq(Seq(S)) /\ Len(h) = n
  <2>1. h \in [1..n -> Seq(S)]
    BY <1>3, <1>8
  <2>2. h \in Seq(Seq(S)) /\ DOMAIN h = 1..n
    BY <1>1, <2>1, IsASeq
  <2> QED BY ONLY <1>1, <2>2, LenProperties
<1>10. /\ C \in [1..l -> 1..k]
       /\ \A i, j \in 1..l : C[i] = C[j] => i = j
       /\ \A j \in 1..l : C[j] # c
       /\ \A i \in (1..k) \ {c} : \E j \in 1..l : C[j] = i
  <2>1. /\ C \in [1..l -> 1..k]
        /\ \A i, j \in 1..l : C[i] = C[j] => i = j
        /\ \A j \in 1..l : C[j] # c
    BY <1>1, <1>2
  <2>2. ASSUME NEW i \in (1..k) \ {c} PROVE \E j \in 1..l : C[j] = i
    <3>1. CASE i < c
      <4>1. i \in 1..l /\ C[i] = i
        BY <3>1, <1>1, <1>2
      <4> QED BY <4>1
    <3>2. CASE i > c
      <4>1. i - 1 \in 1..l /\ C[i - 1] = i
        BY <3>2, <1>1, <1>2
      <4> QED BY <4>1
    <3> QED BY <3>1, <3>2, <1>1, <1>2
  <2> QED BY <2>1, <2>2
<1> HIDE DEF C, l
<1>11. \A r \in 1..n, j \in 1..l : h[r][j] = g[r][C[j]]
  BY <1>8 DEF C
<1>12. ASSUME NEW r1 \in 1..n, NEW r2 \in 1..n, NEW j1 \in 1..l, NEW j2 \in 1..l,
              h[r1][j1] = h[r2][j2]
       PROVE  r1 = r2 /\ j1 = j2
  <2>1. g[r1][C[j1]] = g[r2][C[j2]] /\ C[j1] \in 1..k /\ C[j2] \in 1..k
    BY <1>10, <1>11, <1>12
  <2>2. r1 = r2 /\ C[j1] = C[j2]
    BY <1>5, <2>1
  <2> QED BY <1>10, <2>2
<1>13. IsGrid(h, S) /\ Len(h[1]) = l
  <2>1. h \in Seq(Seq(S)) /\ Len(h) # 0 /\ l \in Nat \ {0}
    BY <1>1, <1>2, <1>9 DEF l
  <2>2. \A r \in 1..Len(h) : Len(h[r]) = l
    BY <1>8, <1>9
  <2>3. \A r1, r2 \in 1..Len(h), j1, j2 \in 1..l :
          h[r1][j1] = h[r2][j2] => r1 = r2 /\ j1 = j2
    BY <1>9, <1>12
  <2> QED BY ONLY <2>1, <2>2, <2>3, MatrixIsGrid
<1>14. DOMAIN heirs = {g[r][c] : r \in 1..n}
  BY <1>4
<1>15. Cells(h) = Cells(g) \ DOMAIN heirs
  <2>0. Cells(h) = {h[p[1]][p[2]] : p \in (1..n) \X (1..l)}
    <3>1. Cells(h) = {h[p[1]][p[2]] : p \in (1..Len(h)) \X (1..Len(h[1]))}
      BY ONLY <1>13, CellsByPosition
    <3> QED BY ONLY <1>9, <1>13, <3>1
  <2>1. ASSUME NEW p \in (1..n) \X (1..l)
        PROVE  h[p[1]][p[2]] \in Cells(g) \ DOMAIN heirs
    <3>1. /\ p[1] \in 1..n /\ p[2] \in 1..l /\ C[p[2]] \in 1..k /\ C[p[2]] # c
          /\ h[p[1]][p[2]] = g[p[1]][C[p[2]]]
      BY <1>10, <1>11
    <3>2. <<p[1], C[p[2]]>> \in (1..n) \X (1..k)
      BY <3>1
    <3>3. g[p[1]][C[p[2]]] \in Cells(g)
      BY <1>6, <3>2
    <3>4. g[p[1]][C[p[2]]] \notin DOMAIN heirs
      BY <1>2, <1>5, <1>14, <3>1
    <3> QED BY <3>1, <3>3, <3>4
  <2>2. ASSUME NEW x \in Cells(g), x \notin DOMAIN heirs PROVE x \in Cells(h)
    <3>1. PICK p \in (1..n) \X (1..k) : x = g[p[1]][p[2]]
      BY <1>6
    <3>2. p[2] # c
      BY <1>14, <2>2, <3>1
    <3>3. PICK j \in 1..l : C[j] = p[2]
      BY <1>10, <3>2
    <3>4. <<p[1], j>> \in (1..n) \X (1..l) /\ x = h[p[1]][j]
      BY <1>11, <3>1, <3>3
    <3> QED BY <2>0, <3>4
  <2> QED BY <2>0, <2>1, <2>2
<1>16. heirs \in [DOMAIN heirs -> Cells(h)]
  <2>1. Neighbour(c) \in 1..k /\ Neighbour(c) # c
    BY <1>1, <1>2 DEF Neighbour
  <2>2. ASSUME NEW x \in DOMAIN heirs PROVE heirs[x] \in Cells(h)
    <3>1. PICK r \in 1..n : x = g[r][c]
      BY <1>14
    <3>2. heirs[x] = g[r][Neighbour(c)]
      BY <1>4, <1>7, <3>1
    <3>3. <<r, Neighbour(c)>> \in (1..n) \X (1..k)
      BY <2>1
    <3>4. heirs[x] \in Cells(g)
      BY <1>6, <3>2, <3>3
    <3>5. heirs[x] \notin DOMAIN heirs
      BY <1>2, <1>5, <1>14, <2>1, <3>2
    <3> QED BY <1>15, <3>4, <3>5
  <2> QED BY <1>4, <2>2
<1> QED BY <1>13, <1>14, <1>15, <1>16 DEF h, heirs, n

\* The rows but one of a grid of several, and the heirs of that one's cells.
LEMMA RowRemoved ==
  ASSUME NEW S, NEW g, IsGrid(g, S), RowCount(g) > 1, NEW q \in 1..Len(g)
  PROVE  LET h == WithoutRow(g, q)
             heirs == RowHeirs(g, q)
         IN  /\ IsGrid(h, S)
             /\ DOMAIN heirs = Range(g[q])
             /\ Cells(h) = Cells(g) \ DOMAIN heirs
             /\ heirs \in [DOMAIN heirs -> Cells(h)]
<1> DEFINE n == Len(g)
           k == Len(g[1])
           m == n - 1
           h == WithoutRow(g, q)
           heirs == RowHeirs(g, q)
           R == [i \in 1..m |-> IF i < q THEN i ELSE i + 1]
<1>1. /\ n \in Nat \ {0} /\ k \in Nat \ {0} /\ g \in Seq(Seq(S))
      /\ \A r \in 1..n : g[r] \in Seq(S) /\ Len(g[r]) = k /\ DOMAIN g[r] = 1..k
  BY GridShape DEF IsGrid
<1>2. n > 1 /\ q \in 1..n
  BY DEF RowCount
<1>3. h = RemoveAt(g, q)
  BY DEF WithoutRow
<1>4. heirs = [x \in Range(g[q]) |-> g[Neighbour(q)][ColumnOf(g, x)]]
  BY DEF RowHeirs
<1>5. \A r1, r2 \in 1..n, c1, c2 \in 1..k : g[r1][c1] = g[r2][c2] => r1 = r2 /\ c1 = c2
  BY ONLY IsGrid(g, S), Distinct DEF n, k
<1>6. Cells(g) = {g[p[1]][p[2]] : p \in (1..n) \X (1..k)}
  BY CellsByPosition
<1>7. Range(g[q]) = {g[q][c] : c \in 1..k}
  BY <1>1, <1>2 DEF Range
<1>8. \A c \in 1..k : g[q][c] \in Cells(g) /\ ColumnOf(g, g[q][c]) = c
  <2> SUFFICES ASSUME NEW c \in 1..k PROVE g[q][c] \in Cells(g) /\ ColumnOf(g, g[q][c]) = c
    OBVIOUS
  <2>1. <<q, c>> \in (1..n) \X (1..k)
    BY <1>2
  <2>2. g[q][c] \in Cells(g)
    BY <1>6, <2>1
  <2> QED BY <2>2, PositionUnique
<1> HIDE DEF k, h, heirs, R
<1>9. /\ h \in Seq(Seq(S)) /\ Len(h) = m
      /\ \A i \in 1..m : h[i] = IF i < q THEN g[i] ELSE g[i + 1]
  <2>1. g \in Seq(Seq(S)) /\ q \in 1..Len(g) /\ h = RemoveAt(g, q)
    BY <1>1, <1>2, <1>3 DEF n
  <2>2. m = Len(g) - 1
    BY DEF n
  <2> HIDE DEF n, m
  <2> QED BY ONLY <2>1, <2>2, RemoveAtElements
<1>10. /\ \A i \in 1..m : R[i] \in 1..n /\ R[i] # q
       /\ \A i, j \in 1..m : R[i] = R[j] => i = j
       /\ \A i \in (1..n) \ {q} : \E j \in 1..m : R[j] = i
  <2>1. /\ \A i \in 1..m : R[i] \in 1..n /\ R[i] # q
        /\ \A i, j \in 1..m : R[i] = R[j] => i = j
    BY <1>1, <1>2 DEF R
  <2>2. ASSUME NEW i \in (1..n) \ {q} PROVE \E j \in 1..m : R[j] = i
    <3>1. CASE i < q
      <4>1. i \in 1..m /\ R[i] = i
        BY <3>1, <1>1, <1>2 DEF R
      <4> QED BY <4>1
    <3>2. CASE i > q
      <4>1. i - 1 \in 1..m /\ R[i - 1] = i
        BY <3>2, <1>1, <1>2 DEF R
      <4> QED BY <4>1
    <3> QED BY <3>1, <3>2, <1>1, <1>2
  <2> QED BY <2>1, <2>2
<1>11. m \in Nat \ {0} /\ \A i \in 1..m : h[i] = g[R[i]]
  BY <1>1, <1>2, <1>9 DEF R
<1> HIDE DEF n, m
<1>12. ASSUME NEW r1 \in 1..m, NEW r2 \in 1..m, NEW c1 \in 1..k, NEW c2 \in 1..k,
              h[r1][c1] = h[r2][c2]
       PROVE  r1 = r2 /\ c1 = c2
  <2>1. g[R[r1]][c1] = g[R[r2]][c2] /\ R[r1] \in 1..n /\ R[r2] \in 1..n
    BY <1>10, <1>11, <1>12
  <2>2. R[r1] = R[r2] /\ c1 = c2
    BY <1>5, <2>1
  <2> QED BY <1>10, <2>2
<1>13. IsGrid(h, S) /\ Len(h[1]) = k
  <2>1. h \in Seq(Seq(S)) /\ Len(h) # 0 /\ k \in Nat \ {0}
    BY <1>1, <1>9, <1>11
  <2>2. ASSUME NEW r \in 1..Len(h) PROVE Len(h[r]) = k
    <3>1. h[r] = g[R[r]] /\ R[r] \in 1..n
      BY <1>9, <1>10, <1>11
    <3> QED BY <1>1, <3>1
  <2>3. \A r1, r2 \in 1..Len(h), c1, c2 \in 1..k :
          h[r1][c1] = h[r2][c2] => r1 = r2 /\ c1 = c2
    BY <1>9, <1>12
  <2> QED BY ONLY <2>1, <2>2, <2>3, MatrixIsGrid
<1>14. DOMAIN heirs = Range(g[q])
  BY <1>4
<1>15. Cells(h) = Cells(g) \ DOMAIN heirs
  <2>0. Cells(h) = {h[p[1]][p[2]] : p \in (1..m) \X (1..k)}
    <3>1. Cells(h) = {h[p[1]][p[2]] : p \in (1..Len(h)) \X (1..Len(h[1]))}
      BY ONLY <1>13, CellsByPosition
    <3> QED BY ONLY <1>9, <1>13, <3>1
  <2>1. ASSUME NEW p \in (1..m) \X (1..k)
        PROVE  h[p[1]][p[2]] \in Cells(g) \ DOMAIN heirs
    <3>1. /\ p[1] \in 1..m /\ p[2] \in 1..k /\ R[p[1]] \in 1..n /\ R[p[1]] # q
          /\ h[p[1]][p[2]] = g[R[p[1]]][p[2]]
      BY <1>10, <1>11
    <3>2. <<R[p[1]], p[2]>> \in (1..n) \X (1..k)
      BY <3>1
    <3>3. g[R[p[1]]][p[2]] \in Cells(g)
      BY <1>6, <3>2
    <3>4. g[R[p[1]]][p[2]] \notin DOMAIN heirs
      BY <1>2, <1>5, <1>7, <1>14, <3>1
    <3> QED BY <3>1, <3>3, <3>4
  <2>2. ASSUME NEW x \in Cells(g), x \notin DOMAIN heirs PROVE x \in Cells(h)
    <3>1. PICK p \in (1..n) \X (1..k) : x = g[p[1]][p[2]]
      BY <1>6
    <3>2. p[1] # q
      BY <1>7, <1>14, <2>2, <3>1
    <3>3. PICK j \in 1..m : R[j] = p[1]
      BY <1>10, <3>2
    <3>4. <<j, p[2]>> \in (1..m) \X (1..k) /\ x = h[j][p[2]]
      BY <1>11, <3>1, <3>3
    <3> QED BY <2>0, <3>4
  <2> QED BY <2>0, <2>1, <2>2
<1>16. heirs \in [DOMAIN heirs -> Cells(h)]
  <2>1. Neighbour(q) \in 1..n /\ Neighbour(q) # q
    BY <1>1, <1>2 DEF Neighbour
  <2>2. ASSUME NEW x \in DOMAIN heirs PROVE heirs[x] \in Cells(h)
    <3>1. PICK c \in 1..k : x = g[q][c]
      BY <1>7, <1>14
    <3>2. heirs[x] = g[Neighbour(q)][c]
      BY <1>4, <1>8, <1>14, <3>1
    <3>3. <<Neighbour(q), c>> \in (1..n) \X (1..k)
      BY <2>1
    <3>4. heirs[x] \in Cells(g)
      BY <1>6, <3>2, <3>3
    <3>5. heirs[x] \notin DOMAIN heirs
      BY <1>2, <1>5, <1>7, <1>14, <2>1, <3>2
    <3> QED BY <1>15, <3>4, <3>5
  <2> QED BY <1>4, <2>2
<1> QED BY <1>13, <1>14, <1>15, <1>16 DEF h, heirs

\* remove_workspace: what is left is a grid of the cells without heirs, and every
\* removed workspace has an heir that stays. sanitize finds nothing to repair.
LEMMA WorkspaceRemoved ==
  ASSUME NEW S, NEW g, IsGrid(g, S), NEW x, Removable(g, x), NEW unused
  PROVE  LET h == Remaining(g, x)
             heirs == Heirs(g, x)
         IN  /\ IsGrid(h, S)
             /\ Sanitize(h, unused) = h
             /\ DOMAIN heirs \subseteq Cells(g)
             /\ Cells(h) = Cells(g) \ DOMAIN heirs
             /\ heirs \in [DOMAIN heirs -> Cells(h)]
<1> DEFINE h == Remaining(g, x)
           heirs == Heirs(g, x)
<1>1. x \in Cells(g) /\ (ColumnCount(g) > 1 \/ RowCount(g) > 1)
  BY DEF Removable
<1>2. RowOf(g, x) \in 1..Len(g) /\ ColumnOf(g, x) \in 1..Len(g[1])
  BY ONLY IsGrid(g, S), <1>1, PositionUnique
<1>3. \A r \in 1..Len(g), c \in 1..Len(g[1]) : g[r][c] \in Cells(g)
  <2> SUFFICES ASSUME NEW r \in 1..Len(g), NEW c \in 1..Len(g[1]) PROVE g[r][c] \in Cells(g)
    OBVIOUS
  <2>1. <<r, c>> \in (1..Len(g)) \X (1..Len(g[1]))
    OBVIOUS
  <2> QED BY <2>1, CellsByPosition
<1>4. /\ IsGrid(h, S) /\ DOMAIN heirs \subseteq Cells(g)
      /\ Cells(h) = Cells(g) \ DOMAIN heirs
      /\ heirs \in [DOMAIN heirs -> Cells(h)]
  <2>1. CASE ColumnCount(g) > 1
    <3> DEFINE c == ColumnOf(g, x)
    <3>1. h = WithoutColumn(g, c) /\ heirs = ColumnHeirs(g, c)
      BY <2>1 DEF Remaining, Heirs
    <3>2. c \in 1..Len(g[1])
      BY <1>2
    <3> HIDE DEF c, h, heirs
    <3>3. /\ IsGrid(h, S) /\ DOMAIN heirs = {g[r][c] : r \in 1..Len(g)}
          /\ Cells(h) = Cells(g) \ DOMAIN heirs
          /\ heirs \in [DOMAIN heirs -> Cells(h)]
      BY ONLY IsGrid(g, S), <2>1, <3>1, <3>2, ColumnRemoved
    <3> QED BY <1>3, <3>2, <3>3
  <2>2. CASE ~(ColumnCount(g) > 1)
    <3> DEFINE q == RowOf(g, x)
    <3>1. h = WithoutRow(g, q) /\ heirs = RowHeirs(g, q)
      BY <2>2 DEF Remaining, Heirs
    <3>2. q \in 1..Len(g) /\ RowCount(g) > 1
      BY <1>1, <1>2, <2>2
    <3> HIDE DEF q, h, heirs
    <3>3. /\ IsGrid(h, S) /\ DOMAIN heirs = Range(g[q])
          /\ Cells(h) = Cells(g) \ DOMAIN heirs
          /\ heirs \in [DOMAIN heirs -> Cells(h)]
      BY ONLY IsGrid(g, S), <3>1, <3>2, RowRemoved
    <3>4. DOMAIN g[q] = 1..Len(g[1])
      BY <3>2, GridShape
    <3> QED BY <1>3, <3>2, <3>3, <3>4 DEF Range
  <2> QED BY <2>1, <2>2
<1>5. Sanitize(h, unused) = h
  BY <1>4 DEF IsGrid, Sanitize
<1> QED BY <1>4, <1>5

-----------------------------------------------------------------------------
(* Types *)

\* Every step is one of the operations, a thread's or the outside world's.
LEMMA StepCases ==
  ASSUME Next
  PROVE  \/ \E t \in Caller, x \in WorkspaceId : BeginSwitch(t, x) \/ BeginDestroy(t, x)
         \/ \E t \in Caller, w \in Window, x \in WorkspaceId : BeginSendTo(t, w, x)
         \/ \E t \in Caller, m \in Monitor, asRow \in BOOLEAN : CreateDesktop(t, m, asRow)
         \/ \E t \in Thread : AddLocked(t)
         \/ \E t \in Thread : SwitchLocked(t)
         \/ \E t \in Thread : SwitchSettled(t)
         \/ \E t \in Thread : SendLocked(t)
         \/ \E t \in Thread : DestroyLocked(t)
         \/ \E t \in Thread : Announce(t)
         \/ AppsAdded \/ AppsRemoved
         \/ HookMinimizeEnd \/ ResolveUnminimized \/ HookRectChange \/ HookShow \/ HookGone
         \/ BootSubscribe
         \/ \E m \in Monitor : ViewAdded(m) \/ Connect(m)
         \/ \E m, n \in Monitor : Disconnect(m, n)
         \/ \E w \in Window : \/ BootScan(w) \/ RevalidateDrop(w) \/ RevalidateAdd(w)
                              \/ UserMinimize(w) \/ UserUnminimize(w) \/ RectSettled(w)
                              \/ WinShow(w) \/ WinHide(w) \/ WinClose(w)
         \/ \E w \in Window, m \in Monitor : MoveWindow(w, m)
<1>1. "apps" \in Thread /\ "hook" \in Thread /\ "boot" \in Thread /\ "reval" \in Thread
      /\ Caller \subseteq Thread
  BY DEF Thread
<1>2. ASSUME NEW t \in Thread, Continue(t)
      PROVE  AddLocked(t) \/ SwitchLocked(t) \/ SwitchSettled(t) \/ SendLocked(t)
             \/ DestroyLocked(t) \/ Announce(t)
  BY <1>2 DEF Continue
<1>3. CASE \E t \in Caller : Command(t) \/ Continue(t)
  BY <1>1, <1>2, <1>3 DEF Command
<1>4. CASE AppsStep
  BY <1>1, <1>2, <1>4 DEF AppsStep
<1>5. CASE HookStep
  BY <1>1, <1>2, <1>5 DEF HookStep
<1>6. CASE BootStep
  BY <1>1, <1>2, <1>6 DEF BootStep
<1>7. CASE RevalStep
  BY <1>1, <1>2, <1>7 DEF RevalStep
<1>8. CASE \E m \in Monitor : ViewAdded(m) \/ DisplayEvent(m)
  BY <1>8 DEF DisplayEvent
<1>9. CASE \E w \in Window : WindowEvent(w)
  BY <1>9 DEF WindowEvent
<1> QED BY <1>3, <1>4, <1>5, <1>6, <1>7, <1>8, <1>9 DEF Next

-----------------------------------------------------------------------------
(* The invariant of the grids. Its last part is what the system needs; the *)
(* rest keeps grid and active maps of the same domain, into grids of ids.  *)

GridInv ==
  /\ usedIds \subseteq WorkspaceId
  /\ grid \in [DOMAIN grid -> Seq(Seq(WorkspaceId))]
  /\ active \in [DOMAIN grid -> WorkspaceId]
  /\ GridsWellFormed

\* The cells of a grid of ids of S are in S.
LEMMA CellsTyped ==
  ASSUME NEW S, NEW g, IsGrid(g, S)
  PROVE  Cells(g) \subseteq S
<1>1. Cells(g) = {g[p[1]][p[2]] : p \in (1..Len(g)) \X (1..Len(g[1]))}
  BY CellsByPosition
<1>2. ASSUME NEW p \in (1..Len(g)) \X (1..Len(g[1])) PROVE g[p[1]][p[2]] \in S
  <2>1. p[1] \in 1..Len(g) /\ p[2] \in 1..Len(g[1])
    OBVIOUS
  <2>2. \A r \in 1..Len(g), c \in 1..Len(g[1]) : g[r][c] \in S
    BY ONLY IsGrid(g, S), GridShape
  <2> QED BY <2>1, <2>2
<1> QED BY <1>1, <1>2

\* A grid of ids of S is one of ids of any T that holds its cells.
LEMMA GridRetyped ==
  ASSUME NEW S, NEW T, NEW g, IsGrid(g, S), Cells(g) \subseteq T
  PROVE  IsGrid(g, T)
<1>1. /\ Len(g) \in Nat \ {0} /\ DOMAIN g = 1..Len(g) /\ g \in Seq(Seq(S))
      /\ \A r \in 1..Len(g) : g[r] \in Seq(S) /\ DOMAIN g[r] = 1..Len(g[r])
  BY GridShape DEF IsGrid
<1>2. ASSUME NEW r \in 1..Len(g) PROVE g[r] \in Seq(T)
  <2>1. \A c \in 1..Len(g[r]) : g[r][c] \in T
    <3>1. Range(g[r]) \subseteq Cells(g)
      BY <1>1 DEF Cells
    <3>2. \A c \in 1..Len(g[r]) : g[r][c] \in Range(g[r])
      BY <1>1 DEF Range
    <3> QED BY <3>1, <3>2
  <2>2. Len(g[r]) \in Nat /\ g[r] \in [1..Len(g[r]) -> T]
    BY <1>1, <2>1
  <2> QED BY <2>2, SeqDef
<1>3. g \in Seq(Seq(T))
  BY <1>1, <1>2
<1> QED BY <1>3 DEF IsGrid

\* The cells of every monitor are ids in use, so an unused id is on none of them.
LEMMA CellsUsed ==
  ASSUME GridInv
  PROVE  AllCells(grid) \subseteq usedIds /\ \A x \in Unused : x \notin AllCells(grid)
<1>1. \A m \in DOMAIN grid : Cells(grid[m]) \subseteq usedIds
  BY CellsTyped DEF GridInv, GridsWellFormed
<1> QED BY <1>1 DEF AllCells, Unused

-----------------------------------------------------------------------------
(* Each operation on the grids preserves the invariant *)

\* An entry for a monitor that has none.
LEMMA MonitorEntered ==
  ASSUME GridInv, NEW m, m \notin DOMAIN grid, NEW x \in Unused,
         grid' = With(grid, m, << <<x>> >>), active' = With(active, m, x),
         usedIds' = usedIds \cup {x}
  PROVE  GridInv'
<1>1. x \in WorkspaceId /\ x \notin usedIds
  BY DEF Unused
<1>2. IsGrid(<< <<x>> >>, {x}) /\ Cells(<< <<x>> >>) = {x}
  BY NewGrid
<1> DEFINE one == << <<x>> >>
<1>3. one \in Seq(Seq(WorkspaceId))
  BY <1>1
<1> HIDE DEF one
<1>4. /\ DOMAIN grid' = DOMAIN grid \cup {m} /\ grid'[m] = one
      /\ \A n \in DOMAIN grid : n # m /\ grid'[n] = grid[n]
      /\ DOMAIN active' = DOMAIN grid \cup {m} /\ active'[m] = x
      /\ \A n \in DOMAIN grid : active'[n] = active[n]
      /\ grid' = [n \in DOMAIN grid' |-> grid'[n]]
      /\ active' = [n \in DOMAIN grid' |-> active'[n]]
  BY DEF With, one, GridInv
<1>5. \A n \in DOMAIN grid :
        /\ IsGrid(grid[n], usedIds) /\ active[n] \in Cells(grid[n])
        /\ Cells(grid[n]) \subseteq usedIds
  BY CellsTyped DEF GridInv, GridsWellFormed
<1>6. \A n \in DOMAIN grid : IsGrid(grid[n], usedIds')
  BY <1>5, GridRetyped
<1>7. IsGrid(one, usedIds')
  BY <1>2, GridRetyped DEF one
<1>8. \A n1, n2 \in DOMAIN grid : n1 # n2 => Cells(grid[n1]) \cap Cells(grid[n2]) = {}
  BY DEF GridInv, GridsWellFormed
<1>9. Cells(one) = {x}
  BY <1>2 DEF one
<1>10. ASSUME NEW n \in DOMAIN grid'
       PROVE  /\ IsGrid(grid'[n], usedIds') /\ active'[n] \in Cells(grid'[n])
              /\ grid'[n] \in Seq(Seq(WorkspaceId)) /\ active'[n] \in WorkspaceId
  <2>1. CASE n = m
    BY <2>1, <1>1, <1>3, <1>4, <1>7, <1>9
  <2>2. CASE n \in DOMAIN grid
    BY <2>2, <1>4, <1>5, <1>6 DEF GridInv
  <2> QED BY <2>1, <2>2, <1>4
<1>11. ASSUME NEW n1 \in DOMAIN grid', NEW n2 \in DOMAIN grid', n1 # n2
       PROVE  Cells(grid'[n1]) \cap Cells(grid'[n2]) = {}
  <2>1. CASE n1 \in DOMAIN grid /\ n2 \in DOMAIN grid
    BY <2>1, <1>4, <1>8, <1>11
  <2>2. CASE n1 = m /\ n2 \in DOMAIN grid
    BY <2>2, <1>1, <1>4, <1>5, <1>9
  <2>3. CASE n1 \in DOMAIN grid /\ n2 = m
    BY <2>3, <1>1, <1>4, <1>5, <1>9
  <2> QED BY <2>1, <2>2, <2>3, <1>4, <1>11
<1>12. GridsWellFormed'
  BY <1>10, <1>11 DEF GridsWellFormed
<1>13. usedIds' \subseteq WorkspaceId
  BY <1>1 DEF GridInv
<1> QED BY <1>4, <1>10, <1>12, <1>13 DEF GridInv

\* create_desktop: a column or a row of unused ids.
LEMMA DesktopCreated ==
  ASSUME GridInv, NEW t, NEW m, NEW asRow \in BOOLEAN, CreateDesktop(t, m, asRow)
  PROVE  GridInv'
<1> DEFINE n == IF asRow THEN ColumnCount(grid[m]) ELSE RowCount(grid[m])
<1>1. /\ m \in DOMAIN grid /\ active' = active
      /\ \E new \in Injection(1..n, Unused) :
           LET g == IF asRow THEN AddRow(grid[m], new) ELSE AddColumn(grid[m], new)
           IN  /\ grid' = [grid EXCEPT ![m] = g]
               /\ usedIds' = usedIds \cup Range(new)
  BY DEF CreateDesktop
<1>2. PICK new \in Injection(1..n, Unused) :
        /\ grid' = [grid EXCEPT ![m] =
                      IF asRow THEN AddRow(grid[m], new) ELSE AddColumn(grid[m], new)]
        /\ usedIds' = usedIds \cup Range(new)
  BY <1>1
<1> DEFINE g == IF asRow THEN AddRow(grid[m], new) ELSE AddColumn(grid[m], new)
<1>3. Unused \subseteq WorkspaceId /\ usedIds \cap Unused = {}
  BY DEF Unused
<1>4. Range(new) \subseteq Unused
  BY DEF Injection, Range
<1>5. \A k \in DOMAIN grid :
        /\ IsGrid(grid[k], usedIds) /\ active[k] \in Cells(grid[k])
        /\ Cells(grid[k]) \subseteq usedIds
  BY CellsTyped DEF GridInv, GridsWellFormed
<1>6. IsGrid(g, WorkspaceId) /\ Cells(g) = Cells(grid[m]) \cup Range(new)
  <2>1. IsGrid(grid[m], WorkspaceId)
    BY <1>1, <1>5, GridRetyped DEF GridInv
  <2>2. Unused \cap Cells(grid[m]) = {} /\ Unused \in SUBSET WorkspaceId
    BY <1>1, <1>3, <1>5
  <2>3. CASE asRow
    <3>1. new \in Injection(1..ColumnCount(grid[m]), Unused)
      BY <2>3
    <3>2. /\ IsGrid(AddRow(grid[m], new), WorkspaceId)
          /\ Cells(AddRow(grid[m], new)) = Cells(grid[m]) \cup Range(new)
      BY ONLY <2>1, <2>2, <3>1, RowAdded
    <3> QED BY <2>3, <3>2
  <2>4. CASE ~asRow
    <3>1. new \in Injection(1..RowCount(grid[m]), Unused)
      BY <2>4
    <3>2. /\ IsGrid(AddColumn(grid[m], new), WorkspaceId)
          /\ Cells(AddColumn(grid[m], new)) = Cells(grid[m]) \cup Range(new)
      BY ONLY <2>1, <2>2, <3>1, ColumnAdded
    <3> QED BY <2>4, <3>2
  <2> QED BY <2>3, <2>4
<1> HIDE DEF g, n
<1>7. /\ DOMAIN grid' = DOMAIN grid /\ grid'[m] = g
      /\ \A k \in DOMAIN grid : k # m => grid'[k] = grid[k]
      /\ grid' = [k \in DOMAIN grid' |-> grid'[k]]
  BY <1>1, <1>2 DEF GridInv, g
<1>8. \A k \in DOMAIN grid : IsGrid(grid[k], usedIds')
  BY <1>2, <1>5, GridRetyped
<1>9. IsGrid(g, usedIds') /\ g \in Seq(Seq(WorkspaceId))
  <2>1. Cells(g) \subseteq usedIds'
    BY <1>1, <1>2, <1>5, <1>6
  <2> QED BY <1>6, <2>1, GridRetyped DEF IsGrid
<1>10. ASSUME NEW k \in DOMAIN grid'
       PROVE  /\ IsGrid(grid'[k], usedIds') /\ active'[k] \in Cells(grid'[k])
              /\ grid'[k] \in Seq(Seq(WorkspaceId))
  <2>1. CASE k = m
    BY <2>1, <1>1, <1>5, <1>6, <1>7, <1>9
  <2>2. CASE k # m
    BY <2>2, <1>1, <1>5, <1>7, <1>8 DEF GridInv
  <2> QED BY <2>1, <2>2
<1>11. \A k1, k2 \in DOMAIN grid : k1 # k2 => Cells(grid[k1]) \cap Cells(grid[k2]) = {}
  BY DEF GridInv, GridsWellFormed
<1>12. ASSUME NEW k1 \in DOMAIN grid', NEW k2 \in DOMAIN grid', k1 # k2
       PROVE  Cells(grid'[k1]) \cap Cells(grid'[k2]) = {}
  <2>1. CASE k1 # m /\ k2 # m
    BY <2>1, <1>7, <1>11, <1>12
  <2>2. CASE k1 = m
    <3>1. k2 # m /\ grid'[k1] = g /\ grid'[k2] = grid[k2] /\ k2 \in DOMAIN grid
      BY <2>2, <1>7, <1>12
    <3>2. Cells(grid[m]) \cap Cells(grid[k2]) = {} /\ Cells(grid[k2]) \subseteq usedIds
      BY <3>1, <1>1, <1>5, <1>11
    <3> QED BY <3>1, <3>2, <1>3, <1>4, <1>6
  <2>3. CASE k2 = m
    <3>1. k1 # m /\ grid'[k2] = g /\ grid'[k1] = grid[k1] /\ k1 \in DOMAIN grid
      BY <2>3, <1>7, <1>12
    <3>2. Cells(grid[m]) \cap Cells(grid[k1]) = {} /\ Cells(grid[k1]) \subseteq usedIds
      BY <3>1, <1>1, <1>5, <1>11
    <3> QED BY <3>1, <3>2, <1>3, <1>4, <1>6
  <2> QED BY <2>1, <2>2, <2>3
<1>13. GridsWellFormed'
  BY <1>10, <1>12 DEF GridsWellFormed
<1>14. usedIds' \subseteq WorkspaceId
  BY <1>2, <1>3, <1>4 DEF GridInv
<1> QED BY <1>1, <1>7, <1>10, <1>13, <1>14 DEF GridInv

\* switch_to_id activates a workspace of the monitor only.
LEMMA WorkspaceActivated ==
  ASSUME GridInv, NEW t, SwitchLocked(t)
  PROVE  GridInv'
<1> DEFINE x == call[t].ws
           m == call[t].mon
<1>1. grid' = grid /\ usedIds' = usedIds
  BY DEF SwitchLocked
<1>2. \/ active' = active
      \/ CanSwitch(m, x) /\ active' = [active EXCEPT ![m] = x]
  BY DEF SwitchLocked, Stay
<1> HIDE DEF x, m
<1>3. CASE active' = active
  BY <1>1, <1>3 DEF GridInv, GridsWellFormed
<1>4. CASE CanSwitch(m, x) /\ active' = [active EXCEPT ![m] = x]
  <2>1. m \in DOMAIN grid /\ x \in Cells(grid[m])
    BY <1>4 DEF CanSwitch, IsOn
  <2>2. x \in WorkspaceId
    BY <2>1, CellsUsed DEF AllCells, GridInv
  <2>3. active' \in [DOMAIN grid -> WorkspaceId]
    BY <1>4, <2>2 DEF GridInv
  <2>4. \A k \in DOMAIN grid : active'[k] \in Cells(grid[k])
    BY <1>4, <2>1 DEF GridInv, GridsWellFormed
  <2> QED BY <1>1, <2>3, <2>4 DEF GridInv, GridsWellFormed
<1> QED BY <1>2, <1>3, <1>4

\* What destroy_desktop does to a monitor's grid and active workspace: fewer cells,
\* and the heir of the active one if that is removed.
LEMMA RemainingGrid ==
  ASSUME GridInv, NEW m \in DOMAIN grid, NEW x, Removable(grid[m], x)
  PROVE  LET heirs == Heirs(grid[m], x)
             g     == Sanitize(Remaining(grid[m], x), Unused)
             now   == IF active[m] \in DOMAIN heirs THEN heirs[active[m]] ELSE active[m]
         IN  /\ IsGrid(g, usedIds) /\ g \in Seq(Seq(WorkspaceId))
             /\ Cells(g) = Cells(grid[m]) \ DOMAIN heirs
             /\ DOMAIN heirs \subseteq Cells(grid[m])
             /\ heirs \in [DOMAIN heirs -> Cells(g)]
             /\ now \in Cells(g) /\ now \in WorkspaceId
<1> DEFINE old   == grid[m]
           heirs == Heirs(old, x)
           h     == Remaining(old, x)
           g     == Sanitize(h, Unused)
           now   == IF active[m] \in DOMAIN heirs THEN heirs[active[m]] ELSE active[m]
<1>1. /\ IsGrid(old, usedIds) /\ active[m] \in Cells(old) /\ Removable(old, x)
      /\ usedIds \subseteq WorkspaceId
  BY DEF GridInv, GridsWellFormed
<1> HIDE DEF old
<1>2. /\ IsGrid(h, usedIds) /\ g = h
      /\ DOMAIN heirs \subseteq Cells(old) /\ Cells(h) = Cells(old) \ DOMAIN heirs
      /\ heirs \in [DOMAIN heirs -> Cells(h)]
  BY ONLY <1>1, WorkspaceRemoved
<1> HIDE DEF heirs, h, g
<1>3. now \in Cells(g)
  BY <1>1, <1>2
<1>4. Cells(g) \subseteq usedIds
  BY <1>2, CellsTyped
<1>5. g \in Seq(Seq(WorkspaceId))
  BY <1>1, <1>2, <1>4, GridRetyped DEF IsGrid
<1> QED BY <1>1, <1>2, <1>3, <1>4, <1>5 DEF old, heirs, h, g

LEMMA DesktopDestroyed ==
  ASSUME GridInv, NEW t, DestroyLocked(t)
  PROVE  GridInv'
<1> DEFINE x     == call[t].ws
           m     == call[t].mon
           heirs == Heirs(grid[m], x)
           g     == Sanitize(Remaining(grid[m], x), Unused)
           now   == IF active[m] \in DOMAIN heirs THEN heirs[active[m]] ELSE active[m]
<1>1. \/ UNCHANGED gridVars
      \/ /\ m \in DOMAIN grid /\ Removable(grid[m], x)
         /\ grid' = [grid EXCEPT ![m] = g]
         /\ active' = [active EXCEPT ![m] = now]
         /\ usedIds' = usedIds \cup Cells(g)
  BY DEF DestroyLocked
<1>2. CASE UNCHANGED gridVars
  BY <1>2 DEF gridVars, GridInv, GridsWellFormed
<1> HIDE DEF x, m
<1>3. CASE /\ m \in DOMAIN grid /\ Removable(grid[m], x)
           /\ grid' = [grid EXCEPT ![m] = g]
           /\ active' = [active EXCEPT ![m] = now]
           /\ usedIds' = usedIds \cup Cells(g)
  <2>1. /\ IsGrid(g, usedIds) /\ g \in Seq(Seq(WorkspaceId))
        /\ Cells(g) \subseteq Cells(grid[m])
        /\ now \in Cells(g) /\ now \in WorkspaceId
    BY <1>3, RemainingGrid
  <2> HIDE DEF heirs, g, now
  <2>2. usedIds' = usedIds
    BY <1>3, <2>1, CellsTyped
  <2>3. /\ grid' \in [DOMAIN grid -> Seq(Seq(WorkspaceId))] /\ DOMAIN grid' = DOMAIN grid
        /\ active' \in [DOMAIN grid -> WorkspaceId]
    BY <1>3, <2>1 DEF GridInv
  <2>4. ASSUME NEW k \in DOMAIN grid
        PROVE  /\ IsGrid(grid'[k], usedIds) /\ active'[k] \in Cells(grid'[k])
               /\ Cells(grid'[k]) \subseteq Cells(grid[k])
    <3>1. CASE k = m
      BY <3>1, <1>3, <2>1 DEF GridInv
    <3>2. CASE k # m
      BY <3>2, <1>3 DEF GridInv, GridsWellFormed
    <3> QED BY <3>1, <3>2
  <2>5. \A k1, k2 \in DOMAIN grid : k1 # k2 => Cells(grid[k1]) \cap Cells(grid[k2]) = {}
    BY DEF GridInv, GridsWellFormed
  <2>6. \A k1, k2 \in DOMAIN grid : k1 # k2 => Cells(grid'[k1]) \cap Cells(grid'[k2]) = {}
    BY <2>4, <2>5
  <2>7. GridsWellFormed'
    BY <2>2, <2>3, <2>4, <2>6 DEF GridsWellFormed
  <2> QED BY <2>2, <2>3, <2>7 DEF GridInv
<1> QED BY <1>1, <1>2, <1>3

-----------------------------------------------------------------------------
(* The specification *)

\* At start-up: the saved grids, and one workspace for each monitor without one.
LEMMA GridsInitially ==
  ASSUME Init
  PROVE  GridInv
<1>1. PICK s \in Stored :
        LET added == connected \ DOMAIN s.grid
        IN \E new \in Injection(added, WorkspaceId \ AllCells(s.grid)) :
             /\ grid = [m \in DOMAIN s.grid \cup added |->
                          IF m \in added THEN << <<new[m]>> >> ELSE s.grid[m]]
             /\ active = [m \in DOMAIN s.grid \cup added |->
                            IF m \in added THEN new[m] ELSE s.active[m]]
             /\ usedIds = AllCells(s.grid) \cup Range(new)
  BY DEF Init
<1> DEFINE added == connected \ DOMAIN s.grid
<1>2. PICK new \in Injection(added, WorkspaceId \ AllCells(s.grid)) :
        /\ grid = [m \in DOMAIN s.grid \cup added |->
                     IF m \in added THEN << <<new[m]>> >> ELSE s.grid[m]]
        /\ active = [m \in DOMAIN s.grid \cup added |->
                       IF m \in added THEN new[m] ELSE s.active[m]]
        /\ usedIds = AllCells(s.grid) \cup Range(new)
  BY <1>1
<1>3. /\ \A m \in DOMAIN s.grid : IsGrid(s.grid[m], WorkspaceId)
      /\ \A m, n \in DOMAIN s.grid :
           m # n => Cells(s.grid[m]) \cap Cells(s.grid[n]) = {}
      /\ \A m \in DOMAIN s.grid : s.active[m] \in WorkspaceId /\ s.active[m] \in Cells(s.grid[m])
  <2>1. IsSaved(s)
    BY StoredAssumption
  <2>2. /\ \A m \in DOMAIN s.grid : IsGrid(s.grid[m], WorkspaceId)
        /\ \A m, n \in DOMAIN s.grid :
             m # n => Cells(s.grid[m]) \cap Cells(s.grid[n]) = {}
    BY <2>1, Zenon DEF IsSaved
  <2>3. /\ s.active \in [DOMAIN s.grid -> WorkspaceId]
        /\ \A m \in DOMAIN s.grid : s.active[m] \in Cells(s.grid[m])
    BY <2>1, Zenon DEF IsSaved
  <2> QED BY <2>2, <2>3
<1>4. /\ \A m \in added : new[m] \in WorkspaceId /\ new[m] \notin AllCells(s.grid)
      /\ \A m, n \in added : new[m] = new[n] => m = n
      /\ Range(new) \subseteq WorkspaceId /\ \A m \in added : new[m] \in Range(new)
  BY <1>2 DEF Injection, IsInjective, Range
<1>5. \A m \in DOMAIN s.grid :
        /\ Cells(s.grid[m]) \subseteq AllCells(s.grid)
        /\ Cells(s.grid[m]) \subseteq WorkspaceId
  BY <1>3, CellsTyped DEF AllCells
<1> HIDE DEF added
<1>6. AllCells(s.grid) \subseteq WorkspaceId /\ usedIds \subseteq WorkspaceId
  BY <1>2, <1>4, <1>5 DEF AllCells
<1>7. ASSUME NEW m \in DOMAIN grid
      PROVE  /\ IsGrid(grid[m], usedIds) /\ grid[m] \in Seq(Seq(WorkspaceId))
             /\ active[m] \in Cells(grid[m]) /\ active[m] \in WorkspaceId
             /\ m \in added => grid[m] = << <<new[m]>> >> /\ Cells(grid[m]) = {new[m]}
             /\ m \notin added => m \in DOMAIN s.grid /\ grid[m] = s.grid[m]
  <2>1. CASE m \in added
    <3>1. grid[m] = << <<new[m]>> >> /\ active[m] = new[m]
      BY <2>1, <1>2
    <3>2. new[m] \in usedIds /\ new[m] \in WorkspaceId
      BY <2>1, <1>2, <1>4
    <3>3. IsGrid(grid[m], usedIds) /\ Cells(grid[m]) = {new[m]}
      BY ONLY <3>1, <3>2, NewGrid
    <3>4. grid[m] \in Seq(Seq(WorkspaceId))
      BY <3>1, <3>2
    <3> QED BY <2>1, <3>1, <3>2, <3>3, <3>4
  <2>2. CASE m \notin added
    <3>1. m \in DOMAIN s.grid /\ grid[m] = s.grid[m] /\ active[m] = s.active[m]
      BY <2>2, <1>2
    <3>2. Cells(s.grid[m]) \subseteq usedIds /\ IsGrid(s.grid[m], WorkspaceId)
      BY <3>1, <1>2, <1>3, <1>5
    <3>3. IsGrid(s.grid[m], usedIds) /\ s.grid[m] \in Seq(Seq(WorkspaceId))
      BY <3>2, GridRetyped DEF IsGrid
    <3> QED BY <2>2, <3>1, <3>3, <1>3
  <2> QED BY <2>1, <2>2
<1>8. ASSUME NEW m \in DOMAIN grid, NEW n \in DOMAIN grid, m # n
      PROVE  Cells(grid[m]) \cap Cells(grid[n]) = {}
  <2>1. CASE m \in added /\ n \in added
    BY <2>1, <1>4, <1>7, <1>8
  <2>2. CASE m \in added /\ n \notin added
    BY <2>2, <1>4, <1>5, <1>7
  <2>3. CASE m \notin added /\ n \in added
    BY <2>3, <1>4, <1>5, <1>7
  <2>4. CASE m \notin added /\ n \notin added
    BY <2>4, <1>3, <1>7, <1>8
  <2> QED BY <2>1, <2>2, <2>3, <2>4
<1>9. /\ grid \in [DOMAIN grid -> Seq(Seq(WorkspaceId))]
      /\ active \in [DOMAIN grid -> WorkspaceId]
  BY <1>2, <1>7
<1> QED BY <1>6, <1>7, <1>8, <1>9 DEF GridInv, GridsWellFormed

\* Only five operations touch the grids.
LEMMA GridsPreserved ==
  ASSUME GridInv, [Next]_vars
  PROVE  GridInv'
<1>1. CASE UNCHANGED gridVars
  BY <1>1 DEF gridVars, GridInv, GridsWellFormed
<1>2. ASSUME NEW t \in Thread, AddLocked(t) PROVE GridInv'
  <2>1. \/ UNCHANGED gridVars
        \/ /\ call[t].mon \notin DOMAIN grid
           /\ \E x \in Unused :
                /\ grid' = With(grid, call[t].mon, << <<x>> >>)
                /\ active' = With(active, call[t].mon, x)
                /\ usedIds' = usedIds \cup {x}
    BY <1>2 DEF AddLocked, gridVars
  <2> QED BY <1>1, <2>1, MonitorEntered
<1>3. ASSUME NEW m \in Monitor, ViewAdded(m) PROVE GridInv'
  <2>1. \/ UNCHANGED gridVars
        \/ /\ m \notin DOMAIN grid
           /\ \E x \in Unused :
                /\ grid' = With(grid, m, << <<x>> >>)
                /\ active' = With(active, m, x)
                /\ usedIds' = usedIds \cup {x}
    BY <1>3 DEF ViewAdded
  <2> QED BY <1>1, <2>1, MonitorEntered
<1>4. CASE UNCHANGED vars
  BY <1>1, <1>4 DEF vars, managerVars
<1>5. CASE Next
  <2>1. ASSUME NEW t \in Caller, NEW x \in WorkspaceId, BeginSwitch(t, x) \/ BeginDestroy(t, x)
        PROVE  UNCHANGED gridVars
    BY <2>1 DEF BeginSwitch, BeginDestroy, managerVars
  <2>2. ASSUME NEW t \in Caller, NEW w \in Window, NEW x \in WorkspaceId, BeginSendTo(t, w, x)
        PROVE  UNCHANGED gridVars
    BY <2>2 DEF BeginSendTo, managerVars
  <2>3. ASSUME NEW t \in Thread, SwitchSettled(t) \/ SendLocked(t) \/ Announce(t)
        PROVE  UNCHANGED gridVars
    BY <2>3 DEF SwitchSettled, SendLocked, Announce, managerVars
  <2>4. CASE AppsAdded \/ AppsRemoved
    BY <1>1, <2>4 DEF AppsAdded, AppsRemoved, managerVars
  <2>5. CASE HookMinimizeEnd \/ ResolveUnminimized \/ HookRectChange \/ HookShow \/ HookGone
    BY <1>1, <2>5 DEF HookMinimizeEnd, ResolveUnminimized, HookRectChange, HookShow,
                      HookGone, managerVars
  <2>6. CASE BootSubscribe
    BY <1>1, <2>6 DEF BootSubscribe, managerVars
  <2>7. ASSUME NEW m \in Monitor, NEW n \in Monitor, Connect(m) \/ Disconnect(m, n)
        PROVE  UNCHANGED gridVars
    BY <2>7 DEF Connect, Disconnect, EnvUnchanged, managerVars
  <2>8. ASSUME NEW w \in Window, BootScan(w) \/ RevalidateDrop(w) \/ RevalidateAdd(w)
        PROVE  UNCHANGED gridVars
    BY <2>8 DEF BootScan, RevalidateDrop, RevalidateAdd, managerVars
  <2>9. ASSUME NEW w \in Window,
               \/ UserMinimize(w) \/ UserUnminimize(w) \/ RectSettled(w)
               \/ WinShow(w) \/ WinHide(w) \/ WinClose(w)
        PROVE  UNCHANGED gridVars
    BY <2>9 DEF UserMinimize, UserUnminimize, RectSettled, WinShow, WinHide, WinClose,
                EnvUnchanged, managerVars
  <2>10. ASSUME NEW w \in Window, NEW m \in Monitor, MoveWindow(w, m) PROVE UNCHANGED gridVars
    BY <2>10 DEF MoveWindow, EnvUnchanged, managerVars
  <2> QED BY <1>1, <1>2, <1>3, <1>5, <2>1, <2>2, <2>3, <2>4, <2>5, <2>6, <2>7, <2>8, <2>9,
             <2>10, StepCases, DesktopCreated, DesktopDestroyed, WorkspaceActivated
<1> QED BY <1>4, <1>5

\* Whatever is created, destroyed and switched, in whatever order, every monitor has
\* a rectangular grid of distinct workspaces with its active workspace on it.
THEOREM GridsStayWellFormed == Spec => []GridsWellFormed
<1>1. Init => GridInv
  BY GridsInitially
<1>2. GridInv /\ [Next]_vars => GridInv'
  BY GridsPreserved
<1>3. GridInv => GridsWellFormed
  BY DEF GridInv
<1> QED BY <1>1, <1>2, <1>3, PTL DEF Spec

-----------------------------------------------------------------------------
(* Types *)

\* A thread about to announce an event knows which window it is about.
CallsCarryWindows ==
  \A t \in Thread :
    At(t, "announceAdded") \/ At(t, "announceRemoved") => call[t].win \in Window

TypeInv == TypeOK /\ CallsCarryWindows /\ SwitchesCounted

-----------------------------------------------------------------------------
(* The counter of switches in flight *)

Settling == {t \in Thread : At(t, "settling")}

LEMMA ThreadsFinite == IsFiniteSet(Thread) /\ IsFiniteSet(Settling)
<1>1. IsFiniteSet({"hook", "apps", "boot", "reval"})
  <2>1. IsFiniteSet({} \cup {"hook"})
    BY FS_EmptySet, FS_AddElement
  <2>2. IsFiniteSet({} \cup {"hook"} \cup {"apps"})
    BY <2>1, FS_AddElement
  <2>3. IsFiniteSet({} \cup {"hook"} \cup {"apps"} \cup {"boot"})
    BY <2>2, FS_AddElement
  <2>4. IsFiniteSet({} \cup {"hook"} \cup {"apps"} \cup {"boot"} \cup {"reval"})
    BY <2>3, FS_AddElement
  <2>5. {} \cup {"hook"} \cup {"apps"} \cup {"boot"} \cup {"reval"}
          = {"hook", "apps", "boot", "reval"}
    OBVIOUS
  <2> QED BY <2>4, <2>5
<1>2. IsFiniteSet(Thread)
  BY <1>1, ConstantsAssumption, FS_Union DEF Thread
<1> QED BY <1>2, FS_Subset DEF Settling

\* A step that neither starts nor ends a wait of 300 ms leaves the count alone.
LEMMA CountKept ==
  ASSUME SwitchesCounted, switching' = switching,
         \A t \in Thread : At(t, "settling")' <=> At(t, "settling")
  PROVE  SwitchesCounted'
<1>1. Settling' = Settling
  BY DEF Settling
<1> QED BY <1>1 DEF SwitchesCounted, Settling

LEMMA CountRaised ==
  ASSUME SwitchesCounted, NEW t \in Thread, ~At(t, "settling"), At(t, "settling")',
         \A u \in Thread \ {t} : At(u, "settling")' <=> At(u, "settling"),
         switching' = switching + 1
  PROVE  SwitchesCounted'
<1>1. Settling' = Settling \cup {t} /\ t \notin Settling
  BY DEF Settling
<1>2. Cardinality(Settling') = Cardinality(Settling) + 1
  BY <1>1, ThreadsFinite, FS_AddElement
<1> QED BY <1>2 DEF SwitchesCounted, Settling

\* The counter is positive when a wait ends.
LEMMA CountLowered ==
  ASSUME SwitchesCounted, NEW t \in Thread, At(t, "settling"), ~At(t, "settling")',
         \A u \in Thread \ {t} : At(u, "settling")' <=> At(u, "settling"),
         switching' = switching - 1
  PROVE  SwitchesCounted' /\ switching' \in Nat
<1>1. Settling' = Settling \ {t} /\ t \in Settling
  BY DEF Settling
<1>2. /\ Cardinality(Settling') = Cardinality(Settling) - 1
      /\ Cardinality(Settling) \in Nat /\ Cardinality(Settling') \in Nat
  <2>1. IsFiniteSet(Settling') /\ IsFiniteSet(Settling)
    BY <1>1, ThreadsFinite, FS_RemoveElement
  <2>2. Cardinality(Settling') \in Nat /\ Cardinality(Settling) \in Nat
    BY <2>1, FS_CardinalityType
  <2> QED BY <1>1, <2>1, <2>2, FS_RemoveElement
<1> QED BY <1>2 DEF SwitchesCounted, Settling

-----------------------------------------------------------------------------
(* What a step does to the threads *)

CallsOK == call \in [Thread -> Call] /\ CallsCarryWindows /\ SwitchesCounted

LEMMA CallsKept ==
  ASSUME TypeInv, call' = call, switching' = switching
  PROVE  CallsOK'
<1>1. SwitchesCounted'
  BY CountKept DEF TypeInv, At
<1> QED BY <1>1 DEF TypeInv, TypeOK, CallsOK, CallsCarryWindows, At

\* One thread moves, and neither waits for a switch to settle nor did.
LEMMA CallChanged ==
  ASSUME TypeInv, NEW t \in Thread, NEW c \in Call, call' = [call EXCEPT ![t] = c],
         ~At(t, "settling"), c.pc # "settling", switching' = switching,
         c.pc \in {"announceAdded", "announceRemoved"} => c.win \in Window
  PROVE  CallsOK'
<1>1. call \in [Thread -> Call] /\ CallsCarryWindows /\ SwitchesCounted
  BY DEF TypeInv, TypeOK
<1>2. call' \in [Thread -> Call] /\ \A u \in Thread : call'[u] = IF u = t THEN c ELSE call[u]
  BY <1>1
<1>3. SwitchesCounted'
  BY <1>1, <1>2, CountKept DEF At
<1>4. CallsCarryWindows'
  BY <1>1, <1>2 DEF CallsCarryWindows, At
<1> QED BY <1>2, <1>3, <1>4 DEF CallsOK

LEMMA IdleIsCall == Idle \in Call /\ Idle.pc = "idle"
BY DEF Idle, Call, Pc

LEMMA Returned ==
  ASSUME TypeInv, NEW t \in Thread, Return(t), ~At(t, "settling"), switching' = switching
  PROVE  CallsOK'
<1>1. call' = [call EXCEPT ![t] = Idle]
  BY DEF Return
<1> QED BY <1>1, IdleIsCall, CallChanged

LEMMA Gone ==
  ASSUME TypeInv, NEW t \in Thread, NEW pc \in Pc, NEW w \in Window \cup {None},
         NEW x \in WorkspaceId \cup {None}, NEW m \in Monitor \cup {None},
         Goto(t, pc, w, x, m), ~At(t, "settling"), pc # "settling",
         pc \in {"announceAdded", "announceRemoved"} => w \in Window,
         switching' = switching
  PROVE  CallsOK'
<1> DEFINE c == [pc |-> pc, win |-> w, ws |-> x, mon |-> m]
<1>1. c \in Call /\ c.pc = pc /\ c.win = w
  BY DEF Call
<1>2. call' = [call EXCEPT ![t] = c]
  BY DEF Goto
<1> HIDE DEF c
<1> QED BY <1>1, <1>2, CallChanged

LEMMA AddBegun ==
  ASSUME TypeInv, NEW t \in Thread, NEW w \in Window, BeginAdd(t, w), ~At(t, "settling"),
         switching' = switching
  PROVE  CallsOK'
<1>1. PICK m \in ReadLocation(w) : Goto(t, "adding", w, None, m)
  BY DEF BeginAdd
<1>2. m \in Monitor \cup {None}
  BY DEF ReadLocation, TypeInv, TypeOK
<1>3. "adding" \in Pc
  BY DEF Pc
<1> QED BY <1>1, <1>2, <1>3, Gone

-----------------------------------------------------------------------------
(* Hiding and restoring *)

LEMMA HideThenRestoreTyped ==
  ASSUME TypeOK, NEW p, NEW n, HideThenRestore(p, n)
  PROVE  /\ marks' \subseteq Window /\ restored' \in [Window -> Nat]
         /\ minimized' \subseteq alive /\ minimizedByUser' \subseteq Window
         /\ hookQueue' \in Seq(HookEvent)
         /\ UNCHANGED <<alive, shown, location>>
<1> DEFINE hidden == {w \in p : w \in alive \ minimized}
           back   == {w \in n : w \in (minimized \cup hidden) \cap (marks \cup hidden)}
<1>1. /\ marks' = (marks \cup hidden) \ n
      /\ minimized' = (minimized \cup hidden) \ back
      /\ minimizedByUser' = minimizedByUser \ back
      /\ restored' = [w \in Window |-> restored[w] + IF w \in back THEN 1 ELSE 0]
      /\ \E order \in SetToSeqs(back) :
           hookQueue' = hookQueue \o
             [i \in DOMAIN order |-> [kind |-> "unminimizedByRestore", win |-> order[i]]]
      /\ UNCHANGED <<alive, shown, location>>
  BY DEF HideThenRestore
<1>2. hidden \subseteq alive /\ back \subseteq Window
  BY DEF TypeOK
<1> HIDE DEF hidden, back
<1>3. hookQueue' \in Seq(HookEvent)
  <2>1. PICK order \in SetToSeqs(back) :
          hookQueue' = hookQueue \o
            [i \in DOMAIN order |-> [kind |-> "unminimizedByRestore", win |-> order[i]]]
    BY <1>1
  <2>2. Cardinality(back) \in Nat
    BY <1>2, ConstantsAssumption, FS_Subset, FS_CardinalityType
  <2>3. order \in [1..Cardinality(back) -> back]
    BY DEF SetToSeqs
  <2> DEFINE echo == [i \in DOMAIN order |->
                        [kind |-> "unminimizedByRestore", win |-> order[i]]]
  <2>4. echo \in [1..Cardinality(back) -> HookEvent]
    BY <1>2, <2>3 DEF HookEvent
  <2>5. echo \in Seq(HookEvent)
    BY <2>2, <2>4, SeqDef
  <2>6. hookQueue \in Seq(HookEvent)
    BY DEF TypeOK
  <2> HIDE DEF echo
  <2>7. hookQueue \o echo \in Seq(HookEvent)
    BY <2>5, <2>6, ConcatProperties
  <2> QED BY <2>1, <2>7 DEF echo
<1>4. restored' \in [Window -> Nat]
  BY <1>1 DEF TypeOK
<1> QED BY <1>1, <1>2, <1>3, <1>4 DEF TypeOK

-----------------------------------------------------------------------------
(* Each operation preserves the types *)

LEMMA CommandsTyped ==
  ASSUME TypeInv, GridInv, GridInv', NEW t \in Caller
  PROVE  /\ \A x \in WorkspaceId : BeginSwitch(t, x) \/ BeginDestroy(t, x) => TypeInv'
         /\ \A w \in Window, x \in WorkspaceId : BeginSendTo(t, w, x) => TypeInv'
         /\ \A m \in Monitor, asRow \in BOOLEAN : CreateDesktop(t, m, asRow) => TypeInv'
<1>1. t \in Thread /\ {"switching", "destroying", "sending"} \subseteq Pc
  BY DEF Thread, Pc
<1>2. TypeOK /\ \A x \in DOMAIN workspaceIndex : workspaceIndex[x] \in Monitor
  BY DEF TypeInv, TypeOK, IsMap
<1>3. ASSUME NEW x \in WorkspaceId, BeginSwitch(t, x) PROVE TypeInv'
  <2>1. Goto(t, "switching", None, x, workspaceIndex[x]) /\ x \in DOMAIN workspaceIndex
        /\ At(t, "idle") /\ switching' = switching
    BY <1>3 DEF BeginSwitch, managerVars
  <2>2. CallsOK'
    BY <1>1, <1>2, <2>1, Gone DEF At
  <2> QED BY <1>2, <1>3, <2>2 DEF TypeInv, TypeOK, CallsOK, BeginSwitch, managerVars,
             gridVars, assignVars, hideVars, bootVars, appsVars, worldVars, osVars,
             monitorVars, IsMap
<1>4. ASSUME NEW x \in WorkspaceId, BeginDestroy(t, x) PROVE TypeInv'
  <2>1. Goto(t, "destroying", None, x, workspaceIndex[x]) /\ x \in DOMAIN workspaceIndex
        /\ At(t, "idle") /\ switching' = switching
    BY <1>4 DEF BeginDestroy, managerVars
  <2>2. CallsOK'
    BY <1>1, <1>2, <2>1, Gone DEF At
  <2> QED BY <1>2, <1>4, <2>2 DEF TypeInv, TypeOK, CallsOK, BeginDestroy, managerVars,
             gridVars, assignVars, hideVars, bootVars, appsVars, worldVars, osVars,
             monitorVars, IsMap
<1>5. ASSUME NEW w \in Window, NEW x \in WorkspaceId, BeginSendTo(t, w, x) PROVE TypeInv'
  <2>1. Goto(t, "sending", w, x, workspaceIndex[x]) /\ x \in DOMAIN workspaceIndex
        /\ At(t, "idle") /\ switching' = switching
    BY <1>5 DEF BeginSendTo, managerVars
  <2>2. CallsOK'
    BY <1>1, <1>2, <2>1, Gone DEF At
  <2> QED BY <1>2, <1>5, <2>2 DEF TypeInv, TypeOK, CallsOK, BeginSendTo, managerVars,
             gridVars, assignVars, hideVars, bootVars, appsVars, worldVars, osVars,
             monitorVars, IsMap
<1>6. ASSUME NEW m \in Monitor, NEW asRow \in BOOLEAN, CreateDesktop(t, m, asRow)
      PROVE  TypeInv'
  <2>1. CallsOK' /\ switching' = switching
    BY <1>6, CallsKept DEF CreateDesktop
  <2>2. PICK g :
          /\ grid' = [grid EXCEPT ![m] = g] /\ m \in DOMAIN grid
          /\ workspaceIndex' = [x \in DOMAIN workspaceIndex \cup Cells(g) |->
                                  IF x \in Cells(g) THEN m ELSE workspaceIndex[x]]
    BY <1>6 DEF CreateDesktop
  <2>3. Cells(g) \subseteq WorkspaceId
    <3>1. m \in DOMAIN grid' /\ grid'[m] = g
      BY <2>2 DEF GridInv
    <3>2. IsGrid(grid'[m], usedIds') /\ usedIds' \subseteq WorkspaceId
      BY <3>1 DEF GridInv, GridsWellFormed
    <3> QED BY <3>1, <3>2, CellsTyped
  <2>4. IsMap(workspaceIndex', WorkspaceId, Monitor)
    BY <1>2, <2>2, <2>3 DEF IsMap, TypeOK
  <2>5. IsMap(grid', Monitor, Seq(Seq(WorkspaceId))) /\ DOMAIN grid' = DOMAIN grid
    BY <1>2, <2>2 DEF IsMap, TypeOK, GridInv
  <2> QED BY <1>2, <1>6, <2>1, <2>4, <2>5 DEF TypeInv, TypeOK, CallsOK, CreateDesktop,
             hideVars, bootVars, appsVars, worldVars, osVars, monitorVars, IsMap, GridInv
<1> QED BY <1>3, <1>4, <1>5, <1>6

LEMMA AddLockedTyped ==
  ASSUME TypeInv, GridInv, GridInv', NEW t \in Thread, AddLocked(t)
  PROVE  TypeInv'
<1> DEFINE w == call[t].win
           m == call[t].mon
<1>1. /\ At(t, "adding") /\ Return(t) /\ switching' = switching /\ TypeOK
      /\ UNCHANGED <<hideVars, bootVars, appsVars, worldVars>>
  BY DEF AddLocked, TypeInv
<1>2. CallsOK'
  BY <1>1, Returned DEF At
<1>3. /\ m \in Monitor \cup {None} /\ interactable \subseteq Window
      /\ windows \in [WorkspaceId -> SUBSET Window]
      /\ IsMap(workspaceIndex, WorkspaceId, Monitor)
      /\ IsMap(windowIndex, Window, WorkspaceId) /\ pinned \subseteq Window
      /\ IsMap(grid, Monitor, Seq(Seq(WorkspaceId)))
  BY <1>1 DEF TypeOK, Call
<1> HIDE DEF w, m
<1>4. ASSUME w \in Window, m \in Monitor, NEW x \in WorkspaceId, Push(w, m, x)
      PROVE  /\ windows' \in [WorkspaceId -> SUBSET Window]
             /\ IsMap(workspaceIndex', WorkspaceId, Monitor)
             /\ IsMap(windowIndex', Window, WorkspaceId) /\ pinned' \subseteq Window
  <2>1. /\ windows' = [windows EXCEPT ![x] = @ \cup {w}]
        /\ workspaceIndex' = With(workspaceIndex, x, m)
        /\ windowIndex' = With(windowIndex, w, x)
        /\ pinned' = pinned
    BY <1>4 DEF Push
  <2>2. windows' \in [WorkspaceId -> SUBSET Window]
    BY <1>3, <1>4, <2>1
  <2>3. IsMap(workspaceIndex', WorkspaceId, Monitor)
    BY <1>3, <1>4, <2>1 DEF With, IsMap
  <2>4. IsMap(windowIndex', Window, WorkspaceId)
    BY <1>3, <1>4, <2>1 DEF With, IsMap
  <2> QED BY <1>3, <2>1, <2>2, <2>3, <2>4
<1>5. ASSUME m \in Monitor, NEW x \in WorkspaceId, grid' = With(grid, m, << <<x>> >>)
      PROVE  IsMap(grid', Monitor, Seq(Seq(WorkspaceId)))
  <2>1. DOMAIN grid' \subseteq Monitor
    BY <1>3, <1>5 DEF With, IsMap
  <2> QED BY <2>1 DEF IsMap, GridInv
<1>6. /\ windows' \in [WorkspaceId -> SUBSET Window]
      /\ IsMap(workspaceIndex', WorkspaceId, Monitor)
      /\ IsMap(windowIndex', Window, WorkspaceId) /\ pinned' \subseteq Window
      /\ IsMap(grid', Monitor, Seq(Seq(WorkspaceId)))
  <2>1. CASE UNCHANGED <<gridVars, assignVars>>
    BY <1>3, <2>1 DEF gridVars, assignVars
  <2>2. CASE ~Rejected(w) /\ pinned' = pinned \cup {w}
             /\ UNCHANGED <<gridVars, windows, workspaceIndex, windowIndex>>
    BY <1>3, <2>2 DEF gridVars, Rejected
  <2>3. CASE ~Rejected(w) /\ m \in DOMAIN grid /\ Push(w, m, active[m]) /\ UNCHANGED gridVars
    <3>1. w \in Window /\ m \in Monitor /\ active[m] \in WorkspaceId
      BY <1>3, <2>3 DEF Rejected, IsMap, GridInv
    <3> QED BY <1>3, <1>4, <2>3, <3>1 DEF gridVars
  <2>4. CASE /\ ~Rejected(w) /\ m # None
             /\ \E x \in Unused : grid' = With(grid, m, << <<x>> >>) /\ Push(w, m, x)
    <3>1. w \in Window /\ m \in Monitor
      BY <1>3, <2>4 DEF Rejected
    <3>2. PICK x \in WorkspaceId : grid' = With(grid, m, << <<x>> >>) /\ Push(w, m, x)
      BY <2>4 DEF Unused
    <3> QED BY <1>4, <1>5, <3>1, <3>2
  <2> QED BY <2>1, <2>2, <2>3, <2>4 DEF AddLocked, w, m
<1> QED BY <1>1, <1>2, <1>6 DEF TypeInv, TypeOK, CallsOK, hideVars, bootVars, appsVars,
           worldVars, osVars, monitorVars, GridInv

LEMMA SwitchTyped ==
  ASSUME TypeInv, GridInv, GridInv', NEW t \in Thread
  PROVE  SwitchLocked(t) \/ SwitchSettled(t) => TypeInv'
<1>1. TypeOK /\ call \in [Thread -> Call] /\ CallsCarryWindows /\ switching \in Nat
  BY DEF TypeInv, TypeOK
<1>2. MissedBy(t) \subseteq Window
  BY <1>1 DEF MissedBy, TypeOK, Call, Thread
<1>3. ASSUME SwitchLocked(t) PROVE TypeInv'
  <2> DEFINE x == call[t].ws
             m == call[t].mon
  <2>1. /\ At(t, "switching")
        /\ UNCHANGED <<grid, usedIds, assignVars, booted, toScan, removalMissed,
                       appsVars, monitorVars, rectChanged>>
    BY <1>3 DEF SwitchLocked
  <2>2. CASE Stay(t)
    <3>1. /\ Return(t) /\ switching' = switching
          /\ unminimizeMissed' \subseteq Window
          /\ UNCHANGED <<active, hideVars, osVars, hookQueue>>
      BY <2>2, <1>1, <1>2 DEF Stay, TypeOK
    <3>2. CallsOK'
      BY <3>1, <2>1, Returned DEF At
    <3> QED BY <1>1, <2>1, <3>1, <3>2 DEF TypeInv, TypeOK, CallsOK, hideVars, appsVars,
               assignVars, osVars, monitorVars
  <2>3. CASE /\ switching' = switching + 1 /\ unminimizeMissed' = unminimizeMissed
             /\ HideThenRestore(windows[active[m]], windows[x])
             /\ Goto(t, "settling", None, x, m)
    <3> DEFINE c == [pc |-> "settling", win |-> None, ws |-> x, mon |-> m]
    <3>1. c \in Call /\ c.pc = "settling"
      BY <1>1 DEF Call, Pc
    <3>2. call' = [call EXCEPT ![t] = c]
      BY <2>3 DEF Goto
    <3> HIDE DEF c
    <3>3. call' \in [Thread -> Call] /\ \A u \in Thread : call'[u] = IF u = t THEN c ELSE call[u]
      BY <1>1, <3>1, <3>2
    <3>4. SwitchesCounted'
      BY <2>1, <2>3, <3>1, <3>3, CountRaised DEF At, TypeInv
    <3>5. CallsCarryWindows'
      BY <1>1, <3>1, <3>3 DEF CallsCarryWindows, At
    <3>6. /\ marks' \subseteq Window /\ restored' \in [Window -> Nat]
          /\ minimized' \subseteq alive /\ minimizedByUser' \subseteq Window
          /\ hookQueue' \in Seq(HookEvent)
          /\ UNCHANGED <<alive, shown, location>>
      BY <1>1, <2>3, HideThenRestoreTyped
    <3> QED BY <1>1, <2>1, <2>3, <3>3, <3>4, <3>5, <3>6 DEF TypeInv, TypeOK, appsVars,
               assignVars, monitorVars, GridInv
  <2> QED BY <1>3, <2>2, <2>3 DEF SwitchLocked
<1>4. ASSUME SwitchSettled(t) PROVE TypeInv'
  <2>1. /\ At(t, "settling") /\ switching' = switching - 1
        /\ call' = [call EXCEPT ![t] = Idle]
        /\ UNCHANGED <<gridVars, assignVars, hideVars, bootVars, appsVars, worldVars>>
    BY <1>4 DEF SwitchSettled, Return
  <2>2. call' \in [Thread -> Call] /\ \A u \in Thread : call'[u] = IF u = t THEN Idle ELSE call[u]
    BY <1>1, <2>1, IdleIsCall
  <2>3. SwitchesCounted' /\ switching' \in Nat
    BY <2>1, <2>2, IdleIsCall, CountLowered DEF At, TypeInv
  <2>4. CallsCarryWindows'
    BY <1>1, <2>2, IdleIsCall DEF CallsCarryWindows, At
  <2> QED BY <1>1, <2>1, <2>2, <2>3, <2>4 DEF TypeInv, TypeOK, gridVars, assignVars,
             hideVars, bootVars, appsVars, worldVars, osVars, monitorVars
<1> QED BY <1>3, <1>4

LEMMA SendLockedTyped ==
  ASSUME TypeInv, GridInv, NEW t \in Thread, SendLocked(t)
  PROVE  TypeInv'
<1> DEFINE w == call[t].win
           x == call[t].ws
           m == call[t].mon
<1>1. /\ TypeOK /\ At(t, "sending") /\ Return(t) /\ switching' = switching
      /\ UNCHANGED <<gridVars, workspaceIndex, pinned, switching, restored, booted,
                     toScan, removalMissed, appsVars, alive, shown, location,
                     minimizedByUser, monitorVars, hookQueue, rectChanged>>
  BY DEF SendLocked, TypeInv
<1>2. CallsOK'
  BY <1>1, Returned DEF At
<1>3. MissedBy(t) \subseteq Window /\ x \in WorkspaceId \cup {None}
  BY <1>1 DEF MissedBy, TypeOK, Call, Thread
<1>4. /\ windows' \in [WorkspaceId -> SUBSET Window]
      /\ IsMap(windowIndex', Window, WorkspaceId)
      /\ marks' \subseteq Window /\ minimized' \subseteq alive
      /\ unminimizeMissed' \subseteq Window
  <2>1. CASE /\ unminimizeMissed' = IF IsOn(x, m) THEN unminimizeMissed ELSE MissedBy(t)
             /\ UNCHANGED <<windows, windowIndex, marks, minimized>>
    BY <1>1, <1>3, <2>1 DEF TypeOK
  <2>2. CASE /\ CanSend(w, m, x)
             /\ windows' = MovedTo(w, x)
             /\ windowIndex' = With(windowIndex, w, x)
             /\ \/ UNCHANGED <<marks, minimized>>
                \/ MinimizeMarked(w)
             /\ UNCHANGED unminimizeMissed
    <3>1. w \in Window /\ x \in DOMAIN windows \cup {None}
      BY <1>1, <1>3, <2>2 DEF CanSend, TypeOK, IsMap
    <3>2. windows' \in [WorkspaceId -> SUBSET Window]
      BY <1>1, <2>2, <3>1 DEF MovedTo, TypeOK
    <3>3. x \in WorkspaceId
      <4>1. m \in DOMAIN grid /\ x \in Cells(grid[m])
        BY <2>2 DEF CanSend, IsOn
      <4> QED BY <4>1, <1>1, CellsUsed DEF AllCells, TypeOK
    <3>4. IsMap(windowIndex', Window, WorkspaceId)
      BY <1>1, <2>2, <3>1, <3>3 DEF With, IsMap, TypeOK
    <3>5. marks' \subseteq Window /\ minimized' \subseteq alive
      BY <1>1, <2>2, <3>1 DEF MinimizeMarked, TypeOK
    <3> QED BY <1>1, <2>2, <3>2, <3>4, <3>5 DEF TypeOK
  <2> QED BY <2>1, <2>2 DEF SendLocked
<1> HIDE DEF w, x, m
<1> QED BY <1>1, <1>2, <1>4 DEF TypeInv, TypeOK, CallsOK, gridVars, appsVars, monitorVars

\* get_indexes maps workspaces to monitors and windows to workspaces.
LEMMA WindowsOfTyped ==
  ASSUME NEW lists \in [WorkspaceId -> SUBSET Window]
  PROVE  /\ IsMap(WindowsOf(lists), Window, WorkspaceId)
         /\ DOMAIN WindowsOf(lists) = UNION {lists[x] : x \in WorkspaceId}
         /\ \A w \in DOMAIN WindowsOf(lists) : w \in lists[WindowsOf(lists)[w]]
<1> DEFINE U == UNION {lists[x] : x \in WorkspaceId}
<1>1. WindowsOf(lists) = [w \in U |-> CHOOSE x \in WorkspaceId : w \in lists[x]]
  BY DEF WindowsOf
<1>2. \A w \in U : \E x \in WorkspaceId : w \in lists[x]
  OBVIOUS
<1>3. \A w \in U : LET x == CHOOSE x \in WorkspaceId : w \in lists[x]
                   IN  x \in WorkspaceId /\ w \in lists[x]
  BY <1>2
<1>4. U \subseteq Window
  OBVIOUS
<1> HIDE DEF U
<1>5. DOMAIN WindowsOf(lists) = U
  BY <1>1
<1> QED BY <1>1, <1>3, <1>4, <1>5 DEF IsMap, U

LEMMA WorkspacesOfTyped ==
  ASSUME NEW grids
  PROVE  /\ DOMAIN WorkspacesOf(grids) = AllCells(grids)
         /\ WorkspacesOf(grids) = [x \in AllCells(grids) |-> WorkspacesOf(grids)[x]]
         /\ \A x \in AllCells(grids) :
              /\ WorkspacesOf(grids)[x] \in DOMAIN grids
              /\ x \in Cells(grids[WorkspacesOf(grids)[x]])
<1>1. \A x \in AllCells(grids) : \E m \in DOMAIN grids : x \in Cells(grids[m])
  BY DEF AllCells
<1> QED BY <1>1 DEF WorkspacesOf

LEMMA DestroyLockedTyped ==
  ASSUME TypeInv, GridInv, GridInv', NEW t \in Thread, DestroyLocked(t)
  PROVE  TypeInv'
<1> DEFINE x     == call[t].ws
           m     == call[t].mon
           heirs == Heirs(grid[m], x)
           g     == Sanitize(Remaining(grid[m], x), Unused)
           now   == IF active[m] \in DOMAIN heirs THEN heirs[active[m]] ELSE active[m]
<1>1. /\ TypeOK /\ At(t, "destroying") /\ Return(t) /\ switching' = switching
      /\ UNCHANGED <<switching, bootVars, appsVars, monitorVars, rectChanged>>
  BY DEF DestroyLocked, TypeInv
<1>2. CallsOK'
  BY <1>1, Returned DEF At
<1>3. CASE UNCHANGED <<gridVars, assignVars, hideVars, osVars, hookQueue>>
  BY <1>1, <1>2, <1>3 DEF TypeInv, TypeOK, CallsOK, gridVars, assignVars, hideVars, osVars,
     bootVars, appsVars, monitorVars
<1>4. CASE /\ m \in DOMAIN grid /\ Removable(grid[m], x)
           /\ grid' = [grid EXCEPT ![m] = g]
           /\ windows' = Inherited(heirs)
           /\ ReplaceIndexes(grid', windows')
           /\ UNCHANGED pinned
           /\ \/ HideThenRestore({}, windows'[now])
              \/ UNCHANGED <<hideVars, osVars, hookQueue>>
  <2>0. DOMAIN heirs \subseteq WorkspaceId
    <3>1. DOMAIN heirs \subseteq Cells(grid[m])
      BY <1>4, RemainingGrid
    <3> QED BY <1>4, <3>1, CellsUsed DEF AllCells, GridInv
  <2> HIDE DEF x, m, heirs, g, now
  <2>1. IsMap(grid', Monitor, Seq(Seq(WorkspaceId)))
    BY <1>1, <1>4 DEF TypeOK, IsMap, GridInv
  <2>2. windows' \in [WorkspaceId -> SUBSET Window]
    <3>1. windows \in [WorkspaceId -> SUBSET Window]
      BY <1>1 DEF TypeOK
    <3>2. \A y \in WorkspaceId :
            {windows[z] : z \in {u \in DOMAIN heirs : heirs[u] = y}} \subseteq SUBSET Window
      BY <2>0, <3>1
    <3> QED BY <1>4, <3>1, <3>2 DEF Inherited
  <2>3. AllCells(grid') \subseteq WorkspaceId /\ DOMAIN grid' \subseteq Monitor
    <3>1. \A k \in DOMAIN grid' : Cells(grid'[k]) \subseteq usedIds'
      BY CellsTyped DEF GridInv, GridsWellFormed
    <3> QED BY <2>1, <3>1 DEF AllCells, GridInv, IsMap
  <2>4. IsMap(workspaceIndex', WorkspaceId, Monitor)
    BY <1>4, <2>3, WorkspacesOfTyped DEF ReplaceIndexes, IsMap
  <2>5. IsMap(windowIndex', Window, WorkspaceId)
    BY <1>4, <2>2, WindowsOfTyped DEF ReplaceIndexes
  <2>6. /\ marks' \subseteq Window /\ restored' \in [Window -> Nat]
        /\ minimized' \subseteq alive /\ minimizedByUser' \subseteq Window
        /\ hookQueue' \in Seq(HookEvent)
        /\ UNCHANGED <<alive, shown, location>>
    BY <1>1, <1>4, HideThenRestoreTyped DEF TypeOK, hideVars, osVars
  <2> QED BY <1>1, <1>2, <1>4, <2>1, <2>2, <2>4, <2>5, <2>6 DEF TypeInv, TypeOK, CallsOK,
             bootVars, appsVars, monitorVars, GridInv
<1> QED BY <1>3, <1>4 DEF DestroyLocked

\* Taking the head of a queue and adding at its end.
LEMMA QueueTyped ==
  ASSUME NEW S, NEW q \in Seq(S)
  PROVE  /\ q # <<>> => Head(q) \in S /\ Tail(q) \in Seq(S)
         /\ \A e \in S : Append(q, e) \in Seq(S)
BY HeadTailProperties, AppendProperties

LEMMA AppsTyped ==
  ASSUME TypeInv
  PROVE  /\ AppsAdded \/ AppsRemoved => TypeInv'
         /\ \A w \in Window : RevalidateDrop(w) \/ RevalidateAdd(w) => TypeInv'
         /\ \A t \in Thread : Announce(t) => TypeInv'
<1>1. TypeOK /\ "apps" \in Thread /\ "reval" \in Thread
  BY DEF TypeInv, Thread
<1>2. appsQueue \in Seq(AppsEvent)
  BY <1>1 DEF TypeOK
<1>3. appsQueue # <<>> => Head(appsQueue).win \in Window /\ Tail(appsQueue) \in Seq(AppsEvent)
  <2>1. appsQueue \in Seq(AppsEvent)
    BY <1>2
  <2>2. appsQueue # <<>> => Head(appsQueue) \in AppsEvent /\ Tail(appsQueue) \in Seq(AppsEvent)
    BY ONLY <2>1, QueueTyped
  <2>3. \A e \in AppsEvent : e.win \in Window
    BY DEF AppsEvent
  <2> QED BY <2>2, <2>3
<1>4. \A w \in Window, k \in {"added", "removed"} :
        Append(appsQueue, [kind |-> k, win |-> w]) \in Seq(AppsEvent)
  <2> SUFFICES ASSUME NEW w \in Window, NEW k \in {"added", "removed"}
               PROVE  Append(appsQueue, [kind |-> k, win |-> w]) \in Seq(AppsEvent)
    OBVIOUS
  <2>1. [kind |-> k, win |-> w] \in AppsEvent
    BY DEF AppsEvent
  <2> QED BY <1>2, <2>1, QueueTyped
<1>5. ASSUME AppsAdded PROVE TypeInv'
  <2>1. /\ appsQueue # <<>> /\ appsQueue' = Tail(appsQueue) /\ At("apps", "idle")
        /\ BeginAdd("apps", Head(appsQueue).win) \/ call' = call
        /\ switching' = switching
        /\ UNCHANGED <<managerVars, bootVars, interactable, worldVars>>
    BY <1>5 DEF AppsAdded, managerVars
  <2>2. CallsOK'
    BY <1>1, <1>3, <2>1, AddBegun, CallsKept DEF At
  <2> QED BY <1>1, <1>3, <2>1, <2>2 DEF TypeInv, TypeOK, CallsOK, managerVars, gridVars,
             assignVars, hideVars, bootVars, worldVars, osVars, monitorVars
<1>6. ASSUME AppsRemoved PROVE TypeInv'
  <2> DEFINE w == Head(appsQueue).win
  <2>1. /\ appsQueue # <<>> /\ appsQueue' = Tail(appsQueue)
        /\ call' = call /\ switching' = switching
        /\ \/ /\ Untrack(w)
              /\ removalMissed' = removalMissed \ {w}
              /\ unminimizeMissed' = unminimizeMissed \ {w}
           \/ /\ removalMissed' = removalMissed \cup {w}
              /\ UNCHANGED <<assignVars, unminimizeMissed>>
        /\ UNCHANGED <<gridVars, switching, hideVars, call, booted, toScan, interactable,
                       worldVars>>
    BY <1>6 DEF AppsRemoved
  <2>2. CallsOK'
    BY <2>1, CallsKept
  <2>3. w \in Window
    BY <1>3, <2>1
  <2> HIDE DEF w
  <2>4. /\ windows' \in [WorkspaceId -> SUBSET Window]
        /\ IsMap(windowIndex', Window, WorkspaceId) /\ pinned' \subseteq Window
        /\ workspaceIndex' = workspaceIndex
        /\ removalMissed' \subseteq Window /\ unminimizeMissed' \subseteq Window
    BY <1>1, <2>1, <2>3 DEF TypeOK, Untrack, Restrict, IsMap, assignVars
  <2> QED BY <1>1, <1>3, <2>1, <2>2, <2>4 DEF TypeInv, TypeOK, CallsOK, gridVars,
             hideVars, worldVars, osVars, monitorVars
<1>7. ASSUME NEW w \in Window, RevalidateDrop(w) PROVE TypeInv'
  <2>1. CallsOK'
    BY <1>7, CallsKept DEF RevalidateDrop, managerVars
  <2> QED BY <1>1, <1>4, <1>7, <2>1 DEF RevalidateDrop, TypeInv, TypeOK, CallsOK, managerVars,
             gridVars, assignVars, hideVars, bootVars, worldVars, osVars, monitorVars
<1>8. ASSUME NEW w \in Window, RevalidateAdd(w) PROVE TypeInv'
  <2>1. "announceAdded" \in Pc
    BY DEF Pc
  <2>2. CallsOK'
    BY <1>1, <1>8, <2>1, Gone DEF RevalidateAdd, managerVars, At
  <2> QED BY <1>1, <1>8, <2>2 DEF RevalidateAdd, TypeInv, TypeOK, CallsOK, managerVars,
             gridVars, assignVars, hideVars, bootVars, worldVars, osVars, monitorVars
<1>9. ASSUME NEW t \in Thread, Announce(t) PROVE TypeInv'
  <2>1. call[t].win \in Window
    BY <1>9 DEF Announce, TypeInv, CallsCarryWindows
  <2>2. CallsOK'
    BY <1>9, Returned DEF Announce, managerVars, At
  <2>3. appsQueue' \in Seq(AppsEvent)
    BY <1>4, <1>9, <2>1 DEF Announce
  <2> QED BY <1>1, <1>9, <2>2, <2>3 DEF Announce, TypeInv, TypeOK, CallsOK, managerVars,
             gridVars, assignVars, hideVars, bootVars, worldVars, osVars, monitorVars
<1> QED BY <1>5, <1>6, <1>7, <1>8, <1>9

LEMMA HookTyped ==
  ASSUME TypeInv, GridInv
  PROVE  HookMinimizeEnd \/ ResolveUnminimized \/ HookRectChange \/ HookShow \/ HookGone
           => TypeInv'
<1>1. TypeOK /\ "hook" \in Thread
      /\ {"resolving", "switching", "sending", "announceAdded", "announceRemoved"} \subseteq Pc
  BY DEF TypeInv, Thread, Pc
<1>2. hookQueue \in Seq(HookEvent) /\ IsMap(workspaceIndex, WorkspaceId, Monitor)
      /\ IsMap(windowIndex, Window, WorkspaceId)
  BY <1>1 DEF TypeOK
<1>3. hookQueue # <<>> => Head(hookQueue).win \in Window /\ Tail(hookQueue) \in Seq(HookEvent)
  <2>1. hookQueue \in Seq(HookEvent)
    BY <1>2
  <2>2. hookQueue # <<>> => Head(hookQueue) \in HookEvent /\ Tail(hookQueue) \in Seq(HookEvent)
    BY ONLY <2>1, QueueTyped
  <2>3. \A e \in HookEvent : e.win \in Window
    BY DEF HookEvent
  <2> QED BY <2>2, <2>3
<1>4. \A kinds : NextHookEvent(kinds) =>
        /\ At("hook", "idle") /\ Head(hookQueue).win \in Window
        /\ hookQueue' \in Seq(HookEvent)
  BY <1>3 DEF NextHookEvent
<1>5. MissedBy("hook") \subseteq Window /\ call["hook"].win \in Window \cup {None}
  BY <1>1 DEF MissedBy, TypeOK, Call
<1>6. \A m \in DOMAIN grid : active[m] \in WorkspaceId
  BY DEF GridInv
<1>7. ASSUME HookMinimizeEnd PROVE TypeInv'
  <2> DEFINE w == Head(hookQueue).win
  <2>1. /\ NextHookEvent({"unminimizedByUser", "unminimizedByRestore"})
        /\ \/ restored[w] > 0 /\ ConsumeEntry(w)
           \/ restored' = restored
        /\ \/ call' = call
           \/ w \in DOMAIN windowIndex /\ Goto("hook", "resolving", w, windowIndex[w], None)
           \/ BeginAdd("hook", w)
        /\ unminimizeMissed' \in {unminimizeMissed, unminimizeMissed \cup {w}}
        /\ UNCHANGED <<gridVars, assignVars, switching, marks, booted, toScan,
                       removalMissed, appsVars, osVars, monitorVars, rectChanged>>
    BY <1>7 DEF HookMinimizeEnd
  <2>2. w \in Window /\ At("hook", "idle") /\ hookQueue' \in Seq(HookEvent)
    BY <1>4, <2>1
  <2> HIDE DEF w
  <2>3. CallsOK'
    BY <1>1, <1>2, <2>1, <2>2, Gone, AddBegun, CallsKept DEF At, IsMap
  <2>4. restored' \in [Window -> Nat] /\ unminimizeMissed' \subseteq Window
    BY <1>1, <2>1, <2>2 DEF TypeOK, ConsumeEntry
  <2> QED BY <1>1, <2>1, <2>2, <2>3, <2>4 DEF TypeInv, TypeOK, CallsOK, gridVars, assignVars,
             appsVars, osVars, monitorVars
<1>8. ASSUME ResolveUnminimized PROVE TypeInv'
  <2> DEFINE w == call["hook"].win
             x == call["hook"].ws
  <2>1. /\ At("hook", "resolving") /\ switching' = switching
        /\ marks' \in {marks, marks \ {w}}
        /\ unminimizeMissed' \in {unminimizeMissed, MissedBy("hook")}
        /\ \/ Return("hook")
           \/ x \in DOMAIN workspaceIndex /\ Goto("hook", "switching", w, x, workspaceIndex[x])
           \/ \E m \in DOMAIN grid :
                /\ active[m] \in DOMAIN workspaceIndex
                /\ Goto("hook", "sending", w, active[m], workspaceIndex[active[m]])
        /\ UNCHANGED <<gridVars, assignVars, switching, restored, booted, toScan,
                       removalMissed, appsVars, worldVars>>
    BY <1>8 DEF ResolveUnminimized
  <2>2. CallsOK'
    BY <1>1, <1>2, <1>5, <1>6, <2>1, Gone, Returned DEF At, IsMap
  <2>3. marks' \subseteq Window /\ unminimizeMissed' \subseteq Window
    BY <1>1, <1>5, <2>1 DEF TypeOK
  <2> QED BY <1>1, <2>1, <2>2, <2>3 DEF TypeInv, TypeOK, CallsOK, gridVars, assignVars,
             appsVars, worldVars, osVars, monitorVars
<1>9. ASSUME HookRectChange PROVE TypeInv'
  <2> DEFINE w == Head(hookQueue).win
  <2>1. /\ NextHookEvent({"rectChange"}) /\ switching' = switching
        /\ \/ call' = call
           \/ \E m \in DOMAIN grid :
                /\ active[m] \in DOMAIN workspaceIndex
                /\ Goto("hook", "sending", w, active[m], workspaceIndex[active[m]])
        /\ UNCHANGED <<managerVars, bootVars, appsVars, osVars, monitorVars, rectChanged>>
    BY <1>9 DEF HookRectChange, Displaced, managerVars
  <2>2. w \in Window /\ At("hook", "idle") /\ hookQueue' \in Seq(HookEvent)
    BY <1>4, <2>1
  <2>3. CallsOK'
    BY <1>1, <1>2, <1>6, <2>1, <2>2, Gone, CallsKept DEF At, IsMap
  <2> QED BY <1>1, <2>1, <2>2, <2>3 DEF TypeInv, TypeOK, CallsOK, managerVars, gridVars,
             assignVars, hideVars, bootVars, appsVars, osVars, monitorVars
<1>10. ASSUME HookShow PROVE TypeInv'
  <2> DEFINE w == Head(hookQueue).win
  <2>1. /\ NextHookEvent({"show"}) /\ switching' = switching
        /\ interactable' \in {interactable, interactable \cup {w}}
        /\ call' = call \/ Goto("hook", "announceAdded", w, None, None)
        /\ UNCHANGED <<managerVars, bootVars, appsQueue, osVars, monitorVars, rectChanged>>
    BY <1>10 DEF HookShow, managerVars
  <2>2. w \in Window /\ At("hook", "idle") /\ hookQueue' \in Seq(HookEvent)
    BY <1>4, <2>1
  <2>3. CallsOK'
    BY <1>1, <2>1, <2>2, Gone, CallsKept DEF At
  <2> QED BY <1>1, <2>1, <2>2, <2>3 DEF TypeInv, TypeOK, CallsOK, managerVars, gridVars,
             assignVars, hideVars, bootVars, osVars, monitorVars
<1>11. ASSUME HookGone PROVE TypeInv'
  <2> DEFINE w == Head(hookQueue).win
  <2>1. /\ NextHookEvent({"hide", "destroy"}) /\ switching' = switching
        /\ restored' \in {restored, [restored EXCEPT ![w] = 0]}
        /\ marks' \in {marks, marks \ {w}}
        /\ interactable' \in {interactable, interactable \ {w}}
        /\ call' = call \/ Goto("hook", "announceRemoved", w, None, None)
        /\ UNCHANGED <<gridVars, assignVars, switching, bootVars, appsQueue, osVars,
                       monitorVars, rectChanged>>
    BY <1>11 DEF HookGone, hideVars
  <2>2. w \in Window /\ At("hook", "idle") /\ hookQueue' \in Seq(HookEvent)
    BY <1>4, <2>1
  <2>3. CallsOK'
    BY <1>1, <2>1, <2>2, Gone, CallsKept DEF At
  <2>4. restored' \in [Window -> Nat] /\ marks' \subseteq Window /\ interactable' \subseteq Window
    BY <1>1, <2>1 DEF TypeOK
  <2> QED BY <1>1, <2>1, <2>2, <2>3, <2>4 DEF TypeInv, TypeOK, CallsOK, gridVars,
             assignVars, bootVars, osVars, monitorVars
<1> QED BY <1>7, <1>8, <1>9, <1>10, <1>11

LEMMA BootAndDisplaysTyped ==
  ASSUME TypeInv, GridInv, GridInv'
  PROVE  /\ BootSubscribe => TypeInv'
         /\ \A w \in Window : BootScan(w) => TypeInv'
         /\ \A m \in Monitor : ViewAdded(m) \/ Connect(m) => TypeInv'
         /\ \A m, n \in Monitor : Disconnect(m, n) => TypeInv'
<1>1. TypeOK /\ "boot" \in Thread
  BY DEF TypeInv, Thread
<1>2. ASSUME BootSubscribe PROVE TypeInv'
  <2>1. CallsOK'
    BY <1>2, CallsKept DEF BootSubscribe, managerVars
  <2> QED BY <1>1, <1>2, <2>1 DEF BootSubscribe, TypeInv, TypeOK, CallsOK, managerVars,
             gridVars, assignVars, hideVars, appsVars, worldVars, osVars, monitorVars
<1>3. ASSUME NEW w \in Window, BootScan(w) PROVE TypeInv'
  <2>1. CallsOK'
    BY <1>1, <1>3, AddBegun, CallsKept DEF BootScan, managerVars, At
  <2> QED BY <1>1, <1>3, <2>1 DEF BootScan, TypeInv, TypeOK, CallsOK, managerVars,
             gridVars, assignVars, hideVars, appsVars, worldVars, osVars, monitorVars
<1>4. ASSUME NEW m \in Monitor, ViewAdded(m) PROVE TypeInv'
  <2>1. CallsOK'
    BY <1>4, CallsKept DEF ViewAdded
  <2>2. IsMap(grid', Monitor, Seq(Seq(WorkspaceId)))
    <3>1. DOMAIN grid' \subseteq Monitor
      BY <1>1, <1>4 DEF ViewAdded, With, TypeOK, IsMap, gridVars
    <3> QED BY <3>1 DEF IsMap, GridInv
  <2> QED BY <1>1, <1>4, <2>1, <2>2 DEF ViewAdded, TypeInv, TypeOK, CallsOK, assignVars,
             hideVars, bootVars, appsVars, osVars, GridInv
<1>5. ASSUME NEW m \in Monitor, Connect(m) PROVE TypeInv'
  <2>1. CallsOK'
    BY <1>5, CallsKept DEF Connect, EnvUnchanged, managerVars
  <2> QED BY <1>1, <1>5, <2>1 DEF Connect, EnvUnchanged, TypeInv, TypeOK, CallsOK,
             managerVars, gridVars, assignVars, hideVars, bootVars, appsVars, osVars
<1>6. ASSUME NEW m \in Monitor, NEW n \in Monitor, Disconnect(m, n) PROVE TypeInv'
  <2>1. CallsOK'
    BY <1>6, CallsKept DEF Disconnect, EnvUnchanged, managerVars
  <2> QED BY <1>1, <1>6, <2>1 DEF Disconnect, EnvUnchanged, TypeInv, TypeOK, CallsOK,
             managerVars, gridVars, assignVars, hideVars, bootVars, appsVars
<1> QED BY <1>2, <1>3, <1>4, <1>5, <1>6

LEMMA WindowEventsTyped ==
  ASSUME TypeInv, NEW w \in Window
  PROVE  /\ UserMinimize(w) \/ UserUnminimize(w) \/ RectSettled(w) => TypeInv'
         /\ WinShow(w) \/ WinHide(w) \/ WinClose(w) => TypeInv'
         /\ \A m \in Monitor : MoveWindow(w, m) => TypeInv'
<1>1. TypeOK /\ hookQueue \in Seq(HookEvent) /\ connected \subseteq Monitor
      /\ location \in [Window -> Monitor]
  BY DEF TypeInv, TypeOK
<1>2. \A kind \in {"unminimizedByUser", "show", "hide", "destroy", "rectChange"} :
        Emit(kind, w) => hookQueue' \in Seq(HookEvent)
  <2> SUFFICES ASSUME NEW kind \in {"unminimizedByUser", "show", "hide", "destroy", "rectChange"}
               PROVE  Append(hookQueue, [kind |-> kind, win |-> w]) \in Seq(HookEvent)
    BY DEF Emit
  <2>1. [kind |-> kind, win |-> w] \in HookEvent
    BY DEF HookEvent
  <2> QED BY <1>1, <2>1, QueueTyped
<1>3. ASSUME EnvUnchanged PROVE CallsOK'
  BY <1>3, CallsKept DEF EnvUnchanged, managerVars
<1>4. ASSUME EnvUnchanged, UNCHANGED monitorVars, hookQueue' \in Seq(HookEvent),
             shown' \subseteq alive', alive' \subseteq Window, minimized' \subseteq alive',
             location' \in [Window -> Monitor], minimizedByUser' \subseteq Window,
             rectChanged' \subseteq Window
      PROVE  TypeInv'
  BY <1>1, <1>3, <1>4 DEF EnvUnchanged, TypeInv, TypeOK, CallsOK, managerVars, gridVars,
     assignVars, hideVars, bootVars, appsVars, monitorVars
<1>5. ASSUME UserMinimize(w) PROVE TypeInv'
  BY <1>1, <1>4, <1>5 DEF UserMinimize, TypeOK
<1>6. ASSUME UserUnminimize(w) PROVE TypeInv'
  BY <1>1, <1>2, <1>4, <1>6 DEF UserUnminimize, TypeOK
<1>7. ASSUME RectSettled(w) PROVE TypeInv'
  BY <1>1, <1>2, <1>4, <1>7 DEF RectSettled, TypeOK, osVars
<1>8. ASSUME WinShow(w) PROVE TypeInv'
  BY <1>1, <1>2, <1>4, <1>8 DEF WinShow, TypeOK
<1>9. ASSUME WinHide(w) PROVE TypeInv'
  BY <1>1, <1>2, <1>4, <1>9 DEF WinHide, TypeOK
<1>10. ASSUME WinClose(w) PROVE TypeInv'
  BY <1>1, <1>2, <1>4, <1>10 DEF WinClose, TypeOK
<1>11. ASSUME NEW m \in Monitor, MoveWindow(w, m) PROVE TypeInv'
  BY <1>1, <1>4, <1>11 DEF MoveWindow, TypeOK
<1> QED BY <1>5, <1>6, <1>7, <1>8, <1>9, <1>10, <1>11

-----------------------------------------------------------------------------
(* The specification *)

LEMMA TypesInitially ==
  ASSUME Init
  PROVE  TypeInv
<1>1. PICK s \in Stored :
        /\ \E new \in Injection(connected \ DOMAIN s.grid, WorkspaceId \ AllCells(s.grid)) :
             grid = [m \in DOMAIN s.grid \cup (connected \ DOMAIN s.grid) |->
                       IF m \in connected \ DOMAIN s.grid THEN << <<new[m]>> >> ELSE s.grid[m]]
        /\ windows = [x \in WorkspaceId |-> (s.windows[x] \ s.pinned) \cap shown]
        /\ pinned = s.pinned \cap shown
        /\ workspaceIndex = WorkspacesOf(s.grid)
        /\ windowIndex = WindowsOf(windows)
        /\ marks = UNION {windows[x] : x \in AllCells(s.grid) \ Range(s.active)}
        /\ \E iconic \in SUBSET shown : minimized = iconic \cup marks
  BY DEF Init
<1>2. /\ connected \in SUBSET Monitor /\ shown \in SUBSET Window /\ alive = shown
      /\ location \in [Window -> connected] /\ switching = 0
      /\ restored = [w \in Window |-> 0] /\ call = [t \in Thread |-> Idle]
      /\ booted = FALSE /\ interactable = shown /\ toScan = interactable
      /\ appsQueue = <<>> /\ hookQueue = <<>>
      /\ rectChanged = {} /\ viewsAdded = {}
      /\ minimizedByUser = minimized \ marks
      /\ removalMissed = {} /\ unminimizeMissed = {}
  BY DEF Init
<1>3. GridInv
  BY GridsInitially
<1>4. /\ DOMAIN s.grid \subseteq Monitor
      /\ \A m \in DOMAIN s.grid : Cells(s.grid[m]) \subseteq WorkspaceId
      /\ s.windows \in [WorkspaceId -> SUBSET Window] /\ s.pinned \subseteq Window
  <2>1. IsSaved(s)
    BY StoredAssumption
  <2>2. /\ DOMAIN s.grid \subseteq Monitor
        /\ \A m \in DOMAIN s.grid : IsGrid(s.grid[m], WorkspaceId)
        /\ s.windows \in [WorkspaceId -> SUBSET Window] /\ s.pinned \subseteq Window
    BY <2>1, Zenon DEF IsSaved
  <2> QED BY <2>2, CellsTyped
<1>5. windows \in [WorkspaceId -> SUBSET Window] /\ \A x \in WorkspaceId : windows[x] \subseteq shown
  BY <1>1, <1>2
<1>6. AllCells(s.grid) \subseteq WorkspaceId
  BY <1>4 DEF AllCells
<1>7. IsMap(workspaceIndex, WorkspaceId, Monitor)
  BY <1>1, <1>4, <1>6, WorkspacesOfTyped DEF IsMap
<1>8. IsMap(windowIndex, Window, WorkspaceId)
  BY <1>1, <1>5, WindowsOfTyped
<1>9. marks \subseteq shown /\ minimized \subseteq shown
  BY <1>1, <1>5, <1>6
<1>10. IsMap(grid, Monitor, Seq(Seq(WorkspaceId)))
  BY <1>1, <1>2, <1>3, <1>4 DEF IsMap, GridInv
<1>11. \A t \in Thread : call[t] = Idle /\ Idle.pc = "idle"
  BY <1>2, IdleIsCall
<1>12. SwitchesCounted /\ CallsCarryWindows
  <2>1. {t \in Thread : At(t, "settling")} = {}
    BY <1>11 DEF At
  <2> QED BY <1>2, <1>11, <2>1, FS_EmptySet DEF SwitchesCounted, CallsCarryWindows, At
<1>13. TypeOK
  <2>1. active \in [DOMAIN grid -> WorkspaceId] /\ usedIds \subseteq WorkspaceId
    BY <1>3 DEF GridInv
  <2>2. /\ pinned \subseteq Window /\ marks \subseteq Window /\ minimized \subseteq alive
        /\ shown \subseteq alive /\ alive \subseteq Window /\ interactable \subseteq Window
        /\ toScan \subseteq Window /\ minimizedByUser \subseteq Window
    BY <1>1, <1>2, <1>4, <1>9
  <2>3. /\ call \in [Thread -> Call] /\ restored \in [Window -> Nat] /\ switching \in Nat
        /\ location \in [Window -> Monitor] /\ connected \subseteq Monitor
        /\ booted \in BOOLEAN
    BY <1>2, IdleIsCall
  <2>4. appsQueue \in Seq(AppsEvent) /\ hookQueue \in Seq(HookEvent)
    BY <1>2
  <2>5. /\ rectChanged \subseteq Window /\ viewsAdded \subseteq Monitor
        /\ removalMissed \subseteq Window /\ unminimizeMissed \subseteq Window
    BY <1>2
  <2> QED BY <1>5, <1>7, <1>8, <1>10, <2>1, <2>2, <2>3, <2>4, <2>5 DEF TypeOK
<1> QED BY <1>12, <1>13 DEF TypeInv

LEMMA TypesPreserved ==
  ASSUME TypeInv, GridInv, GridInv', [Next]_vars
  PROVE  TypeInv'
<1>1. CASE UNCHANGED vars
  <2>1. CallsOK'
    BY <1>1, CallsKept DEF vars, managerVars
  <2> QED BY <1>1, <2>1 DEF TypeInv, TypeOK, CallsOK, vars, managerVars, gridVars,
             assignVars, hideVars, bootVars, appsVars, worldVars, osVars, monitorVars
<1>2. CASE Next
  <2>1. \A t \in Caller :
          /\ \A x \in WorkspaceId : BeginSwitch(t, x) \/ BeginDestroy(t, x) => TypeInv'
          /\ \A w \in Window, x \in WorkspaceId : BeginSendTo(t, w, x) => TypeInv'
          /\ \A m \in Monitor, asRow \in BOOLEAN : CreateDesktop(t, m, asRow) => TypeInv'
    BY CommandsTyped
  <2>2. \A t \in Thread :
          /\ AddLocked(t) \/ SwitchLocked(t) \/ SwitchSettled(t) => TypeInv'
          /\ SendLocked(t) \/ DestroyLocked(t) \/ Announce(t) => TypeInv'
    BY AddLockedTyped, SwitchTyped, SendLockedTyped, DestroyLockedTyped, AppsTyped
  <2>3. /\ AppsAdded \/ AppsRemoved => TypeInv'
        /\ \A w \in Window : RevalidateDrop(w) \/ RevalidateAdd(w) => TypeInv'
    BY AppsTyped
  <2>4. HookMinimizeEnd \/ ResolveUnminimized \/ HookRectChange \/ HookShow \/ HookGone
          => TypeInv'
    BY HookTyped
  <2>5. /\ BootSubscribe => TypeInv'
        /\ \A w \in Window : BootScan(w) => TypeInv'
        /\ \A m \in Monitor : ViewAdded(m) \/ Connect(m) => TypeInv'
        /\ \A m, n \in Monitor : Disconnect(m, n) => TypeInv'
    BY BootAndDisplaysTyped
  <2>6. \A w \in Window :
          /\ UserMinimize(w) \/ UserUnminimize(w) \/ RectSettled(w) => TypeInv'
          /\ WinShow(w) \/ WinHide(w) \/ WinClose(w) => TypeInv'
          /\ \A m \in Monitor : MoveWindow(w, m) => TypeInv'
    BY WindowEventsTyped
  <2>7. CASE \E t \in Caller :
               \/ \E x \in WorkspaceId : BeginSwitch(t, x) \/ BeginDestroy(t, x)
               \/ \E w \in Window, x \in WorkspaceId : BeginSendTo(t, w, x)
               \/ \E m \in Monitor, asRow \in BOOLEAN : CreateDesktop(t, m, asRow)
    BY <2>1, <2>7
  <2>8. CASE \E t \in Thread : \/ AddLocked(t) \/ SwitchLocked(t) \/ SwitchSettled(t)
                             \/ SendLocked(t) \/ DestroyLocked(t) \/ Announce(t)
    BY <2>2, <2>8
  <2>9. CASE \/ AppsAdded \/ AppsRemoved
             \/ HookMinimizeEnd \/ ResolveUnminimized \/ HookRectChange \/ HookShow
             \/ HookGone \/ BootSubscribe
    BY <2>3, <2>4, <2>5, <2>9
  <2>10. CASE \/ \E m \in Monitor : ViewAdded(m) \/ Connect(m)
              \/ \E m, n \in Monitor : Disconnect(m, n)
    BY <2>5, <2>10
  <2>11. CASE \E w \in Window :
                \/ BootScan(w) \/ RevalidateDrop(w) \/ RevalidateAdd(w)
                \/ UserMinimize(w) \/ UserUnminimize(w) \/ RectSettled(w)
                \/ WinShow(w) \/ WinHide(w) \/ WinClose(w)
                \/ \E m \in Monitor : MoveWindow(w, m)
    BY <2>3, <2>5, <2>6, <2>11
  <2> QED BY <1>2, <2>7, <2>8, <2>9, <2>10, <2>11, StepCases
<1> QED BY <1>1, <1>2

\* Type correctness, and with it that no step applies an index or a queue operation
\* where the code would panic: the head of an empty queue, an unknown monitor.
THEOREM TypesStayCorrect == Spec => []TypeOK
<1>1. Init => TypeInv /\ GridInv
  BY TypesInitially, GridsInitially
<1>2. TypeInv /\ GridInv /\ [Next]_vars => (TypeInv /\ GridInv)'
  BY TypesPreserved, GridsPreserved
<1>3. TypeInv => TypeOK
  BY DEF TypeInv
<1> QED BY <1>1, <1>2, <1>3, PTL DEF Spec

\* switching is the number of switches between their lock and the end of their
\* sleep, for any number of threads: it is 0 exactly when none is in flight.
THEOREM SwitchesStayCounted == Spec => []SwitchesCounted
<1>1. Init => TypeInv /\ GridInv
  BY TypesInitially, GridsInitially
<1>2. TypeInv /\ GridInv /\ [Next]_vars => (TypeInv /\ GridInv)'
  BY TypesPreserved, GridsPreserved
<1>3. TypeInv => SwitchesCounted
  BY DEF TypeInv
<1> QED BY <1>1, <1>2, <1>3, PTL DEF Spec
=============================================================================
